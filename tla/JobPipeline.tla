---------------------------- MODULE JobPipeline ----------------------------
(***************************************************************************)
(* The asynchronous job pipeline: the SQS jobs queue and its redrive       *)
(* policy (deploy/main.tf), the Lambda event source that invokes the       *)
(* worker, the worker's entry point (app/handler.py), and process_payload  *)
(* (app/geoworker.py), which runs every job of a message, posts its        *)
(* artifacts back to Django and reports usage for the jobs that landed.    *)
(*                                                                         *)
(* A delivery is a pair <<m, a>>: the a-th time message m is received. It  *)
(* is also the Lambda invocation that runs it (batch_size is 1), so the    *)
(* local state of every invocation is one record, inv[m][a].               *)
(***************************************************************************)
EXTENDS JobResult, FiniteSets

CONSTANTS
    Messages,           \* messages that may be published
    Bodies,             \* the bodies a publisher may send
    MaxJobs,            \* the longest bundle in Bodies
    MaxReceive,         \* the queue's maxReceiveCount
    Concurrency,        \* reserved_concurrent_executions of the worker
    Copies,             \* TRUE if SQS may deliver a hidden message again
    PostAnswers         \* how Django may answer a postback

ASSUME BodiesAssumption ==
    /\ Bodies \subseteq BodyType
    /\ \A b \in Bodies : Len(b.jobs) <= MaxJobs /\ (~ b.parsed => b.jobs = <<>>)

ASSUME QueueAssumption ==
    /\ MaxJobs \in Nat
    /\ MaxReceive \in Nat \ {0}
    /\ Concurrency \in Nat \ {0}
    /\ Copies \in BOOLEAN

ASSUME AnswersAssumption == PostAnswers \subseteq Answers

VARIABLES
    queue,     \* queue[m]: where the message is
    body,      \* body[m]: what was published
    received,  \* received[m]: SQS's ApproximateReceiveCount
    inv,       \* inv[m][a]: the invocation that runs the a-th delivery
    answers,   \* answers[m][a]: the postbacks made, as <<job, output, answer>>
    usage      \* usage[m][a][j]: usage events recorded by x402 for job j

vars == <<queue, body, received, inv, answers, usage>>

Deliveries == 1 .. MaxReceive

QueueStates == {"unsent", "visible", "hidden", "deleted", "parked"}

(***************************************************************************)
(* The control points of an invocation:                                    *)
(*   "none"      the delivery has not happened                             *)
(*   "throttled" received, but no execution was free to run it             *)
(*   "invoked"   at the top of handler                                     *)
(*   "next"      at the head of process_payload's loop, about to run `job` *)
(*   "posting"   inside the job function, about to post output `out`       *)
(*   "report"    the function returned `result`; usage is reported next    *)
(*   "succeeded" process_payload returned: an empty batchItemFailures      *)
(*   "failed"    the message is in batchItemFailures                       *)
(*   "acked"     the event source has acted on an empty batchItemFailures  *)
(*   "dead"      timed out or killed                                       *)
(***************************************************************************)
Executing == {"invoked", "next", "posting", "report"}
Points == Executing \union {"none", "throttled", "succeeded", "failed", "acked", "dead"}

Invocation ==
    [pc : Points, job : 1 .. MaxJobs + 1, out : Nat \ {0},
     result : SUBSET ResultItems, failures : SUBSET (1 .. MaxJobs)]

Idle == [pc |-> "none", job |-> 1, out |-> 1, result |-> {}, failures |-> {}]

Jobs(m) == body[m].jobs
JobIn(m, a) == Jobs(m)[inv[m][a].job]

Running(m) == {a \in Deliveries : inv[m][a].pc \in Executing}
Busy == {d \in Messages \X Deliveries : inv[d[1]][d[2]].pc \in Executing}

(* The reserved concurrency leaves an execution free. *)
Free == Cardinality(Busy) < Concurrency

NoUsage == [j \in 1 .. MaxJobs |-> 0]

NoBody == [parsed |-> FALSE, jobs |-> <<>>]

Init ==
    /\ queue = [m \in Messages |-> "unsent"]
    /\ body = [m \in Messages |-> NoBody]
    /\ received = [m \in Messages |-> 0]
    /\ inv = [m \in Messages |-> [a \in Deliveries |-> Idle]]
    /\ answers = [m \in Messages |-> [a \in Deliveries |-> {}]]
    /\ usage = [m \in Messages |-> [a \in Deliveries |-> NoUsage]]

-----------------------------------------------------------------------------
(* The jobs queue and its event source, as deploy/main.tf configures them. *)

(* publish_jobs, or Django sending to the queue itself. *)
Publish(m, b) ==
    /\ queue[m] = "unsent"
    /\ queue' = [queue EXCEPT ![m] = "visible"]
    /\ body' = [body EXCEPT ![m] = b]
    /\ UNCHANGED <<received, inv, answers, usage>>

(* Mutant: one delivery more than the redrive policy allows. *)
ReceiveOnceMore(m, pc) ==
    /\ received[m] <= MaxReceive
    /\ received' = [received EXCEPT ![m] = @ + 1]
    /\ inv' = [inv EXCEPT ![m][received[m] + 1] = [Idle EXCEPT !.pc = pc]]
    /\ queue' = [queue EXCEPT ![m] = "hidden"]
    /\ UNCHANGED <<body, answers, usage>>

(* The message is received once more, by an invocation that begins at pc. *)
Receive(m, pc) ==
    /\ received[m] < MaxReceive
    /\ received' = [received EXCEPT ![m] = @ + 1]
    /\ inv' = [inv EXCEPT ![m][received[m] + 1] = [Idle EXCEPT !.pc = pc]]
    /\ queue' = [queue EXCEPT ![m] = "hidden"]
    /\ UNCHANGED <<body, answers, usage>>

Deliver(m) == queue[m] = "visible" /\ Free /\ Receive(m, "invoked")

(* A standard queue delivers at least once: a hidden message may come again. *)
DeliverCopy(m) == Copies /\ queue[m] = "hidden" /\ Free /\ Receive(m, "invoked")

(* The event source polls ahead of the reserved concurrency: the receive   *)
(* counts, and the invocation is throttled.                                *)
Throttle(m) == queue[m] = "visible" /\ ~ Free /\ Receive(m, "throttled")

(* The visibility timeout, which runs from the receive, runs out. This may *)
(* happen under an invocation that still executes, or before the event     *)
(* source has acted on its return: JobTiming says when.                    *)
Reappear(m) ==
    /\ queue[m] = "hidden"
    /\ queue' = [queue EXCEPT ![m] = "visible"]
    /\ UNCHANGED <<body, received, inv, answers, usage>>

(* Mutant: the receive count must exceed a limit it cannot exceed. *)
ParkTooLate(m) ==
    /\ queue[m] = "visible"
    /\ received[m] > MaxReceive
    /\ queue' = [queue EXCEPT ![m] = "parked"]
    /\ UNCHANGED <<body, received, inv, answers, usage>>

(* The redrive policy, on a message received maxReceiveCount times. *)
Park(m) ==
    /\ queue[m] = "visible"
    /\ received[m] >= MaxReceive
    /\ queue' = [queue EXCEPT ![m] = "parked"]
    /\ UNCHANGED <<body, received, inv, answers, usage>>

(* The event source tries a throttled invocation again, and an execution   *)
(* is free: it begins later than the message was received. It may as well  *)
(* not try again, or never find one free.                                  *)
Retry(m, a) ==
    /\ inv[m][a].pc = "throttled"
    /\ Free
    /\ inv' = [inv EXCEPT ![m][a].pc = "invoked"]
    /\ UNCHANGED <<queue, body, received, answers, usage>>

(* An empty batchItemFailures makes the event source delete the message;   *)
(* the delete may be lost, and the message then reappears.                 *)
Ack(m, a) ==
    /\ inv[m][a].pc = "succeeded"
    /\ inv' = [inv EXCEPT ![m][a].pc = "acked"]
    /\ \/ /\ queue[m] \in {"visible", "hidden"}
          /\ queue' = [queue EXCEPT ![m] = "deleted"]
       \/ UNCHANGED queue
    /\ UNCHANGED <<body, received, answers, usage>>

(* The Lambda times out, runs out of memory or loses its host. *)
Die(m, a) ==
    /\ inv[m][a].pc \in Executing
    /\ inv' = [inv EXCEPT ![m][a].pc = "dead"]
    /\ UNCHANGED <<queue, body, received, answers, usage>>

-----------------------------------------------------------------------------
(* app/handler.py and process_payload. *)

Goto(m, a, point) == inv' = [inv EXCEPT ![m][a].pc = point]

(* Mutant: a body that is no list is skipped, not reported. *)
BeginSkipping(m, a) ==
    /\ inv[m][a].pc = "invoked"
    /\ Goto(m, a, IF body[m].parsed THEN "next" ELSE "succeeded")
    /\ UNCHANGED <<queue, body, received, answers, usage>>

(* _parse_body, then process_payload up to its loop. *)
Begin(m, a) ==
    /\ inv[m][a].pc = "invoked"
    /\ Goto(m, a, IF body[m].parsed THEN "next" ELSE "failed")
    /\ UNCHANGED <<queue, body, received, answers, usage>>

(* The function has returned, or raised: its result is known. *)
Conclude(m, a, result) ==
    inv' = [inv EXCEPT ![m][a] = [@ EXCEPT !.pc = "report", !.result = result]]

AtJob(m, a) == inv[m][a].pc = "next" /\ inv[m][a].job <= Len(Jobs(m))

(* Mutant: an unknown function abandons the rest of the bundle as well. *)
LeaveLoopOnUnknown(m, a) ==
    /\ AtJob(m, a)
    /\ JobIn(m, a).fn \in {"missing", "unknown"}
    /\ Goto(m, a, "failed")
    /\ UNCHANGED <<queue, body, received, answers, usage>>

(* job["metadata"]["function_name"] raises, and nothing in the loop        *)
(* catches it: process_payload is left on the spot.                        *)
LeaveLoop(m, a) ==
    /\ AtJob(m, a)
    /\ JobIn(m, a).fn = "missing"
    /\ Goto(m, a, "failed")
    /\ UNCHANGED <<queue, body, received, answers, usage>>

(* The name resolves to nothing callable, or the function raises before it *)
(* posts anything: fetching the DEM, GDAL, GRASS, a missing scalar_url.    *)
NoPostback(m, a) ==
    /\ AtJob(m, a)
    /\ JobIn(m, a).fn \in Posting \union {"helper", "unknown"}
    /\ Conclude(m, a, ErrorResult)
    /\ UNCHANGED <<queue, body, received, answers, usage>>

(* The function has nothing to post: it returns an empty list, a pair of   *)
(* paths, or, for a helper, None.                                          *)
NothingToPost(m, a) ==
    /\ AtJob(m, a)
    /\ \/ JobIn(m, a).fn = "helper"
       \/ JobIn(m, a).fn \in Posting /\ JobIn(m, a).outs = <<>> /\ ~ NoScalarUrl(JobIn(m, a))
    /\ Conclude(m, a, {})
    /\ UNCHANGED <<queue, body, received, answers, usage>>

(* The artifacts are computed: the posting loop begins. *)
Compute(m, a) ==
    /\ AtJob(m, a)
    /\ JobIn(m, a).fn \in Posting
    /\ JobIn(m, a).outs # <<>>
    /\ inv' = [inv EXCEPT ![m][a] = [@ EXCEPT !.pc = "posting", !.out = 1, !.result = {}]]
    /\ UNCHANGED <<queue, body, received, answers, usage>>

(* The next slot's extension is not one the function can post. *)
RefuseSlot(m, a) ==
    /\ inv[m][a].pc = "posting"
    /\ SlotRefused(JobIn(m, a).fn, JobIn(m, a).outs[inv[m][a].out])
    /\ Conclude(m, a, ErrorResult)
    /\ UNCHANGED <<queue, body, received, answers, usage>>

(* What becomes of the invocation when its postback ends with `answer`. *)
AfterPost(i, job, answer) ==
    LET items == i.result \union {PostItem(job.fn, answer)}
    IN  IF Raises(answer)
        THEN [i EXCEPT !.pc = "report", !.result = ErrorResult]
        ELSE IF i.out = Len(job.outs)
             THEN [i EXCEPT !.pc = "report", !.result = items]
             ELSE [i EXCEPT !.out = i.out + 1, !.result = items]

(* post_raster or post_scalar for the next output slot. *)
PostOutput(m, a, answer) ==
    /\ inv[m][a].pc = "posting"
    /\ ~ SlotRefused(JobIn(m, a).fn, JobIn(m, a).outs[inv[m][a].out])
    /\ answers' = [answers EXCEPT ![m][a] =
                     @ \union {<<inv[m][a].job, inv[m][a].out, answer>>}]
    /\ inv' = [inv EXCEPT ![m][a] = AfterPost(@, JobIn(m, a), answer)]
    /\ UNCHANGED <<queue, body, received, usage>>

(* Mutant: the report is wired ahead of the success test. *)
BillableUnjudged(m, a) == JobIn(m, a).metered

Billable(m, a) == JobIn(m, a).metered /\ JobSucceeded(inv[m][a].result)

(* Mutant: one event for each artifact. *)
UsageCountPerOutput(job) == Len(job.outs)

(* report_usage sends one event with count = 1. *)
UsageCount(job) == 1

(* What becomes of it when the job's entry in `failures` is made. *)
AfterReport(i) ==
    LET judged == IF JobSucceeded(i.result) THEN {} ELSE {i.job}
    IN  [i EXCEPT !.pc = "next", !.job = i.job + 1, !.result = {},
                  !.failures = i.failures \union judged]

(* The rest of the loop's body: _report_completion, whose event x402 may   *)
(* or may not record (report_usage swallows every failure), then the entry *)
(* in `failures`, then the next job.                                       *)
Report(m, a) ==
    /\ inv[m][a].pc = "report"
    /\ \/ /\ Billable(m, a)
          /\ usage' = [usage EXCEPT ![m][a][inv[m][a].job] = @ + UsageCount(JobIn(m, a))]
       \/ UNCHANGED usage
    /\ inv' = [inv EXCEPT ![m][a] = AfterReport(@)]
    /\ UNCHANGED <<queue, body, received, answers>>

(* Mutant: failures are logged but do not escalate. *)
ReturnQuietly(m, a) ==
    /\ inv[m][a].pc = "next"
    /\ inv[m][a].job > Len(Jobs(m))
    /\ Goto(m, a, "succeeded")
    /\ UNCHANGED <<queue, body, received, answers, usage>>

(* The loop is over: process_payload returns or raises JobFailed, which    *)
(* handler turns into a batch item failure.                                *)
Return(m, a) ==
    /\ inv[m][a].pc = "next"
    /\ inv[m][a].job > Len(Jobs(m))
    /\ Goto(m, a, IF inv[m][a].failures = {} THEN "succeeded" ELSE "failed")
    /\ UNCHANGED <<queue, body, received, answers, usage>>

-----------------------------------------------------------------------------
(* One step of the code of an invocation. *)
Execute(m, a) ==
    \/ Begin(m, a)
    \/ LeaveLoop(m, a)
    \/ NoPostback(m, a)
    \/ NothingToPost(m, a)
    \/ Compute(m, a)
    \/ RefuseSlot(m, a)
    \/ \E answer \in PostAnswers : PostOutput(m, a, answer)
    \/ Report(m, a)
    \/ Return(m, a)

(* One step of SQS that moves the message along. *)
Serve(m) == Deliver(m) \/ Throttle(m) \/ Reappear(m) \/ Park(m)

Next ==
    \/ \E m \in Messages, b \in Bodies : Publish(m, b)
    \/ \E m \in Messages : Serve(m) \/ DeliverCopy(m)
    \/ \E m \in Messages, a \in Deliveries :
          Retry(m, a) \/ Execute(m, a) \/ Ack(m, a) \/ Die(m, a)

Spec == Init /\ [][Next]_vars

(* The queue serves what it holds, an invocation runs until it ends (the   *)
(* Lambda timeout sees to it) and the event source acts on its return.     *)
(* Nothing makes it retry what was throttled.                              *)
Fairness ==
    /\ \A m \in Messages : WF_vars(Serve(m))
    /\ \A m \in Messages, a \in Deliveries :
          WF_vars(Execute(m, a) \/ Ack(m, a) \/ Die(m, a))

FairSpec == Spec /\ Fairness

-----------------------------------------------------------------------------
(* Properties. *)

(* Every variable keeps to the values the code and SQS give it. *)
TypeOK ==
    /\ queue \in [Messages -> QueueStates]
    /\ body \in [Messages -> Bodies \union {NoBody}]
    /\ received \in [Messages -> 0 .. MaxReceive]
    /\ inv \in [Messages -> [Deliveries -> Invocation]]
    /\ answers \in [Messages -> [Deliveries -> SUBSET (Nat \X Nat \X Answers)]]
    /\ usage \in [Messages -> [Deliveries -> [1 .. MaxJobs -> Nat]]]

Positions(m) == 1 .. Len(Jobs(m))

(* Output o of job j got, in delivery a, an answer in S. *)
Answered(m, a, j, o, S) == \E answer \in S : <<j, o, answer>> \in answers[m][a]

Outputs(m, j) == 1 .. Len(Jobs(m)[j].outs)

(* The answers that do not fail a job of this family. *)
Accepted(fn) == {answer \in Answers : ~ Raises(answer) /\ (fn \in Inspecting => RespOk(answer))}

(* What the code can know of job j in delivery a: each of its outputs was  *)
(* posted, and answered in a way its family accepts.                       *)
AllAccepted(m, a, j) ==
    \A o \in Outputs(m, j) : Answered(m, a, j, o, Accepted(Jobs(m)[j].fn))

(* A helper's job is the exception: it has nothing to look at. *)
LooksLanded(m, a, j) ==
    \/ Jobs(m)[j].fn \in Posting /\ AllAccepted(m, a, j)
    \/ Jobs(m)[j].fn = "helper"

(* "Returning normally means every job in the message succeeded": a        *)
(* message leaves the queue as done only if, in one and the same delivery, *)
(* each of its jobs named a function and had all its outputs accepted.     *)
(* Neither a redelivery that starts over, a copy running beside it, a job  *)
(* that raises half way nor a sibling left out can make it look done.      *)
DeletedMeansAccepted ==
    \A m \in Messages : queue[m] = "deleted" =>
        /\ body[m].parsed
        /\ \E a \in Deliveries : \A j \in Positions(m) : LooksLanded(m, a, j)

(* Record on completion: usage is recorded in a delivery only for a        *)
(* metered job whose outputs were all accepted in that delivery and that   *)
(* is not among its failures, although the report comes before the bundle  *)
(* is known to succeed and the delivery may end in any way afterwards.     *)
BilledOnlyLanded ==
    \A m \in Messages, a \in Deliveries, j \in 1 .. MaxJobs : usage[m][a][j] > 0 =>
        /\ j \in Positions(m) /\ Jobs(m)[j].metered
        /\ j < inv[m][a].job /\ j \notin inv[m][a].failures
        /\ LooksLanded(m, a, j)

(* One delivery reports a job once, however many outputs the job posts:    *)
(* billing twice takes a second delivery.                                  *)
BilledOncePerDelivery ==
    \A m \in Messages, a \in Deliveries, j \in 1 .. MaxJobs : usage[m][a][j] <= 1

NamesAFunction(m) == \A j \in Positions(m) : Jobs(m)[j].fn # "missing"

(* "One bad job does not deny its siblings their run": unless a job has no *)
(* function_name at all, an invocation that reports on its message, either *)
(* way, has been through every job, and it fails exactly when one failed.  *)
SiblingsAttempted ==
    \A m \in Messages, a \in Deliveries :
        inv[m][a].pc \in {"succeeded", "failed", "acked"} /\ body[m].parsed /\ NamesAFunction(m) =>
            /\ inv[m][a].job = Len(Jobs(m)) + 1
            /\ (inv[m][a].pc = "failed") <=> (inv[m][a].failures # {})

(* Every published message is, in the end, deleted or parked. *)
Settles == \A m \in Messages : queue[m] = "visible" ~> queue[m] \in {"deleted", "parked"}

(* "Anything else is rejected so the message gets parked on the DLQ        *)
(* instead of looping forever"; so is a bundle naming an unknown function. *)
RejectedIsParked ==
    \A m \in Messages :
        (/\ queue[m] = "visible"
         /\ ~ body[m].parsed \/ \E j \in Positions(m) : Jobs(m)[j].fn \in {"unknown", "missing"})
            ~> queue[m] = "parked"

-----------------------------------------------------------------------------
(* The pipeline implements JobDelivery. *)

(* Job j landed, by the worker's own judgement, in delivery a. *)
Landed(m, a) == {j \in 1 .. MaxJobs : j < inv[m][a].job /\ j \notin inv[m][a].failures}

Phase(m) ==
    CASE queue[m] = "unsent" -> "absent"
      [] queue[m] \in {"visible", "hidden"} -> "pending"
      [] queue[m] = "deleted" -> "done"
      [] queue[m] = "parked" -> "parked"

Unreadable == {0}

Work(b) == IF b.parsed THEN 1 .. Len(b.jobs) ELSE Unreadable

Contract ==
    INSTANCE JobDelivery WITH
        Works <- {Work(b) : b \in Bodies},
        phase <- [m \in Messages |-> Phase(m)],
        work <- [m \in Messages |-> IF queue[m] = "unsent" THEN {} ELSE Work(body[m])],
        landed <- [m \in Messages |-> UNION {Landed(m, a) : a \in Deliveries}],
        tries <- received

(* Completed only when every job landed, parked only after MaxReceive      *)
(* deliveries, one of the two in the end.                                  *)
ImplementsContract == Contract!Spec
KeepsContract == Contract!FairSpec

-----------------------------------------------------------------------------
(* What the repository says and the code does not keep: see the README.    *)

Stored(m, a, j) ==
    \A o \in Outputs(m, j) : Answered(m, a, j, o, {x \in Answers : StoredBy(x)})

(* "A job whose postback fails leaves usage un-incremented".               *)
BilledMeansStored ==
    \A m \in Messages, a \in Deliveries :
        \A j \in Positions(m) : usage[m][a][j] > 0 => Stored(m, a, j)

(* "One usage event per job, on a successful postback".                    *)
BilledOnce ==
    \A m \in Messages, a, b \in Deliveries, j \in 1 .. MaxJobs :
        usage[m][a][j] > 0 /\ usage[m][b][j] > 0 => a = b

=============================================================================
