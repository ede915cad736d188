----------------------------- MODULE HttpFront -----------------------------
(***************************************************************************)
(* The HTTP front door (app/http_handler.py) on its warm Lambda instances, *)
(* behind API Gateway: the x402 gate, the enqueue of the async route       *)
(* (app/publisher.py), the render of the sync route over /vsimem           *)
(* (app/sync_elevation.py), the usage report and the answers. An instance  *)
(* handles one request at a time; instances share only x402's catalog.     *)
(***************************************************************************)
EXTENDS Metering

CONSTANTS
    Requests,   \* the HTTP requests callers may send
    NoRequest,  \* an instance that has none; a file that is not there
    Calls,      \* the calls a request may make
    Budget,     \* seconds a request has, at API Gateway and in the Lambda
    MaxCopies,  \* bound: messages one publish_jobs may leave on the queue
    MaxNow      \* bound on the time

(* "large": a boundary of too many tiles, or of no coordinates. *)
Bodies == {"good", "large", "bad"}

Call == [route : Gated \union {"options", "prime"},
         who : Consumers \union {NoConsumer},
         body : Bodies]

ASSUME CallsAssumption == Calls # {} /\ Calls \subseteq Call /\ NoRequest \notin Requests

ASSUME FrontAssumption ==
    /\ Budget \in Nat \ {0}
    /\ MaxCopies \in Nat \ {0}
    /\ MaxNow \in Nat

VARIABLES
    inst,      \* inst[i]: what instance i is doing, for which request
    files,     \* files[i][f]: the request that file f under /vsimem is made from
    call,      \* call[r]: the call of request r
    answer,    \* answer[r]: what the caller has seen so far
    decision,  \* decision[r]: what the gate decided, and from which version
    queued,    \* queued[r]: messages it left on the jobs queue
    stamp,     \* stamp[r]: the consumer those messages are to be billed to
    billed,    \* billed[r]: usage events x402 recorded for a sync call
    shown      \* shown[r]: the requests its png and tif are made from

vars == <<now, history, cache, inst, files, call, answer, decision,
          queued, stamp, billed, shown>>

effectVars == <<queued, stamp, billed, shown>>

Points == {"idle", "gate", "fetch", "decided", "published", "clip", "color", "slurp",
           "served", "reply"}
Files == {"vrt", "clip", "color"}
Codes == {"200", "202", "204", "400", "401", "403", "422", "502", "gateway"}
Open == {"waiting", "running"}

Doing == [pc : Points, req : Requests \union {NoRequest}, since : Nat, from : Nat]
Idle == [pc |-> "idle", req |-> NoRequest, since |-> 0, from |-> 0]

(* Version 0 is no catalog. *)
Decision == [action : {"none", "serve", "reject"}, record : Consumers \union {NoConsumer},
             version : Nat]
Undecided == [action |-> "none", record |-> NoConsumer, version |-> 0]

AnyCall == CHOOSE c \in Calls : TRUE
NoFiles == [f \in Files |-> NoRequest]

Req(i) == inst[i].req
CallOf(i) == call[Req(i)]
DecisionOf(i) == decision[Req(i)]

At(i, p) == inst[i].pc = p
Goto(i, p) == inst' = [inst EXCEPT ![i].pc = p]

(* The handler returns; API Gateway may have given the request up by then. *)
Reply(i, code) ==
    /\ inst' = [inst EXCEPT ![i] = Idle]
    /\ answer' = IF answer[Req(i)] = "running"
                 THEN [answer EXCEPT ![Req(i)] = code]
                 ELSE answer

Init ==
    /\ MeterInit
    /\ inst = [i \in Instances |-> Idle]
    /\ files = [i \in Instances |-> NoFiles]
    /\ call = [r \in Requests |-> AnyCall]
    /\ answer = [r \in Requests |-> "unsent"]
    /\ decision = [r \in Requests |-> Undecided]
    /\ queued = [r \in Requests |-> 0]
    /\ stamp = [r \in Requests |-> NoConsumer]
    /\ billed = [r \in Requests |-> 0]
    /\ shown = [r \in Requests |-> <<NoRequest, NoRequest>>]

-----------------------------------------------------------------------------
(* Callers, API Gateway, the Lambda service, the clock. *)

Send(r) ==
    /\ answer[r] = "unsent"
    /\ answer' = [answer EXCEPT ![r] = "waiting"]
    /\ \E c \in Calls : call' = [call EXCEPT ![r] = c]
    /\ UNCHANGED <<meterVars, inst, files, decision, effectVars>>

Start(i, r) ==
    /\ At(i, "idle")
    /\ answer[r] = "waiting"
    /\ answer' = [answer EXCEPT ![r] = "running"]
    /\ inst' = [inst EXCEPT ![i] = [pc |-> "gate", req |-> r, since |-> now, from |-> 0]]
    /\ UNCHANGED <<meterVars, files, call, decision, effectVars>>

(* Nothing is free to run the request on. *)
TurnAway(r) ==
    /\ answer[r] = "waiting"
    /\ \A i \in Instances : ~ At(i, "idle")
    /\ answer' = [answer EXCEPT ![r] = "gateway"]
    /\ UNCHANGED <<meterVars, inst, files, call, decision, effectVars>>

(* API Gateway's own timeout: its clock started before the instance's.     *)
GiveUp(r) ==
    /\ answer[r] \in Open
    /\ answer' = [answer EXCEPT ![r] = "gateway"]
    /\ UNCHANGED <<meterVars, inst, files, call, decision, effectVars>>

(* An instance dies with its request, or is reclaimed: its memory goes.    *)
Die(i) ==
    /\ Forget(i)
    /\ files' = [files EXCEPT ![i] = NoFiles]
    /\ IF At(i, "idle") THEN UNCHANGED <<inst, answer>> ELSE Reply(i, "gateway")
    /\ UNCHANGED <<now, history, call, decision, effectVars>>

(* Time passes, but for no instance beyond the budget. *)
Tick ==
    /\ now < MaxNow
    /\ \A i \in Instances : ~ At(i, "idle") => now - inst[i].since < Budget
    /\ now' = now + 1
    /\ UNCHANGED <<history, cache, inst, files, call, answer, decision, effectVars>>

X402 ==
    /\ EditCatalog
    /\ UNCHANGED <<inst, files, call, answer, decision, effectVars>>

-----------------------------------------------------------------------------
(* handler, up to the decision of the gate. *)

(* OPTIONS, and GET /prime: no gate. *)
Aside(i) ==
    /\ At(i, "gate")
    /\ \/ CallOf(i).route = "options" /\ Reply(i, "204")
       \/ CallOf(i).route = "prime" /\ \E code \in {"200", "502"} : Reply(i, code)
    /\ UNCHANGED <<meterVars, files, call, decision, effectVars>>

(* gate, from the version in hand. *)
Decide(i, v) ==
    LET cat == CatalogOf(v)
        c == CallOf(i)
    IN  /\ decision' = [decision EXCEPT ![Req(i)] =
              [action |-> IF Rejects(cat, c.route, c.who) THEN "reject" ELSE "serve",
               record |-> RecordedConsumer(cat, c.route, c.who),
               version |-> v]]
        /\ Goto(i, "decided")

GateAtOnce(i) ==
    /\ At(i, "gate")
    /\ CallOf(i).route \in Gated
    /\ \/ ~ Enabled /\ Decide(i, 0)
       \/ Enabled /\ Fresh(i) /\ Decide(i, cache[i].version)
    /\ UNCHANGED <<meterVars, files, call, answer, effectVars>>

(* The catalog is asked for; whatever is published from here on may be in  *)
(* the answer.                                                             *)
Fetch(i) ==
    /\ At(i, "gate")
    /\ CallOf(i).route \in Gated
    /\ Enabled /\ ~ Fresh(i)
    /\ inst' = [inst EXCEPT ![i].pc = "fetch", ![i].from = Len(history)]
    /\ UNCHANGED <<meterVars, files, call, answer, decision, effectVars>>

Fetched(i) ==
    /\ At(i, "fetch")
    /\ \E v \in inst[i].from .. Len(history) : Install(i, v) /\ Decide(i, v)
    /\ UNCHANGED <<now, history, files, call, answer, effectVars>>

(* Mutant: the fetch is tried until it succeeds. *)
FetchFailsRetry(i) ==
    /\ At(i, "fetch")
    /\ Goto(i, "gate")
    /\ UNCHANGED <<meterVars, files, call, answer, decision, effectVars>>

(* No 200, or no answer: the last good copy is kept, however old. *)
FetchFails(i) ==
    /\ At(i, "fetch")
    /\ Decide(i, cache[i].version)
    /\ UNCHANGED <<meterVars, files, call, answer, effectVars>>

(* The early returns: rejected, no job list or no boundary, too many tiles *)
(* (the tiles are counted by render_elevation, for the sync route only).   *)
Refuse(i) ==
    /\ At(i, "decided")
    /\ \/ DecisionOf(i).action = "reject"
          /\ Reply(i, RejectCode(CatalogOf(DecisionOf(i).version), CallOf(i).who))
       \/ DecisionOf(i).action = "serve" /\ CallOf(i).body = "bad" /\ Reply(i, "400")
       \/ /\ DecisionOf(i).action = "serve"
          /\ CallOf(i).route = "elevation" /\ CallOf(i).body = "large"
          /\ Reply(i, "422")
    /\ UNCHANGED <<meterVars, files, call, decision, effectVars>>

-----------------------------------------------------------------------------
(* _handle_async and publish_jobs. *)

(* Mutant: the jobs are stamped with whoever called. *)
PublishAsCaller(i) ==
    /\ At(i, "decided")
    /\ DecisionOf(i).action = "serve"
    /\ CallOf(i).route = "async" /\ CallOf(i).body # "bad"
    /\ stamp' = [stamp EXCEPT ![Req(i)] = CallOf(i).who]
    /\ \E n \in 0 .. MaxCopies : queued' = [queued EXCEPT ![Req(i)] = n]
    /\ Goto(i, "published")
    /\ UNCHANGED <<meterVars, files, call, answer, decision, billed, shown>>

(* The jobs are stamped and sent as one message, which boto3 sends again   *)
(* when an attempt is not answered: any number of copies may arrive.       *)
Publish(i) ==
    /\ At(i, "decided")
    /\ DecisionOf(i).action = "serve"
    /\ CallOf(i).route = "async" /\ CallOf(i).body # "bad"
    /\ stamp' = [stamp EXCEPT ![Req(i)] = DecisionOf(i).record]
    /\ \E n \in 0 .. MaxCopies : queued' = [queued EXCEPT ![Req(i)] = n]
    /\ Goto(i, "published")
    /\ UNCHANGED <<meterVars, files, call, answer, decision, billed, shown>>

(* Mutant: a failed send is logged and forgotten, like a usage report. *)
AcceptAnyway(i) ==
    /\ At(i, "published")
    /\ Reply(i, "202")
    /\ UNCHANGED <<meterVars, files, call, decision, effectVars>>

(* send_message returned, or it raised: then the message may still be      *)
(* there, with only its answer lost.                                       *)
Accept(i) ==
    /\ At(i, "published")
    /\ \/ queued[Req(i)] > 0 /\ Reply(i, "202")
       \/ Reply(i, "502")
    /\ UNCHANGED <<meterVars, files, call, decision, effectVars>>

-----------------------------------------------------------------------------
(* render_elevation: each step may raise, and leaves what it has written.  *)

Raise(i) == Reply(i, "502") /\ UNCHANGED files

(* File f is made from what file "of" was made from, and the render goes on. *)
Make(i, f, from, next) ==
    /\ files' = [files EXCEPT ![i][f] = from]
    /\ Goto(i, next)
    /\ UNCHANGED answer

BuildVRT(i) ==
    /\ At(i, "decided")
    /\ DecisionOf(i).action = "serve"
    /\ CallOf(i).route = "elevation" /\ CallOf(i).body = "good"
    /\ Make(i, "vrt", Req(i), "clip") \/ Raise(i)
    /\ UNCHANGED <<meterVars, call, decision, effectVars>>

Translate(i) ==
    /\ At(i, "clip")
    /\ Make(i, "clip", files[i]["vrt"], "color") \/ Raise(i)
    /\ UNCHANGED <<meterVars, call, decision, effectVars>>

(* Mutant: a png that is already there is taken. *)
ColorizeOnce(i) ==
    /\ At(i, "color")
    /\ \/ /\ files[i]["color"] = NoRequest
          /\ Make(i, "color", files[i]["clip"], "slurp") \/ Raise(i)
       \/ files[i]["color"] # NoRequest /\ Goto(i, "slurp") /\ UNCHANGED <<files, answer>>
    /\ UNCHANGED <<meterVars, call, decision, effectVars>>

DEMProcessing(i) ==
    /\ At(i, "color")
    /\ Make(i, "color", files[i]["clip"], "slurp") \/ Raise(i)
    /\ UNCHANGED <<meterVars, call, decision, effectVars>>

(* Both files are read, then all of them are unlinked. *)
Slurp(i) ==
    /\ At(i, "slurp")
    /\ \/ /\ shown' = [shown EXCEPT ![Req(i)] = <<files[i]["color"], files[i]["clip"]>>]
          /\ files' = [files EXCEPT ![i] = NoFiles]
          /\ Goto(i, "served")
          /\ UNCHANGED answer
       \/ Raise(i) /\ UNCHANGED shown
    /\ UNCHANGED <<meterVars, call, decision, queued, stamp, billed>>

(* Mutant: a report whose answer is lost is sent again. *)
ReportUntilHeard(i) ==
    /\ At(i, "served")
    /\ \/ Goto(i, "reply") /\ UNCHANGED billed
       \/ /\ DecisionOf(i).record # NoConsumer
          /\ billed' = [billed EXCEPT ![Req(i)] = @ + 1]
          /\ Goto(i, "served") \/ Goto(i, "reply")
    /\ UNCHANGED <<meterVars, files, call, answer, decision, queued, stamp, shown>>

(* Usage is reported before the answer; x402 may miss it. *)
Report(i) ==
    /\ At(i, "served")
    /\ \/ UNCHANGED billed
       \/ DecisionOf(i).record # NoConsumer /\ billed' = [billed EXCEPT ![Req(i)] = @ + 1]
    /\ Goto(i, "reply")
    /\ UNCHANGED <<meterVars, files, call, answer, decision, queued, stamp, shown>>

ReplyRendered(i) ==
    /\ At(i, "reply")
    /\ Reply(i, "200")
    /\ UNCHANGED <<meterVars, files, call, decision, effectVars>>

-----------------------------------------------------------------------------
Handle(i) ==
    \/ Aside(i)
    \/ GateAtOnce(i)
    \/ Fetch(i)
    \/ Fetched(i)
    \/ FetchFails(i)
    \/ Refuse(i)
    \/ Publish(i)
    \/ Accept(i)
    \/ BuildVRT(i)
    \/ Translate(i)
    \/ DEMProcessing(i)
    \/ Slurp(i)
    \/ Report(i)
    \/ ReplyRendered(i)

Next ==
    \/ \E r \in Requests : Send(r) \/ TurnAway(r) \/ GiveUp(r)
    \/ \E i \in Instances, r \in Requests : Start(i, r)
    \/ \E i \in Instances : Handle(i) \/ Die(i)
    \/ Tick
    \/ X402

Spec == Init /\ [][Next]_vars

(* A handler runs on until it ends, one way or another; a request that was *)
(* sent is given an instance or turned away. Nothing is asked of the clock *)
(* or of API Gateway's timeout.                                            *)
Fairness ==
    /\ \A i \in Instances : WF_vars(Handle(i))
    /\ \A r \in Requests : WF_vars(TurnAway(r) \/ \E i \in Instances : Start(i, r))

FairSpec == Spec /\ Fairness

-----------------------------------------------------------------------------
(* Properties. *)

(* Every variable keeps to the values the code gives it. *)
TypeOK ==
    /\ now \in Nat
    /\ history \in Seq(Version) /\ Len(history) > 0
    /\ cache \in [Instances -> Cached]
    /\ \A i \in Instances : cache[i].version <= Len(history)
    /\ inst \in [Instances -> Doing]
    /\ \A i \in Instances : ~ At(i, "idle") => Req(i) \in Requests
    /\ files \in [Instances -> [Files -> Requests \union {NoRequest}]]
    /\ call \in [Requests -> Calls]
    /\ answer \in [Requests -> {"unsent"} \union Open \union Codes]
    /\ decision \in [Requests -> Decision]
    /\ queued \in [Requests -> 0 .. MaxCopies]
    /\ stamp \in [Requests -> Consumers \union {NoConsumer}]
    /\ billed \in [Requests -> 0 .. 1]
    /\ shown \in [Requests -> (Requests \union {NoRequest}) \X (Requests \union {NoRequest})]

(* A version is in force, or was within the TTL and one request's time.    *)
Recent(v) ==
    /\ v # 0
    /\ v < Len(history) => history[v + 1].since + Refresh + Budget > now

(* "Cached in a module global with a TTL": unless the fetch it waited for  *)
(* fails, the gate decides from a catalog that was x402's own less than    *)
(* the TTL and one request's time ago. Without a catalog, when it lets     *)
(* everybody pass, it decides only after a fetch that failed.              *)
RecentCatalog ==
    [][ \A r \in Requests :
          Enabled /\ HasToken /\ decision'[r] # decision[r] =>
              \/ Recent(decision'[r].version)
              \/ \E i \in Instances : Req(i) = r /\ FetchFails(i) ]_vars

(* Whoever is billed, here or by the worker for the stamp on a message, is *)
(* the caller, active in the catalog of the decision, on a metered route;  *)
(* and on an enforced route nothing is rendered or enqueued for a caller   *)
(* who is not permitted it.                                                *)
EffectsAreDue ==
    \A r \in Requests :
        LET cat == CatalogOf(decision[r].version)
            c == call[r]
        IN  /\ billed[r] > 0 \/ stamp[r] # NoConsumer =>
                 /\ Metered(cat, c.route)
                 /\ Active(cat, c.who)
                 /\ stamp[r] \in {NoConsumer, c.who}
            /\ queued[r] > 0 \/ shown[r] # <<NoRequest, NoRequest>> =>
                 cat = NoCatalog \/ cat.mode[c.route] # "enforce" \/ Permitted(cat, c.route, c.who)

(* The answer tells what happened: 202 means the jobs are on the queue, a  *)
(* 4xx that nothing was rendered, enqueued or billed. Only a sync call     *)
(* that was rendered is billed here, and only an async call is enqueued.   *)
AnswerIsTrue ==
    \A r \in Requests :
        /\ answer[r] = "202" => queued[r] > 0
        /\ answer[r] \in {"400", "401", "403", "422"} =>
             queued[r] = 0 /\ billed[r] = 0 /\ shown[r] = <<NoRequest, NoRequest>>
        /\ billed[r] > 0 => call[r].route = "elevation" /\ shown[r] # <<NoRequest, NoRequest>>
        /\ queued[r] > 0 => call[r].route = "async"

(* Renders that raised leave files under fixed names in a warm instance;   *)
(* the png and the tif of a 200 are made from its own boundary all the     *)
(* same.                                                                   *)
OwnRender ==
    \A r \in Requests :
        /\ answer[r] = "200" /\ call[r].route = "elevation" => shown[r] = <<r, r>>
        /\ shown[r] \in {<<NoRequest, NoRequest>>, <<r, r>>}

(* Every request is answered, whatever the instance that runs it does.     *)
Answered == \A r \in Requests : answer[r] = "waiting" ~> answer[r] \in Codes

=============================================================================
