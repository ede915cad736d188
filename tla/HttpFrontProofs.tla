-------------------------- MODULE HttpFrontProofs --------------------------
(***************************************************************************)
(* Theorems of HttpFront, for any instances, consumers, catalogs, calls    *)
(* and limits.                                                             *)
(***************************************************************************)
EXTENDS HttpFront, SequenceTheorems, TLAPS

None == <<NoRequest, NoRequest>>

NoEffect(r) == queued[r] = 0 /\ stamp[r] = NoConsumer /\ billed[r] = 0 /\ shown[r] = None

(* A request is at most on one instance, which got it from API Gateway.    *)
Placed ==
    /\ \A i \in Instances : ~ At(i, "idle") => answer[Req(i)] \in {"running", "gateway"}
    /\ \A i, j \in Instances :
          ~ At(i, "idle") /\ ~ At(j, "idle") /\ Req(i) = Req(j) => i = j

(* What has been done for a request follows from what was decided, and its *)
(* answer tells it.                                                        *)
ReqSound(r) ==
    /\ decision[r].version <= Len(history)
    /\ decision[r].action = "serve" =>
          ~ Rejects(CatalogOf(decision[r].version), call[r].route, call[r].who)
    /\ decision[r].record # NoConsumer =>
          /\ decision[r].record = call[r].who
          /\ Metered(CatalogOf(decision[r].version), call[r].route)
          /\ Active(CatalogOf(decision[r].version), call[r].who)
    /\ decision[r].action # "serve" => NoEffect(r)
    /\ stamp[r] \in {NoConsumer, decision[r].record}
    /\ billed[r] > 0 =>
          decision[r].record # NoConsumer /\ call[r].route = "elevation" /\ shown[r] # None
    /\ queued[r] > 0 => call[r].route = "async"
    /\ shown[r] \in {None, <<r, r>>}
    /\ answer[r] = "202" => queued[r] > 0
    /\ answer[r] \in {"400", "401", "403", "422"} => NoEffect(r)
    /\ answer[r] = "200" /\ call[r].route = "elevation" => shown[r] = <<r, r>>
    /\ answer[r] \in {"unsent", "waiting"} => decision[r] = Undecided

(* How far an instance has come with its request is how far its effects,   *)
(* and the files it makes, have.                                           *)
InstSound(i) ==
    /\ inst[i].pc \in {"gate", "fetch"} => decision[Req(i)] = Undecided
    /\ inst[i].pc \in {"gate", "fetch", "decided", "clip", "color", "slurp"} => NoEffect(Req(i))
    /\ inst[i].pc \in {"published", "clip", "color", "slurp", "served", "reply"} =>
          decision[Req(i)].action = "serve"
    /\ inst[i].pc \in {"clip", "color", "slurp", "served", "reply"} =>
          call[Req(i)].route = "elevation"
    /\ inst[i].pc = "clip" => files[i]["vrt"] = Req(i)
    /\ inst[i].pc \in {"color", "slurp"} => files[i]["clip"] = Req(i)
    /\ inst[i].pc = "slurp" => files[i]["color"] = Req(i)
    /\ inst[i].pc \in {"served", "reply"} => shown[Req(i)] = <<Req(i), Req(i)>>
    /\ inst[i].pc = "served" => billed[Req(i)] = 0

(* The versions an instance may get, and the one it has, were in force not *)
(* long ago.                                                               *)
Timed ==
    /\ \A u \in 1 .. Len(history) : history[u].since <= now
    /\ \A i \in Instances :
          /\ cache[i].at <= now
          /\ cache[i].version # 0 /\ cache[i].version < Len(history) =>
                history[cache[i].version + 1].since + Budget >= cache[i].at
          /\ ~ At(i, "idle") => inst[i].since <= now /\ now <= inst[i].since + Budget
          /\ At(i, "fetch") =>
                /\ inst[i].from \in 1 .. Len(history)
                /\ \A u \in 1 .. Len(history) :
                      u > inst[i].from => history[u].since >= inst[i].since

Sound == (\A r \in Requests : ReqSound(r)) /\ (\A i \in Instances : InstSound(i))

IInv == TypeOK /\ Placed /\ Sound /\ Timed

-----------------------------------------------------------------------------
(* Going on to the next point. *)
LEMMA GotoFacts ==
    ASSUME TypeOK, NEW i \in Instances, NEW p \in Points, Goto(i, p)
    PROVE  /\ inst' \in [Instances -> Doing]
           /\ inst'[i].pc = p /\ inst'[i].req = inst[i].req
           /\ inst'[i].since = inst[i].since /\ inst'[i].from = inst[i].from
           /\ \A j \in Instances : j # i => inst'[j] = inst[j]
  BY DEF TypeOK, Goto, Doing

(* Handing an answer to API Gateway. *)
LEMMA ReplyFacts ==
    ASSUME TypeOK, Placed, NEW i \in Instances, ~ At(i, "idle"), NEW code \in Codes,
           Reply(i, code)
    PROVE  /\ inst' \in [Instances -> Doing]
           /\ inst'[i] = Idle
           /\ \A j \in Instances : j # i => inst'[j] = inst[j]
           /\ answer' \in [Requests -> {"unsent"} \union Open \union Codes]
           /\ answer'[Req(i)] \in {"gateway", code}
           /\ \A q \in Requests : q # Req(i) => answer'[q] = answer[q]
  <1>1. Req(i) \in Requests /\ answer[Req(i)] \in {"running", "gateway"}
    BY DEF TypeOK, Placed
  <1>2. Idle \in Doing
    BY DEF Idle, Doing, Points
  <1> QED
    BY <1>1, <1>2 DEF Reply, TypeOK

(* Nothing about this request changes, but for what x402 publishes.        *)
LEMMA ReqFrame ==
    ASSUME TypeOK, NEW r \in Requests, ReqSound(r),
           UNCHANGED history \/ \E e \in Version : history' = Append(history, e),
           UNCHANGED <<decision[r], call[r], answer[r], queued[r], stamp[r], billed[r], shown[r]>>
    PROVE  ReqSound(r)'
  <1>1. history \in Seq(Version) /\ Len(history) \in Nat /\ decision[r].version \in Nat
    BY LenProperties DEF TypeOK, Decision
  <1>2. Len(history) <= Len(history')
    BY <1>1, AppendProperties
  <1>3. CatalogOf(decision[r].version)' = CatalogOf(decision[r].version)
    <2>1. CASE UNCHANGED history
      BY <2>1 DEF CatalogOf
    <2>2. CASE \E e \in Version : history' = Append(history, e)
      <3>1. PICK e \in Version : history' = Append(history, e)
        BY <2>2
      <3>2. decision[r].version # 0 =>
               history'[decision[r].version] = history[decision[r].version]
        BY <1>1, <3>1, AppendProperties DEF ReqSound
      <3> QED
        BY <3>2 DEF CatalogOf
    <2> QED
      BY <2>1, <2>2
  <1>4. decision'[r].version <= Len(history')
    <2>1. Len(history') \in Nat
      BY <1>1, AppendProperties
    <2> QED
      BY <1>1, <1>2, <2>1 DEF ReqSound
  <1> QED
    BY <1>3, <1>4 DEF ReqSound, NoEffect

(* A step of one instance on its request leaves the others alone.          *)
LEMMA LocalStep ==
    ASSUME IInv, NEW i \in Instances, NEW r \in Requests, r = Req(i), ~ At(i, "idle"),
           UNCHANGED history,
           \A j \in Instances : j # i => inst'[j] = inst[j] /\ files'[j] = files[j],
           \A q \in Requests : q # r =>
              UNCHANGED <<decision[q], call[q], answer[q], queued[q], stamp[q], billed[q], shown[q]>>,
           ReqSound(r)', InstSound(i)'
    PROVE  Sound'
  <1>1. ASSUME NEW q \in Requests PROVE ReqSound(q)'
    <2>1. CASE q = r
      BY <2>1
    <2>2. CASE q # r
      BY <2>2, ReqFrame DEF IInv, Sound
    <2> QED
      BY <2>1, <2>2
  <1>2. ASSUME NEW j \in Instances PROVE InstSound(j)'
    <2>1. CASE j = i
      BY <2>1
    <2>2. CASE j # i /\ At(j, "idle")
      BY <2>2 DEF InstSound, At
    <2>3. CASE j # i /\ ~ At(j, "idle")
      <3>1. Req(j) \in Requests /\ Req(j) # r
        BY <2>3 DEF IInv, TypeOK, Placed
      <3>2. UNCHANGED <<inst[j], files[j], Req(j)>>
        BY <2>3 DEF Req
      <3>3. UNCHANGED <<decision[Req(j)], call[Req(j)], queued[Req(j)], stamp[Req(j)],
                        billed[Req(j)], shown[Req(j)]>>
        BY <3>1, <3>2
      <3> QED
        BY <3>2, <3>3 DEF IInv, Sound, InstSound, NoEffect
    <2> QED
      BY <2>1, <2>2, <2>3
  <1> QED
    BY <1>1, <1>2 DEF Sound

(* The clock's invariant when an instance moves on within its request.     *)
LEMMA LocalTimed ==
    ASSUME IInv, NEW i \in Instances, ~ At(i, "idle"), UNCHANGED <<now, history, cache>>,
           \A j \in Instances : j # i => inst'[j] = inst[j],
           inst'[i] = Idle \/ (inst'[i].since = inst[i].since /\ inst'[i].pc # "fetch")
    PROVE  Timed'
  <1>1. inst'[i] = Idle => inst'[i].pc = "idle"
    BY DEF Idle
  <1> QED
    BY <1>1 DEF IInv, Timed, At

(* A step to another point of the same request keeps the invariant, if the *)
(* request and the instance are sound after it.                            *)
LEMMA GotoStep ==
    ASSUME IInv, NEW i \in Instances, NEW r \in Requests, r = Req(i), ~ At(i, "idle"),
           NEW p \in Points \ {"idle", "fetch"}, Goto(i, p),
           UNCHANGED <<now, history, call, answer>>,
           \A j \in Instances : j # i => files'[j] = files[j],
           \A q \in Requests : q # r =>
              UNCHANGED <<decision[q], queued[q], stamp[q], billed[q], shown[q]>>,
           ReqSound(r)', InstSound(i)'
    PROVE  Placed' /\ Sound' /\ (UNCHANGED cache => Timed')
  <1>0. TypeOK /\ Placed
    BY DEF IInv
  <1>1. /\ inst'[i].pc = p /\ inst'[i].req = inst[i].req /\ inst'[i].since = inst[i].since
        /\ \A j \in Instances : j # i => inst'[j] = inst[j]
    BY <1>0, GotoFacts
  <1>2. Placed'
    BY <1>0, <1>1 DEF Placed, At, Req
  <1>3. Sound'
    BY <1>1, LocalStep
  <1>4. UNCHANGED cache => Timed'
    BY <1>1, LocalTimed
  <1> QED
    BY <1>2, <1>3, <1>4

(* An answer keeps the invariant if it is true.                            *)
LEMMA ReplyStep ==
    ASSUME IInv, NEW i \in Instances, NEW r \in Requests, r = Req(i), ~ At(i, "idle"),
           NEW code \in Codes, Reply(i, code),
           UNCHANGED <<now, history, cache, files, call, decision, queued, stamp, billed, shown>>,
           code = "202" => queued[r] > 0,
           code \in {"400", "401", "403", "422"} => NoEffect(r),
           code = "200" /\ call[r].route = "elevation" => shown[r] = <<r, r>>
    PROVE  IInv'
  <1>0. TypeOK /\ Placed
    BY DEF IInv
  <1>1. /\ inst' \in [Instances -> Doing]
        /\ inst'[i] = Idle
        /\ \A j \in Instances : j # i => inst'[j] = inst[j]
        /\ answer' \in [Requests -> {"unsent"} \union Open \union Codes]
        /\ answer'[r] \in {"gateway", code}
        /\ \A q \in Requests : q # r => answer'[q] = answer[q]
    BY <1>0, ReplyFacts
  <1>2. inst'[i].pc = "idle"
    BY <1>1 DEF Idle
  <1>3. TypeOK'
    BY <1>0, <1>1, <1>2 DEF TypeOK, At, Req
  <1>4. Placed'
    <2>1. ASSUME NEW j \in Instances, ~ At(j, "idle")'
          PROVE  j # i /\ ~ At(j, "idle") /\ Req(j)' = Req(j) /\ Req(j) \in Requests /\ Req(j) # r
      BY <1>0, <1>1, <1>2, <2>1 DEF At, Req, Placed, TypeOK
    <2> QED
      BY <1>0, <1>1, <2>1 DEF Placed
  <1>5. ReqSound(r)'
    <2>1. ReqSound(r)
      BY DEF IInv, Sound
    <2>2. CatalogOf(decision[r].version)' = CatalogOf(decision[r].version)
      BY DEF CatalogOf
    <2>3. answer'[r] \notin {"unsent", "waiting"}
      BY <1>1 DEF Codes
    <2> QED
      BY <1>1, <2>1, <2>2, <2>3 DEF ReqSound, NoEffect
  <1>6. InstSound(i)'
    BY <1>2 DEF InstSound
  <1>7. Sound'
    BY <1>1, <1>5, <1>6, LocalStep
  <1>8. Timed'
    BY <1>1, LocalTimed
  <1> QED
    BY <1>3, <1>4, <1>7, <1>8 DEF IInv

(* What the gate decides is sound, whatever version it decides from.       *)
LEMMA DecideSound ==
    ASSUME IInv, NEW i \in Instances, NEW r \in Requests, r = Req(i),
           inst[i].pc \in {"gate", "fetch"}, NEW v \in 0 .. Len(history), Decide(i, v),
           UNCHANGED <<history, files, call, answer, queued, stamp, billed, shown>>
    PROVE  /\ decision' \in [Requests -> Decision]
           /\ \A q \in Requests : q # r => decision'[q] = decision[q]
           /\ Goto(i, "decided")
           /\ ReqSound(r)' /\ InstSound(i)'
  <1>0. TypeOK /\ Placed /\ ReqSound(r) /\ InstSound(i)
    BY DEF IInv, Sound
  <1> DEFINE cat == CatalogOf(v)
             rec == [action |-> IF Rejects(cat, call[r].route, call[r].who)
                                THEN "reject" ELSE "serve",
                     record |-> RecordedConsumer(cat, call[r].route, call[r].who),
                     version |-> v]
  <1>1. decision' = [decision EXCEPT ![r] = rec] /\ Goto(i, "decided")
    BY DEF Decide, CallOf
  <1>2. rec.record \in Consumers \union {NoConsumer} /\ v \in Nat
    <2>1. call[r] \in Call
      BY <1>0, CallsAssumption DEF TypeOK
    <2> QED
      BY <1>0, <2>1, LenProperties DEF RecordedConsumer, Call, TypeOK
  <1>3. rec \in Decision
    BY <1>2 DEF Decision
  <1>4. decision'[r] = rec /\ decision' \in [Requests -> Decision]
    BY <1>0, <1>1, <1>3 DEF TypeOK
  <1>5. CatalogOf(decision[r].version)' = cat
    BY <1>4 DEF CatalogOf
  <1>6. NoEffect(r)'
    BY <1>0 DEF InstSound, NoEffect
  <1>7. answer'[r] \in {"running", "gateway"}
    BY <1>0 DEF Placed, At
  <1>8. rec.record # NoConsumer =>
           /\ rec.record = call[r].who
           /\ Metered(cat, call[r].route) /\ Active(cat, call[r].who)
    BY DEF RecordedConsumer
  <1>9. ReqSound(r)'
    <2> HIDE DEF cat
    <2>1. /\ decision'[r].version = v
          /\ decision'[r].record = rec.record
          /\ decision'[r].action = "serve" => ~ Rejects(cat, call[r].route, call[r].who)
      BY <1>4
    <2>2. v <= Len(history)
      BY <1>0, LenProperties DEF TypeOK
    <2> QED
      BY <1>5, <1>6, <1>7, <1>8, <2>1, <2>2 DEF ReqSound, NoEffect
  <1>10. InstSound(i)'
    <2>1. inst'[i].pc = "decided" /\ Req(i)' = r
      BY <1>0, <1>1, GotoFacts DEF Points, Req
    <2> QED
      BY <1>6, <2>1 DEF InstSound, NoEffect
  <1> QED
    BY <1>1, <1>4, <1>9, <1>10

LEMMA GateSteps ==
    ASSUME IInv, NEW i \in Instances,
           Aside(i) \/ GateAtOnce(i) \/ Fetch(i) \/ Fetched(i) \/ FetchFails(i)
    PROVE  IInv'
  <1>0. TypeOK /\ Placed /\ Timed /\ InstSound(i) /\ ~ At(i, "idle") /\ Req(i) \in Requests
    BY DEF IInv, Sound, TypeOK, At, Aside, GateAtOnce, Fetch, Fetched, FetchFails
  <1> DEFINE r == Req(i)
  <1>1. CASE Aside(i)
    <2>1. UNCHANGED <<now, history, cache, files, call, decision, queued, stamp, billed, shown>>
      BY <1>1 DEF Aside, meterVars, effectVars
    <2>2. CASE Reply(i, "204")
      BY <1>0, <2>1, <2>2, ReplyStep DEF Codes
    <2>3. ASSUME NEW code \in {"200", "502"}, CallOf(i).route = "prime", Reply(i, code)
          PROVE  IInv'
      BY <1>0, <2>1, <2>3, ReplyStep DEF Codes, CallOf
    <2> QED
      BY <1>1, <2>2, <2>3 DEF Aside
  <1>2. ASSUME NEW v \in 0 .. Len(history), inst[i].pc \in {"gate", "fetch"}, Decide(i, v),
               UNCHANGED <<now, history, files, call, answer, queued, stamp, billed, shown>>,
               cache' \in [Instances -> Cached],
               \A j \in Instances : cache'[j].version <= Len(history),
               UNCHANGED cache \/ Timed'
        PROVE  IInv'
    <2>1. PICK s \in Requests : s = Req(i)
      BY <1>0
    <2>2. /\ decision' \in [Requests -> Decision]
          /\ \A q \in Requests : q # s => decision'[q] = decision[q]
          /\ Goto(i, "decided")
          /\ ReqSound(s)' /\ InstSound(i)'
      BY <1>2, <2>1, DecideSound
    <2>3. Placed' /\ Sound' /\ (UNCHANGED cache => Timed')
      BY <1>0, <1>2, <2>1, <2>2, GotoStep DEF Points
    <2>4. /\ inst' \in [Instances -> Doing]
          /\ inst'[i].req = inst[i].req
          /\ \A j \in Instances : j # i => inst'[j] = inst[j]
      BY <1>0, <2>2, GotoFacts DEF Points
    <2>5. TypeOK'
      BY <1>0, <1>2, <2>2, <2>4 DEF TypeOK, At, Req
    <2> QED
      BY <1>2, <2>3, <2>5 DEF IInv
  <1>3. CASE GateAtOnce(i)
    <2>1. /\ inst[i].pc \in {"gate", "fetch"}
          /\ UNCHANGED <<now, history, cache, files, call, answer, queued, stamp, billed, shown>>
      BY <1>3 DEF GateAtOnce, At, meterVars, effectVars
    <2>2. cache[i].version \in 0 .. Len(history) /\ 0 \in 0 .. Len(history)
      BY <1>0, LenProperties DEF TypeOK, Cached
    <2>3. cache' \in [Instances -> Cached] /\ \A j \in Instances : cache'[j].version <= Len(history)
      BY <1>0, <2>1 DEF TypeOK
    <2> QED
      BY <1>2, <1>3, <2>1, <2>2, <2>3 DEF GateAtOnce
  <1>4. CASE Fetch(i)
    <2>1. /\ inst' = [inst EXCEPT ![i].pc = "fetch", ![i].from = Len(history)]
          /\ inst[i].pc = "gate"
          /\ UNCHANGED <<now, history, cache, files, call, answer, decision, queued, stamp,
                         billed, shown>>
      BY <1>4 DEF Fetch, At, meterVars, effectVars
    <2>2. Len(history) \in Nat
      BY <1>0, LenProperties DEF TypeOK
    <2>3. /\ inst' \in [Instances -> Doing]
          /\ inst'[i].pc = "fetch" /\ inst'[i].req = inst[i].req
          /\ inst'[i].since = inst[i].since /\ inst'[i].from = Len(history)
          /\ \A j \in Instances : j # i => inst'[j] = inst[j]
      BY <1>0, <2>1, <2>2 DEF TypeOK, Doing, Points
    <2>4. TypeOK'
      BY <1>0, <2>1, <2>3 DEF TypeOK, At, Req
    <2>5. Placed'
      BY <1>0, <2>1, <2>3 DEF Placed, At, Req
    <2>6. Sound'
      <3>1. PICK s \in Requests : s = Req(i)
        BY <1>0
      <3>2. ReqSound(s)'
        BY <1>0, <2>1, ReqFrame DEF IInv, Sound
      <3>3. InstSound(i)'
        BY <1>0, <2>1, <2>3 DEF InstSound, NoEffect, Req
      <3> QED
        BY <1>0, <2>1, <2>3, <3>1, <3>2, <3>3, LocalStep
    <2>7. Timed'
      BY <1>0, <2>1, <2>2, <2>3 DEF Timed, At, TypeOK
    <2> QED
      BY <2>4, <2>5, <2>6, <2>7 DEF IInv
  <1>5. CASE Fetched(i)
    <2>1. PICK v \in inst[i].from .. Len(history) : Install(i, v) /\ Decide(i, v)
      BY <1>5 DEF Fetched
    <2>2. /\ inst[i].pc = "fetch"
          /\ UNCHANGED <<now, history, files, call, answer, queued, stamp, billed, shown>>
      BY <1>5 DEF Fetched, At, effectVars
    <2>3. inst[i].from \in 1 .. Len(history) /\ Len(history) \in Nat /\ now \in Nat
      BY <1>0, <2>2, LenProperties DEF Timed, At, TypeOK
    <2>4. v \in 0 .. Len(history) /\ v \in Nat
      BY <2>3
    <2>5. /\ cache' \in [Instances -> Cached]
          /\ cache'[i].version = v /\ cache'[i].at = now
          /\ \A j \in Instances : j # i => cache'[j] = cache[j]
      BY <1>0, <2>1, <2>3, <2>4 DEF Install, Cached, TypeOK
    <2>6. ASSUME NEW j \in Instances PROVE cache'[j].version <= Len(history)
      <3>1. CASE j = i
        BY <2>3, <2>4, <2>5, <3>1
      <3>2. CASE j # i
        BY <1>0, <2>5, <3>2 DEF TypeOK
      <3> QED
        BY <3>1, <3>2
    <2>7. Timed'
      <3>1. Goto(i, "decided")
        BY <2>1 DEF Decide
      <3>2. /\ inst'[i].pc = "decided" /\ inst'[i].since = inst[i].since
            /\ \A j \in Instances : j # i => inst'[j] = inst[j]
        BY <1>0, <3>1, GotoFacts DEF Points
      <3>3. v < Len(history) => history[v + 1].since + Budget >= now
        <4>1. ASSUME v < Len(history) PROVE history[v + 1].since >= inst[i].since
          <5>1. v + 1 \in 1 .. Len(history) /\ v + 1 > inst[i].from
            BY <2>3, <2>4, <4>1
          <5> QED
            BY <1>0, <2>2, <5>1 DEF Timed, At
        <4>2. now <= inst[i].since + Budget /\ inst[i].since \in Nat /\ Budget \in Nat
          BY <1>0, FrontAssumption DEF Timed, TypeOK, Doing
        <4>3. v < Len(history) => history[v + 1].since \in Nat
          <5>1. v < Len(history) => v + 1 \in 1 .. Len(history)
            BY <2>3, <2>4
          <5>2. v < Len(history) => history[v + 1] \in Version
            BY <1>0, <5>1, ElementOfSeq DEF TypeOK
          <5> QED
            BY <5>2 DEF Version
        <4> QED
          BY <2>3, <4>1, <4>2, <4>3
      <3> QED
        BY <1>0, <2>2, <2>3, <2>5, <3>2, <3>3 DEF Timed, At
    <2> QED
      BY <1>2, <2>1, <2>2, <2>4, <2>5, <2>6, <2>7
  <1>6. CASE FetchFails(i)
    <2>1. /\ inst[i].pc \in {"gate", "fetch"} /\ Decide(i, cache[i].version)
          /\ UNCHANGED <<now, history, cache, files, call, answer, queued, stamp, billed, shown>>
      BY <1>6 DEF FetchFails, At, meterVars, effectVars
    <2>2. cache[i].version \in 0 .. Len(history)
      BY <1>0, LenProperties DEF TypeOK, Cached
    <2>3. cache' \in [Instances -> Cached] /\ \A j \in Instances : cache'[j].version <= Len(history)
      BY <1>0, <2>1 DEF TypeOK
    <2> QED
      BY <1>2, <2>1, <2>2, <2>3
  <1> QED
    BY <1>1, <1>3, <1>4, <1>5, <1>6

LEMMA AsyncSteps ==
    ASSUME IInv, NEW i \in Instances, Refuse(i) \/ Publish(i) \/ Accept(i)
    PROVE  IInv'
  <1>0. TypeOK /\ Placed /\ InstSound(i) /\ ~ At(i, "idle")
    BY DEF IInv, Sound, At, Refuse, Publish, Accept
  <1>1. PICK r \in Requests : r = Req(i)
    BY <1>0 DEF TypeOK
  <1>2. ReqSound(r)
    BY DEF IInv, Sound
  <1>3. CASE Refuse(i)
    <2>1. UNCHANGED <<now, history, cache, files, call, decision, queued, stamp, billed, shown>>
      BY <1>3 DEF Refuse, meterVars, effectVars
    <2>2. NoEffect(r)
      BY <1>0, <1>1, <1>3 DEF Refuse, At, InstSound
    <2>3. PICK code \in {"400", "401", "403", "422"} : Reply(i, code)
      BY <1>3 DEF Refuse, RejectCode
    <2> QED
      BY <1>0, <1>1, <2>1, <2>2, <2>3, ReplyStep DEF Codes
  <1>4. CASE Publish(i)
    <2>1. PICK n \in 0 .. MaxCopies : queued' = [queued EXCEPT ![r] = n]
      BY <1>1, <1>4 DEF Publish
    <2>2. /\ stamp' = [stamp EXCEPT ![r] = decision[r].record]
          /\ UNCHANGED <<now, history, cache, files, call, answer, decision, billed, shown>>
          /\ Goto(i, "published")
          /\ decision[r].action = "serve" /\ call[r].route = "async" /\ inst[i].pc = "decided"
      BY <1>1, <1>4 DEF Publish, DecisionOf, CallOf, At, meterVars
    <2>3. /\ inst' \in [Instances -> Doing]
          /\ inst'[i].pc = "published" /\ inst'[i].req = inst[i].req
          /\ \A j \in Instances : j # i => inst'[j] = inst[j]
      BY <1>0, <2>2, GotoFacts DEF Points
    <2>4. decision[r].record \in Consumers \union {NoConsumer}
      BY <1>0 DEF TypeOK, Decision
    <2>5. TypeOK'
      BY <1>0, <2>1, <2>2, <2>3, <2>4 DEF TypeOK, At, Req
    <2>6. queued'[r] = n /\ stamp'[r] = decision[r].record
      BY <1>0, <2>1, <2>2 DEF TypeOK
    <2>7. NoEffect(r) /\ answer[r] \in {"running", "gateway"}
      BY <1>0, <1>1, <2>2 DEF InstSound, Placed
    <2>8. ReqSound(r)'
      <3>1. CatalogOf(decision[r].version)' = CatalogOf(decision[r].version)
        BY <2>2 DEF CatalogOf
      <3> QED
        BY <1>2, <2>2, <2>6, <2>7, <3>1 DEF ReqSound, NoEffect
    <2>9. InstSound(i)'
      BY <1>1, <2>2, <2>3 DEF InstSound, Req
    <2>10. \A q \in Requests : q # r =>
              UNCHANGED <<decision[q], queued[q], stamp[q], billed[q], shown[q]>>
      BY <1>0, <2>1, <2>2 DEF TypeOK
    <2>11. Placed' /\ Sound' /\ Timed'
      BY <1>0, <1>1, <2>2, <2>8, <2>9, <2>10, GotoStep DEF Points
    <2> QED
      BY <2>5, <2>11 DEF IInv
  <1>5. CASE Accept(i)
    <2>1. UNCHANGED <<now, history, cache, files, call, decision, queued, stamp, billed, shown>>
      BY <1>5 DEF Accept, meterVars, effectVars
    <2>2. CASE queued[r] > 0 /\ Reply(i, "202")
      BY <1>0, <1>1, <2>1, <2>2, ReplyStep DEF Codes
    <2>3. CASE Reply(i, "502")
      BY <1>0, <1>1, <2>1, <2>3, ReplyStep DEF Codes
    <2> QED
      BY <1>1, <1>5, <2>2, <2>3 DEF Accept
  <1> QED
    BY <1>3, <1>4, <1>5

(* A step of the render that makes a file, or raises.                      *)
LEMMA RenderStep ==
    ASSUME IInv, NEW i \in Instances, NEW f \in Files, NEW from \in Requests \union {NoRequest},
           NEW p \in Points \ {"idle", "fetch"}, ~ At(i, "idle"),
           Make(i, f, from, p) \/ Raise(i),
           UNCHANGED <<now, history, cache, call, decision, queued, stamp, billed, shown>>,
           Make(i, f, from, p) => InstSound(i)'
    PROVE  IInv'
  <1>0. TypeOK /\ Placed
    BY DEF IInv
  <1>1. PICK r \in Requests : r = Req(i)
    BY <1>0 DEF TypeOK
  <1>2. CASE Raise(i)
    BY <1>1, <1>2, ReplyStep DEF Raise, Codes
  <1>3. CASE Make(i, f, from, p)
    <2>1. files' = [files EXCEPT ![i][f] = from] /\ Goto(i, p) /\ UNCHANGED answer
      BY <1>3 DEF Make
    <2>2. /\ inst' \in [Instances -> Doing]
          /\ inst'[i].pc = p /\ inst'[i].req = inst[i].req
          /\ \A j \in Instances : j # i => inst'[j] = inst[j]
      BY <1>0, <2>1, GotoFacts
    <2>3. TypeOK'
      BY <1>0, <1>1, <2>1, <2>2 DEF TypeOK, At, Req
    <2>4. ReqSound(r)'
      BY <1>0, <2>1, ReqFrame DEF IInv, Sound
    <2>5. \A j \in Instances : j # i => files'[j] = files[j]
      BY <1>0, <2>1 DEF TypeOK
    <2>6. Placed' /\ Sound' /\ Timed'
      BY <1>1, <1>3, <2>1, <2>4, <2>5, GotoStep
    <2> QED
      BY <2>3, <2>6 DEF IInv
  <1> QED
    BY <1>2, <1>3

LEMMA RenderSteps ==
    ASSUME IInv, NEW i \in Instances,
           \/ BuildVRT(i) \/ Translate(i) \/ DEMProcessing(i)
           \/ Slurp(i) \/ Report(i) \/ ReplyRendered(i)
    PROVE  IInv'
  <1>0. TypeOK /\ Placed /\ InstSound(i) /\ ~ At(i, "idle")
    BY DEF IInv, Sound, At, BuildVRT, Translate, DEMProcessing, Slurp, Report, ReplyRendered
  <1>1. PICK r \in Requests : r = Req(i)
    BY <1>0 DEF TypeOK
  <1>2. ReqSound(r) /\ answer[r] \in {"running", "gateway"}
    BY <1>0, <1>1 DEF IInv, Sound, Placed
  <1>3. ASSUME NEW f \in Files, NEW from \in Requests \union {NoRequest}, NEW p \in Points,
               Make(i, f, from, p)
        PROVE  /\ inst'[i].pc = p /\ Req(i)' = r
               /\ files'[i] = [files[i] EXCEPT ![f] = from]
               /\ files[i] \in [Files -> Requests \union {NoRequest}]
    BY <1>0, <1>1, <1>3, GotoFacts DEF Make, Req, TypeOK
  <1>4. CASE BuildVRT(i)
    <2>1. /\ inst[i].pc = "decided" /\ decision[r].action = "serve" /\ call[r].route = "elevation"
          /\ UNCHANGED <<now, history, cache, call, decision, queued, stamp, billed, shown>>
          /\ Make(i, "vrt", r, "clip") \/ Raise(i)
      BY <1>1, <1>4 DEF BuildVRT, At, DecisionOf, CallOf, meterVars, effectVars
    <2>2. ASSUME Make(i, "vrt", r, "clip") PROVE InstSound(i)'
      <3>1. inst'[i].pc = "clip" /\ Req(i)' = r /\ files'[i]["vrt"] = r
        <4>1. "vrt" \in Files /\ "clip" \in Points
          BY DEF Files, Points
        <4>2. files'[i] = [files[i] EXCEPT !["vrt"] = r]
          BY <1>3, <2>2, <4>1
        <4> QED
          BY <1>3, <2>2, <4>1, <4>2
      <3>2. NoEffect(r)
        BY <1>0, <1>1, <2>1 DEF InstSound
      <3> QED
        BY <2>1, <3>1, <3>2 DEF InstSound, NoEffect
    <2> QED
      BY <1>0, <2>1, <2>2, RenderStep DEF Files, Points
  <1>5. CASE Translate(i)
    <2>1. /\ inst[i].pc = "clip"
          /\ UNCHANGED <<now, history, cache, call, decision, queued, stamp, billed, shown>>
          /\ Make(i, "clip", files[i]["vrt"], "color") \/ Raise(i)
      BY <1>5 DEF Translate, At, meterVars, effectVars
    <2>2. files[i]["vrt"] = r
      BY <1>0, <1>1, <2>1 DEF InstSound
    <2>3. ASSUME Make(i, "clip", r, "color") PROVE InstSound(i)'
      <3>1. inst'[i].pc = "color" /\ Req(i)' = r /\ files'[i]["clip"] = r
        <4>1. "clip" \in Files /\ "color" \in Points
          BY DEF Files, Points
        <4>2. files'[i] = [files[i] EXCEPT !["clip"] = r]
          BY <1>3, <2>3, <4>1
        <4> QED
          BY <1>3, <2>3, <4>1, <4>2
      <3>2. NoEffect(r) /\ decision[r].action = "serve" /\ call[r].route = "elevation"
        BY <1>0, <1>1, <2>1 DEF InstSound
      <3> QED
        BY <2>1, <3>1, <3>2 DEF InstSound, NoEffect
    <2> QED
      BY <1>0, <2>1, <2>2, <2>3, RenderStep DEF Files, Points
  <1>6. CASE DEMProcessing(i)
    <2>1. /\ inst[i].pc = "color"
          /\ UNCHANGED <<now, history, cache, call, decision, queued, stamp, billed, shown>>
          /\ Make(i, "color", files[i]["clip"], "slurp") \/ Raise(i)
      BY <1>6 DEF DEMProcessing, At, meterVars, effectVars
    <2>2. files[i]["clip"] = r
      BY <1>0, <1>1, <2>1 DEF InstSound
    <2>3. ASSUME Make(i, "color", r, "slurp") PROVE InstSound(i)'
      BY <1>0, <1>1, <1>3, <2>1, <2>2, <2>3 DEF InstSound, NoEffect, Files, Points
    <2> QED
      BY <1>0, <2>1, <2>2, <2>3, RenderStep DEF Files, Points
  <1>7. CASE Slurp(i)
    <2>1. /\ inst[i].pc = "slurp"
          /\ UNCHANGED <<now, history, cache, call, decision, queued, stamp, billed>>
      BY <1>7 DEF Slurp, At, meterVars
    <2>2. CASE Raise(i) /\ UNCHANGED shown
      BY <1>0, <1>1, <2>1, <2>2, ReplyStep DEF Raise, Codes
    <2>3. CASE /\ shown' = [shown EXCEPT ![Req(i)] = <<files[i]["color"], files[i]["clip"]>>]
               /\ files' = [files EXCEPT ![i] = NoFiles]
               /\ Goto(i, "served") /\ UNCHANGED answer
      <3>1. files[i]["color"] = r /\ files[i]["clip"] = r
        BY <1>0, <1>1, <2>1 DEF InstSound
      <3>2. shown' = [shown EXCEPT ![r] = <<r, r>>]
        BY <1>1, <2>3, <3>1
      <3>3. /\ inst' \in [Instances -> Doing]
            /\ inst'[i].pc = "served" /\ inst'[i].req = inst[i].req
            /\ \A j \in Instances : j # i => inst'[j] = inst[j]
        BY <1>0, <2>3, GotoFacts DEF Points
      <3>4. NoFiles \in [Files -> Requests \union {NoRequest}]
        BY DEF NoFiles
      <3>5. TypeOK'
        <4>1. shown' \in [Requests -> (Requests \union {NoRequest}) \X (Requests \union {NoRequest})]
          BY <1>0, <3>2 DEF TypeOK
        <4>2. files' \in [Instances -> [Files -> Requests \union {NoRequest}]]
          BY <1>0, <2>3, <3>4 DEF TypeOK
        <4>3. UNCHANGED answer
          BY <2>3
        <4> QED
          BY <1>0, <2>1, <3>3, <4>1, <4>2, <4>3 DEF TypeOK, At, Req
      <3>6. shown'[r] = <<r, r>> /\ \A q \in Requests : q # r => shown'[q] = shown[q]
        BY <1>0, <3>2 DEF TypeOK
      <3>7. decision[r].action = "serve" /\ call[r].route = "elevation" /\ NoEffect(r)
        BY <1>0, <1>1, <2>1 DEF InstSound
      <3>8. ReqSound(r)'
        <4>1. CatalogOf(decision[r].version)' = CatalogOf(decision[r].version)
          BY <2>1 DEF CatalogOf
        <4> QED
          BY <1>2, <2>1, <2>3, <3>6, <3>7, <4>1 DEF ReqSound, NoEffect
      <3>9. InstSound(i)'
        BY <1>1, <2>1, <3>3, <3>6, <3>7 DEF InstSound, NoEffect, Req
      <3>10. \A j \in Instances : j # i => files'[j] = files[j]
        BY <1>0, <2>3 DEF TypeOK
      <3>11. Placed' /\ Sound' /\ Timed'
        BY <1>0, <1>1, <2>1, <2>3, <3>6, <3>8, <3>9, <3>10, GotoStep DEF Points
      <3> QED
        BY <3>5, <3>11 DEF IInv
    <2> QED
      BY <1>7, <2>2, <2>3 DEF Slurp
  <1>8. CASE Report(i)
    <2>1. /\ inst[i].pc = "served" /\ Goto(i, "reply")
          /\ UNCHANGED <<now, history, cache, files, call, answer, decision, queued, stamp, shown>>
      BY <1>8 DEF Report, At, meterVars
    <2>2. billed[r] = 0 /\ shown[r] = <<r, r>> /\ call[r].route = "elevation"
          /\ decision[r].action = "serve"
      BY <1>0, <1>1, <2>1 DEF InstSound
    <2>3. /\ billed' \in [Requests -> 0 .. 1]
          /\ \A q \in Requests : q # r => billed'[q] = billed[q]
          /\ billed'[r] > 0 => decision[r].record # NoConsumer
      <3>1. CASE UNCHANGED billed
        BY <1>0, <2>2, <3>1 DEF TypeOK
      <3>2. CASE decision[r].record # NoConsumer /\ billed' = [billed EXCEPT ![r] = @ + 1]
        BY <1>0, <2>2, <3>2 DEF TypeOK
      <3> QED
        BY <1>1, <1>8, <3>1, <3>2 DEF Report, DecisionOf
    <2>4. /\ inst' \in [Instances -> Doing]
          /\ inst'[i].pc = "reply" /\ inst'[i].req = inst[i].req
          /\ \A j \in Instances : j # i => inst'[j] = inst[j]
      BY <1>0, <2>1, GotoFacts DEF Points
    <2>5. TypeOK'
      BY <1>0, <2>1, <2>3, <2>4 DEF TypeOK, At, Req
    <2>6. ReqSound(r)'
      <3>1. CatalogOf(decision[r].version)' = CatalogOf(decision[r].version)
        BY <2>1 DEF CatalogOf
      <3>2. <<r, r>> # None
        BY CallsAssumption DEF None
      <3> QED
        BY <1>2, <2>1, <2>2, <2>3, <3>1, <3>2 DEF ReqSound, NoEffect
    <2>7. InstSound(i)'
      BY <1>1, <2>1, <2>2, <2>4 DEF InstSound, Req
    <2>8. Placed' /\ Sound' /\ Timed'
      BY <1>0, <1>1, <2>1, <2>3, <2>6, <2>7, GotoStep DEF Points
    <2> QED
      BY <2>5, <2>8 DEF IInv
  <1>9. CASE ReplyRendered(i)
    <2>1. /\ inst[i].pc = "reply" /\ Reply(i, "200")
          /\ UNCHANGED <<now, history, cache, files, call, decision, queued, stamp, billed, shown>>
      BY <1>9 DEF ReplyRendered, At, meterVars, effectVars
    <2>2. shown[r] = <<r, r>>
      BY <1>0, <1>1, <2>1 DEF InstSound
    <2> QED
      BY <1>0, <1>1, <2>1, <2>2, ReplyStep DEF Codes
  <1> QED
    BY <1>4, <1>5, <1>6, <1>7, <1>8, <1>9

-----------------------------------------------------------------------------
(* Steps outside the handler leave what the instances do, and what was     *)
(* decided and done, alone.                                                *)
LEMMA SameRequests ==
    ASSUME IInv, UNCHANGED <<inst, files, call, answer, decision, queued, stamp, billed, shown>>,
           UNCHANGED history \/ \E e \in Version : history' = Append(history, e)
    PROVE  Placed' /\ Sound'
  <1>1. Placed'
    BY DEF IInv, Placed, At, Req
  <1>2. ASSUME NEW r \in Requests PROVE ReqSound(r)'
    BY ReqFrame DEF IInv, Sound
  <1>3. ASSUME NEW i \in Instances PROVE InstSound(i)'
    BY DEF IInv, Sound, InstSound, NoEffect, Req
  <1> QED
    BY <1>1, <1>2, <1>3 DEF Sound

LEMMA CallerSteps ==
    ASSUME IInv, NEW r \in Requests, Send(r) \/ TurnAway(r) \/ GiveUp(r)
    PROVE  IInv'
  <1>0. TypeOK /\ Placed /\ Timed /\ ReqSound(r)
    BY DEF IInv, Sound
  <1>1. PICK a \in {"waiting", "gateway"} : answer' = [answer EXCEPT ![r] = a]
    BY DEF Send, TurnAway, GiveUp
  <1>2. UNCHANGED <<now, history, cache, inst, files, decision, queued, stamp, billed, shown>>
    BY DEF Send, TurnAway, GiveUp, meterVars, effectVars
  <1>3. /\ answer' \in [Requests -> {"unsent"} \union Open \union Codes]
        /\ answer'[r] = a
        /\ \A q \in Requests : q # r => answer'[q] = answer[q]
    BY <1>0, <1>1 DEF TypeOK, Open, Codes
  <1>4. /\ call' \in [Requests -> Calls]
        /\ \A q \in Requests : q # r => call'[q] = call[q]
        /\ call'[r] = call[r] \/ answer[r] = "unsent"
    <2>1. CASE Send(r)
      BY <1>0, <2>1 DEF Send, TypeOK
    <2>2. CASE ~ Send(r)
      BY <1>0, <2>2 DEF TurnAway, GiveUp, TypeOK
    <2> QED
      BY <2>1, <2>2
  <1>5. TypeOK'
    BY <1>0, <1>2, <1>3, <1>4 DEF TypeOK, At, Req
  <1>6. a = "waiting" => answer[r] = "unsent"
    <2>1. CASE Send(r)
      BY <2>1 DEF Send
    <2>2. CASE TurnAway(r) \/ GiveUp(r)
      BY <1>0, <1>1, <2>2 DEF TurnAway, GiveUp, TypeOK
    <2> QED
      BY <2>1, <2>2
  <1>7. Placed'
    <2>1. ASSUME NEW i \in Instances, ~ At(i, "idle")
          PROVE  answer'[Req(i)] \in {"running", "gateway"}
      <3>1. Req(i) \in Requests /\ answer[Req(i)] \in {"running", "gateway"}
        BY <1>0, <2>1 DEF TypeOK, Placed
      <3> QED
        BY <1>3, <1>6, <3>1
    <2> QED
      BY <1>0, <1>2, <2>1 DEF Placed, At, Req
  <1>8. ASSUME NEW q \in Requests PROVE ReqSound(q)'
    <2>1. CASE q # r
      BY <1>0, <1>2, <1>3, <1>4, <2>1, ReqFrame DEF IInv, Sound
    <2>2. CASE q = r
      <3>1. CatalogOf(decision[r].version)' = CatalogOf(decision[r].version)
        BY <1>2 DEF CatalogOf
      <3>2. CASE answer[r] = "unsent"
        <4>1. decision[r] = Undecided /\ NoEffect(r)
          BY <1>0, <3>2 DEF ReqSound, Undecided
        <4> QED
          BY <1>0, <1>2, <1>3, <2>2, <3>1, <4>1 DEF ReqSound, NoEffect, Undecided
      <3>3. CASE answer[r] # "unsent"
        <4>1. a = "gateway" /\ call'[r] = call[r]
          BY <1>4, <1>6, <3>3
        <4> QED
          BY <1>0, <1>2, <1>3, <2>2, <3>1, <4>1 DEF ReqSound, NoEffect
      <3> QED
        BY <3>2, <3>3
    <2> QED
      BY <2>1, <2>2
  <1>9. ASSUME NEW i \in Instances PROVE InstSound(i)'
    <2>1. CASE At(i, "idle")
      BY <1>2, <2>1 DEF At, InstSound
    <2>2. CASE ~ At(i, "idle")
      <3>1. Req(i) \in Requests /\ answer[Req(i)] # "unsent"
        BY <1>0, <2>2 DEF TypeOK, Placed
      <3>2. call'[Req(i)] = call[Req(i)] /\ Req(i)' = Req(i)
        BY <1>2, <1>4, <3>1 DEF Req
      <3> QED
        BY <1>2, <3>2 DEF IInv, Sound, InstSound, NoEffect
    <2> QED
      BY <2>1, <2>2
  <1>10. Timed'
    BY <1>0, <1>2 DEF Timed, At
  <1> QED
    BY <1>5, <1>7, <1>8, <1>9, <1>10 DEF IInv, Sound

LEMMA StartStep ==
    ASSUME IInv, NEW i \in Instances, NEW r \in Requests, Start(i, r)
    PROVE  IInv'
  <1>0. TypeOK /\ Placed /\ Timed /\ ReqSound(r)
    BY DEF IInv, Sound
  <1>1. /\ inst[i].pc = "idle" /\ answer[r] = "waiting"
        /\ answer' = [answer EXCEPT ![r] = "running"]
        /\ inst' = [inst EXCEPT ![i] = [pc |-> "gate", req |-> r, since |-> now, from |-> 0]]
        /\ UNCHANGED <<now, history, cache, files, call, decision, queued, stamp, billed, shown>>
    BY DEF Start, At, meterVars, effectVars
  <1>2. /\ answer' \in [Requests -> {"unsent"} \union Open \union Codes]
        /\ answer'[r] = "running"
        /\ \A q \in Requests : q # r => answer'[q] = answer[q]
    BY <1>0, <1>1 DEF TypeOK, Open
  <1>3. /\ inst' \in [Instances -> Doing]
        /\ inst'[i].pc = "gate" /\ inst'[i].req = r /\ inst'[i].since = now
        /\ \A j \in Instances : j # i => inst'[j] = inst[j]
    BY <1>0, <1>1 DEF TypeOK, Doing, Points
  <1>4. TypeOK'
    BY <1>0, <1>1, <1>2, <1>3 DEF TypeOK, At, Req
  <1>5. ASSUME NEW j \in Instances, ~ At(j, "idle")
        PROVE  Req(j) \in Requests /\ Req(j) # r /\ j # i
    BY <1>0, <1>1, <1>5 DEF TypeOK, Placed, At
  <1>6. Placed'
    <2>1. ASSUME NEW j \in Instances, ~ At(j, "idle")'
          PROVE  IF j = i THEN Req(j)' = r
                 ELSE ~ At(j, "idle") /\ Req(j)' = Req(j) /\ Req(j) \in Requests /\ Req(j) # r
      BY <1>3, <1>5, <2>1 DEF At, Req
    <2> QED
      BY <1>0, <1>2, <2>1 DEF Placed
  <1>7. decision[r] = Undecided /\ NoEffect(r)
    BY <1>0, <1>1 DEF ReqSound, Undecided
  <1>8. ASSUME NEW q \in Requests PROVE ReqSound(q)'
    <2>1. CASE q # r
      BY <1>0, <1>1, <1>2, <2>1, ReqFrame DEF IInv, Sound
    <2>2. CASE q = r
      <3>1. CatalogOf(decision[r].version)' = CatalogOf(decision[r].version)
        BY <1>1 DEF CatalogOf
      <3> QED
        BY <1>0, <1>1, <1>2, <1>7, <2>2, <3>1 DEF ReqSound, NoEffect, Undecided
    <2> QED
      BY <2>1, <2>2
  <1>9. ASSUME NEW j \in Instances PROVE InstSound(j)'
    <2>1. CASE j = i
      BY <1>1, <1>3, <1>7, <2>1 DEF InstSound, NoEffect, Req
    <2>2. CASE j # i
      BY <1>1, <1>3, <2>2 DEF IInv, Sound, InstSound, NoEffect, Req
    <2> QED
      BY <2>1, <2>2
  <1>10. Timed'
    <2>1. now <= now + Budget /\ now <= now
      BY <1>0, FrontAssumption DEF TypeOK
    <2> QED
      BY <1>0, <1>1, <1>3, <2>1 DEF Timed, At
  <1> QED
    BY <1>4, <1>6, <1>8, <1>9, <1>10 DEF IInv, Sound

LEMMA DieStep ==
    ASSUME IInv, NEW i \in Instances, Die(i)
    PROVE  IInv'
  <1>0. TypeOK /\ Placed /\ Timed
    BY DEF IInv
  <1>1. /\ cache' = [cache EXCEPT ![i] = Cold]
        /\ files' = [files EXCEPT ![i] = NoFiles]
        /\ UNCHANGED <<now, history, call, decision, queued, stamp, billed, shown>>
    BY DEF Die, Forget, effectVars
  <1>2. /\ inst' \in [Instances -> Doing]
        /\ inst'[i].pc = "idle"
        /\ \A j \in Instances : j # i => inst'[j] = inst[j]
        /\ answer' \in [Requests -> {"unsent"} \union Open \union Codes]
        /\ \A q \in Requests : answer'[q] = answer[q]
               \/ (~ At(i, "idle") /\ q = Req(i) /\ answer'[q] = "gateway")
    <2>1. CASE At(i, "idle")
      BY <1>0, <2>1 DEF Die, TypeOK, At
    <2>2. CASE ~ At(i, "idle")
      <3>1. Reply(i, "gateway")
        BY <2>2 DEF Die
      <3>2. "gateway" \in Codes
        BY DEF Codes
      <3> QED
        BY <1>0, <2>2, <3>1, <3>2, ReplyFacts DEF Idle
    <2> QED
      BY <2>1, <2>2
  <1>3. /\ cache' \in [Instances -> Cached] /\ cache'[i].version = 0 /\ cache'[i].at = 0
        /\ \A j \in Instances : j # i => cache'[j] = cache[j]
    BY <1>0, <1>1 DEF TypeOK, Cached, Cold
  <1>4. /\ files' \in [Instances -> [Files -> Requests \union {NoRequest}]]
        /\ \A j \in Instances : j # i => files'[j] = files[j]
    BY <1>0, <1>1 DEF TypeOK, NoFiles
  <1>5. \A j \in Instances : cache'[j].version <= Len(history)
    <2>1. 0 <= Len(history)
      BY <1>0, LenProperties DEF TypeOK
    <2>2. ASSUME NEW j \in Instances PROVE cache[j].version <= Len(history)
      BY <1>0 DEF TypeOK
    <2> QED
      BY <1>3, <2>1, <2>2
  <1>6. TypeOK'
    BY <1>0, <1>1, <1>2, <1>3, <1>4, <1>5 DEF TypeOK, At, Req
  <1>7. Placed'
    <2>1. ASSUME NEW j \in Instances, ~ At(j, "idle")'
          PROVE  ~ At(j, "idle") /\ Req(j)' = Req(j) /\ Req(j) \in Requests
      BY <1>0, <1>2, <2>1 DEF At, Req, TypeOK
    <2> QED
      BY <1>0, <1>2, <2>1 DEF Placed
  <1>8. ASSUME NEW q \in Requests PROVE ReqSound(q)'
    <2>0. ReqSound(q)
      BY DEF IInv, Sound
    <2>1. CASE answer'[q] = answer[q]
      BY <1>0, <1>1, <2>0, <2>1, ReqFrame
    <2>2. CASE answer'[q] = "gateway"
      <3>1. CatalogOf(decision[q].version)' = CatalogOf(decision[q].version)
        BY <1>1 DEF CatalogOf
      <3> QED
        BY <1>1, <2>0, <2>2, <3>1 DEF ReqSound, NoEffect
    <2> QED
      BY <1>2, <2>1, <2>2
  <1>9. ASSUME NEW j \in Instances PROVE InstSound(j)'
    <2>1. CASE j = i
      BY <1>2, <2>1 DEF InstSound
    <2>2. CASE j # i
      <3>1. inst'[j] = inst[j] /\ files'[j] = files[j] /\ Req(j)' = Req(j)
        BY <1>2, <1>4, <2>2 DEF Req
      <3>2. InstSound(j)
        BY DEF IInv, Sound
      <3> QED
        BY <1>1, <3>1, <3>2 DEF InstSound, NoEffect
    <2> QED
      BY <2>1, <2>2
  <1>10. Timed'
    <2>1. 0 <= now
      BY <1>0 DEF TypeOK
    <2> QED
      BY <1>0, <1>1, <1>2, <1>3, <2>1 DEF Timed, At
  <1> QED
    BY <1>6, <1>7, <1>8, <1>9, <1>10 DEF IInv, Sound

LEMMA WorldSteps ==
    ASSUME IInv, Tick \/ X402
    PROVE  IInv'
  <1>0. TypeOK /\ Timed /\ now \in Nat
    BY DEF IInv, TypeOK
  <1>1. UNCHANGED <<cache, inst, files, call, answer, decision, queued, stamp, billed, shown>>
    BY DEF Tick, X402, EditCatalog, effectVars
  <1>2. CASE Tick
    <2>1. /\ now' = now + 1 /\ UNCHANGED history
          /\ \A i \in Instances : ~ At(i, "idle") => now - inst[i].since < Budget
      BY <1>2 DEF Tick
    <2>2. TypeOK'
      BY <1>0, <1>1, <2>1 DEF TypeOK, At, Req
    <2>3. Timed'
      <3>1. \A u \in 1 .. Len(history) : history'[u].since <= now'
        <4>1. ASSUME NEW u \in 1 .. Len(history) PROVE history[u].since \in Nat
          <5>1. history \in Seq(Version)
            BY <1>0 DEF TypeOK
          <5>2. history[u] \in Version
            BY <5>1, ElementOfSeq
          <5> QED
            BY <5>2 DEF Version
        <4> QED
          BY <1>0, <2>1, <4>1 DEF Timed
      <3>2. ASSUME NEW i \in Instances
            PROVE  /\ cache[i].at <= now'
                   /\ ~ At(i, "idle") => inst[i].since <= now' /\ now' <= inst[i].since + Budget
        <4>1. cache[i].at \in Nat /\ inst[i].since \in Nat /\ Budget \in Nat
          BY <1>0, FrontAssumption DEF TypeOK, Cached, Doing
        <4> QED
          BY <1>0, <2>1, <4>1 DEF Timed
      <3> QED
        BY <1>0, <1>1, <2>1, <3>1, <3>2 DEF Timed, At
    <2> QED
      BY <1>1, <2>1, <2>2, <2>3, SameRequests DEF IInv
  <1>3. CASE X402
    <2>1. UNCHANGED now
      BY <1>3 DEF X402, EditCatalog
    <2>2. PICK e \in Version : history' = Append(history, e) /\ e.since = now
      BY <1>0, <1>3 DEF X402, EditCatalog, Version
    <2>3. history \in Seq(Version) /\ Len(history) \in Nat
      BY <1>0, LenProperties DEF TypeOK
    <2>4. /\ history' \in Seq(Version) /\ Len(history') = Len(history) + 1
          /\ \A u \in 1 .. Len(history) : history'[u] = history[u]
          /\ history'[Len(history) + 1] = e
      BY <2>2, <2>3, AppendProperties
    <2>5. \A i \in Instances : cache[i].version \in Nat /\ cache[i].at \in Nat /\ inst[i].since \in Nat
      BY <1>0 DEF TypeOK, Cached, Doing
    <2>6. TypeOK'
      BY <1>0, <1>1, <2>1, <2>3, <2>4, <2>5 DEF TypeOK, At, Req
    <2>7. Timed'
      <3>1. \A u \in 1 .. Len(history') : history'[u].since <= now'
        BY <1>0, <2>1, <2>2, <2>3, <2>4 DEF Timed
      <3>2. ASSUME NEW i \in Instances, cache[i].version # 0, cache[i].version < Len(history')
            PROVE  history'[cache[i].version + 1].since + Budget >= cache[i].at
        <4>1. CASE cache[i].version < Len(history)
          <5>1. cache[i].version + 1 \in 1 .. Len(history)
            BY <2>3, <2>5, <4>1
          <5> QED
            BY <1>0, <2>4, <3>2, <4>1, <5>1 DEF Timed
        <4>2. CASE cache[i].version = Len(history)
          BY <1>0, <2>2, <2>4, <2>5, <4>2, FrontAssumption DEF Timed
        <4> QED
          BY <2>3, <2>4, <2>5, <3>2, <4>1, <4>2
      <3>3. ASSUME NEW i \in Instances, At(i, "fetch")
            PROVE  /\ inst[i].from \in 1 .. Len(history')
                   /\ \A u \in 1 .. Len(history') :
                         u > inst[i].from => history'[u].since >= inst[i].since
        <4>1. inst[i].since <= now /\ inst[i].from \in 1 .. Len(history)
          BY <1>0, <3>3 DEF Timed, At
        <4>2. \A u \in 1 .. Len(history) : u > inst[i].from => history[u].since >= inst[i].since
          BY <1>0, <3>3 DEF Timed
        <4> QED
          BY <1>0, <2>2, <2>3, <2>4, <2>5, <4>1, <4>2
      <3> QED
        BY <1>0, <1>1, <2>1, <3>1, <3>2, <3>3 DEF Timed, At
    <2> QED
      BY <1>1, <2>2, <2>6, <2>7, SameRequests DEF IInv
  <1> QED
    BY <1>2, <1>3

-----------------------------------------------------------------------------
LEMMA InitInv == Init => IInv
  <1> SUFFICES ASSUME Init PROVE IInv
    OBVIOUS
  <1>1. PICK c \in Catalogs : history = <<[since |-> 0, catalog |-> c]>>
    BY DEF Init, MeterInit
  <1>2. /\ history \in Seq(Version) /\ Len(history) = 1
        /\ history[1] = [since |-> 0, catalog |-> c]
    BY <1>1 DEF Version
  <1>3. AnyCall \in Calls
    BY CallsAssumption DEF AnyCall
  <1>4. \A i \in Instances : At(i, "idle") /\ cache[i].version = 0 /\ cache[i].at = 0
    BY DEF Init, MeterInit, At, Idle, Cold
  <1>5. TypeOK
    <2>1. now \in Nat /\ cache \in [Instances -> Cached]
      BY DEF Init, MeterInit, Cached, Cold
    <2>2. inst \in [Instances -> Doing] /\ files \in [Instances -> [Files -> Requests \union {NoRequest}]]
      BY DEF Init, Doing, Idle, Points, NoFiles
    <2>3. decision \in [Requests -> Decision]
      BY DEF Init, Decision, Undecided
    <2>4. queued \in [Requests -> 0 .. MaxCopies]
      BY FrontAssumption DEF Init
    <2>5. /\ call \in [Requests -> Calls]
          /\ answer \in [Requests -> {"unsent"} \union Open \union Codes]
          /\ stamp \in [Requests -> Consumers \union {NoConsumer}]
          /\ billed \in [Requests -> 0 .. 1]
          /\ shown \in [Requests -> (Requests \union {NoRequest}) \X (Requests \union {NoRequest})]
      BY <1>3 DEF Init
    <2> QED
      BY <1>2, <1>4, <2>1, <2>2, <2>3, <2>4, <2>5 DEF TypeOK
  <1>6. Placed
    BY <1>4 DEF Placed
  <1>7. Sound
    <2>1. ASSUME NEW r \in Requests
          PROVE  answer[r] = "unsent" /\ decision[r] = Undecided /\ NoEffect(r)
      BY DEF Init, NoEffect, None
    <2>2. ASSUME NEW r \in Requests PROVE ReqSound(r)
      BY <1>2, <2>1 DEF ReqSound, NoEffect, Undecided
    <2>3. ASSUME NEW i \in Instances PROVE InstSound(i)
      BY <1>4 DEF InstSound, At
    <2> QED
      BY <2>2, <2>3 DEF Sound
  <1>8. Timed
    <2>1. now = 0
      BY DEF Init, MeterInit
    <2> QED
      BY <1>2, <1>4, <2>1 DEF Timed, At
  <1> QED
    BY <1>5, <1>6, <1>7, <1>8 DEF IInv

LEMMA NextInv == IInv /\ [Next]_vars => IInv'
  <1> SUFFICES ASSUME IInv, [Next]_vars PROVE IInv'
    OBVIOUS
  <1>1. CASE UNCHANGED vars
    <2>1. UNCHANGED <<now, history, cache, inst, files, call, answer, decision, queued, stamp,
                      billed, shown>>
      BY <1>1 DEF vars
    <2>2. TypeOK' /\ Timed'
      BY <2>1 DEF IInv, TypeOK, Timed, At, Req
    <2> QED
      BY <2>1, <2>2, SameRequests DEF IInv
  <1>2. ASSUME NEW i \in Instances, Handle(i) PROVE IInv'
    BY <1>2, GateSteps, AsyncSteps, RenderSteps DEF Handle
  <1>3. CASE Next
    BY <1>2, <1>3, CallerSteps, StartStep, DieStep, WorldSteps DEF Next
  <1> QED
    BY <1>1, <1>3

LEMMA SpecInvariant == Spec => []IInv
  BY InitInv, NextInv, PTL DEF Spec

-----------------------------------------------------------------------------
(* Every variable keeps to the values the code gives it.                   *)
THEOREM TypeCorrect == Spec => []TypeOK
  BY SpecInvariant, PTL DEF IInv

(* Whoever is billed is the caller, active in the catalog of the decision, *)
(* on a metered route; on an enforced one nothing is rendered or enqueued  *)
(* for a caller it is not permitted to.                                    *)
THEOREM DueCorrect == Spec => []EffectsAreDue
  <1>1. ASSUME IInv, NEW r \in Requests
        PROVE  LET cat == CatalogOf(decision[r].version)
                   c == call[r]
               IN  /\ billed[r] > 0 \/ stamp[r] # NoConsumer =>
                        /\ Metered(cat, c.route)
                        /\ Active(cat, c.who)
                        /\ stamp[r] \in {NoConsumer, c.who}
                   /\ queued[r] > 0 \/ shown[r] # None =>
                        \/ cat = NoCatalog \/ cat.mode[c.route] # "enforce"
                        \/ Permitted(cat, c.route, c.who)
    <2>0. TypeOK /\ ReqSound(r)
      BY <1>1 DEF IInv, Sound
    <2>1. ReqSound(r) /\ queued[r] \in Nat /\ billed[r] \in Nat
      BY <2>0, FrontAssumption DEF TypeOK
    <2> DEFINE cat == CatalogOf(decision[r].version)
               c == call[r]
    <2>2. billed[r] > 0 \/ stamp[r] # NoConsumer => decision[r].record # NoConsumer
      BY <2>1 DEF ReqSound
    <2>3. billed[r] > 0 \/ stamp[r] # NoConsumer =>
             /\ Metered(cat, c.route) /\ Active(cat, c.who) /\ stamp[r] \in {NoConsumer, c.who}
      BY <2>1, <2>2 DEF ReqSound
    <2>4. queued[r] > 0 \/ shown[r] # None => ~ Rejects(cat, c.route, c.who)
      BY <2>1 DEF ReqSound, NoEffect
    <2>5. ~ Rejects(cat, c.route, c.who) =>
             \/ cat = NoCatalog \/ cat.mode[c.route] # "enforce" \/ Permitted(cat, c.route, c.who)
      BY DEF Rejects, Metered
    <2> QED
      BY <2>3, <2>4, <2>5
  <1>2. IInv => EffectsAreDue
    BY <1>1 DEF EffectsAreDue, None
  <1> QED
    BY <1>2, SpecInvariant, PTL

(* The answer a caller gets tells what was done for the request.           *)
THEOREM AnswerCorrect == Spec => []AnswerIsTrue
  <1>1. IInv => AnswerIsTrue
    BY DEF IInv, Sound, ReqSound, NoEffect, AnswerIsTrue, None
  <1> QED
    BY <1>1, SpecInvariant, PTL

(* A render that is answered was made from its own boundary, whatever      *)
(* earlier ones have left on the instance.                                 *)
THEOREM RenderCorrect == Spec => []OwnRender
  <1>1. IInv => OwnRender
    BY DEF IInv, Sound, ReqSound, OwnRender, None
  <1> QED
    BY <1>1, SpecInvariant, PTL

(* The gate decides from a catalog that was x402's own less than the TTL   *)
(* and one request's time ago, unless the fetch it waited for fails.       *)
THEOREM CatalogCorrect == Spec => RecentCatalog
  <1>1. ASSUME IInv, [Next]_vars, NEW r \in Requests, Enabled, HasToken,
               decision'[r] # decision[r]
        PROVE  \/ Recent(decision'[r].version)
               \/ \E i \in Instances : Req(i) = r /\ FetchFails(i)
    <2>0. TypeOK /\ Timed
      BY <1>1 DEF IInv
    <2>1. PICK i \in Instances : GateAtOnce(i) \/ Fetched(i) \/ FetchFails(i)
      <3>1. ~ UNCHANGED decision
        BY <1>1
      <3>2. Next
        BY <1>1, <3>1 DEF vars
      <3>3. \A q \in Requests : ~ Send(q) /\ ~ TurnAway(q) /\ ~ GiveUp(q)
        BY <3>1 DEF Send, TurnAway, GiveUp
      <3>4. \A i \in Instances, q \in Requests : ~ Start(i, q)
        BY <3>1 DEF Start
      <3>5. ~ Tick /\ ~ X402
        BY <3>1 DEF Tick, X402
      <3>6. PICK i \in Instances : Handle(i)
        BY <3>1, <3>2, <3>3, <3>4, <3>5 DEF Next, Die
      <3> QED
        BY <3>1, <3>6 DEF Handle, Aside, Fetch, Refuse, Publish, Accept, BuildVRT, Translate,
           DEMProcessing, Slurp, Report, ReplyRendered
    <2>2. ASSUME NEW v \in 0 .. Len(history), Decide(i, v)
          PROVE  r = Req(i) /\ decision'[r].version = v
      BY <1>1, <2>0, <2>2 DEF Decide, TypeOK
    <2>3. /\ history \in Seq(Version) /\ Len(history) \in Nat /\ now \in Nat
          /\ Refresh \in Nat \ {0} /\ Budget \in Nat \ {0}
      BY <2>0, LenProperties, MeteringAssumption, FrontAssumption DEF TypeOK
    <2>4. \A u \in 1 .. Len(history) : history[u].since \in Nat
      <3>1. ASSUME NEW u \in 1 .. Len(history) PROVE history[u] \in Version
        BY <2>3, ElementOfSeq
      <3> QED
        BY <3>1 DEF Version
    <2>5. CASE GateAtOnce(i)
      <3>1. Fresh(i) /\ Decide(i, cache[i].version)
        BY <1>1, <2>5 DEF GateAtOnce
      <3>2. cache[i].version \in 0 .. Len(history) /\ cache[i].at \in Nat
        BY <2>0, <2>3 DEF TypeOK, Cached
      <3>3. cache[i].version # 0 /\ now - cache[i].at < Refresh
        BY <1>1, <3>1 DEF Fresh
      <3>4. cache[i].version < Len(history) =>
               history[cache[i].version + 1].since + Budget >= cache[i].at
        BY <2>0, <3>3 DEF Timed
      <3>5. cache[i].version < Len(history) => cache[i].version + 1 \in 1 .. Len(history)
        BY <2>3, <3>2
      <3>6. Recent(cache[i].version)
        <4>1. ASSUME cache[i].version < Len(history)
              PROVE  history[cache[i].version + 1].since + Refresh + Budget > now
          <5>1. history[cache[i].version + 1].since \in Nat
            BY <2>4, <3>5, <4>1
          <5>2. history[cache[i].version + 1].since + Budget >= cache[i].at
            BY <3>4, <4>1
          <5> QED
            BY <2>3, <3>2, <3>3, <5>1, <5>2
        <4> QED
          BY <3>3, <4>1 DEF Recent
      <3> QED
        BY <2>2, <3>1, <3>2, <3>6
    <2>6. CASE Fetched(i)
      <3>1. PICK v \in inst[i].from .. Len(history) : Decide(i, v)
        BY <2>6 DEF Fetched
      <3>2. /\ inst[i].from \in 1 .. Len(history)
            /\ \A u \in 1 .. Len(history) : u > inst[i].from => history[u].since >= inst[i].since
            /\ now <= inst[i].since + Budget /\ inst[i].since \in Nat
        BY <2>0, <2>6 DEF Fetched, At, Timed, TypeOK, Doing
      <3>3. v \in 1 .. Len(history)
        BY <2>3, <3>2
      <3>4. v < Len(history) => v + 1 \in 1 .. Len(history) /\ v + 1 > inst[i].from
        BY <2>3, <3>2, <3>3
      <3>5. Recent(v)
        BY <2>3, <2>4, <3>2, <3>3, <3>4 DEF Recent
      <3> QED
        BY <2>2, <3>1, <3>3, <3>5
    <2>7. CASE FetchFails(i)
      <3>1. Decide(i, cache[i].version)
        BY <2>7 DEF FetchFails
      <3>2. cache[i].version \in 0 .. Len(history)
        <4>1. cache[i] \in Cached /\ cache[i].version <= Len(history)
          BY <2>0 DEF TypeOK
        <4> QED
          BY <2>3, <4>1 DEF Cached
      <3> QED
        BY <2>2, <2>7, <3>1, <3>2
    <2> QED
      BY <2>1, <2>5, <2>6, <2>7
  <1>2. IInv /\ [Next]_vars =>
           [\A r \in Requests :
              Enabled /\ HasToken /\ decision'[r] # decision[r] =>
                  \/ Recent(decision'[r].version)
                  \/ \E i \in Instances : Req(i) = r /\ FetchFails(i)]_vars
    BY <1>1
  <1> QED
    BY <1>2, SpecInvariant, PTL DEF Spec, RecentCatalog

-----------------------------------------------------------------------------
(* Answered, short of its last temporal step: a handler that runs comes    *)
(* closer to its reply with every step, and can always take one.           *)

(* Steps of the handler still to come, at most. *)
Ahead(i) ==
    CASE At(i, "gate") -> 8 [] At(i, "fetch") -> 7 [] At(i, "decided") -> 6
      [] At(i, "clip") -> 5 [] At(i, "color") -> 4 [] At(i, "slurp") -> 3
      [] At(i, "served") -> 2 [] inst[i].pc \in {"published", "reply"} -> 1
      [] OTHER -> 0

(* Changes of the answer still to come, at most. *)
ToCome(r) ==
    CASE answer[r] = "unsent" -> 3 [] answer[r] = "waiting" -> 2
      [] answer[r] = "running" -> 1 [] OTHER -> 0

(* A handler's step brings it closer to its reply; nothing but a new       *)
(* request sets an instance back, and nothing sets an answer back.         *)
MovesOn ==
    /\ \A i \in Instances : Handle(i) => Ahead(i)' < Ahead(i)
    /\ \A i \in Instances :
          inst'[i] = inst[i] \/ Ahead(i)' < Ahead(i) \/ \E r \in Requests : Start(i, r)
    /\ \A r \in Requests : answer'[r] = answer[r] \/ ToCome(r)' < ToCome(r)

(* One of the guards of Handle(i) holds. *)
Ready(i) ==
    \/ At(i, "gate") /\ CallOf(i).route \in Gated \union {"options", "prime"}
    \/ /\ At(i, "decided")
       /\ \/ DecisionOf(i).action = "reject"
          \/ /\ DecisionOf(i).action = "serve"
             /\ CallOf(i).body = "bad" \/ CallOf(i).route \in Gated
    \/ inst[i].pc \in {"fetch", "published", "clip", "color", "slurp", "served", "reply"}

(* A request that is running is on an instance. *)
Held ==
    \A r \in Requests :
        answer[r] = "running" => \E i \in Instances : ~ At(i, "idle") /\ Req(i) = r

(* Only a call of a gated route is fetched for, and what is decided stays. *)
Judged ==
    \A i \in Instances :
        /\ inst[i].pc \in {"fetch", "decided"} => CallOf(i).route \in Gated
        /\ At(i, "decided") => DecisionOf(i).action \in {"serve", "reject"}

(* What one step of a handler does to its instance and its answer. *)
Forward(i) ==
    /\ \A j \in Instances : j # i => inst'[j] = inst[j]
    /\ ~ At(i, "idle") /\ call' = call
    /\ \/ /\ answer' = answer /\ inst'[i].req = inst[i].req
          /\ inst'[i].pc # "idle" /\ Ahead(i)' < Ahead(i)
          /\ inst'[i].pc \in {"fetch", "decided"} =>
                /\ CallOf(i).route \in Gated
                /\ inst'[i].pc = "decided" => decision'[Req(i)].action \in {"serve", "reject"}
       \/ \E code \in Codes : Reply(i, code)

LEMMA GoesForward ==
    ASSUME TypeOK, NEW i \in Instances, NEW p \in Points \ {"idle", "gate", "fetch"}, Goto(i, p),
           ~ At(i, "idle"), answer' = answer, call' = call, Ahead(i)' < Ahead(i),
           p = "decided" =>
              CallOf(i).route \in Gated /\ decision'[Req(i)].action \in {"serve", "reject"}
    PROVE  Forward(i)
  <1>1. /\ inst'[i].pc = p /\ inst'[i].req = inst[i].req
        /\ \A j \in Instances : j # i => inst'[j] = inst[j]
    BY GotoFacts
  <1> QED
    BY <1>1 DEF Forward

LEMMA DecidesForward ==
    ASSUME TypeOK, Judged, NEW i \in Instances, NEW v, Decide(i, v),
           At(i, "gate") \/ At(i, "fetch"), answer' = answer, call' = call,
           At(i, "gate") => CallOf(i).route \in Gated
    PROVE  Forward(i)
  <1>1. Req(i) \in Requests /\ ~ At(i, "idle") /\ CallOf(i).route \in Gated
    BY DEF TypeOK, At, Judged
  <1>2. decision'[Req(i)].action \in {"serve", "reject"}
    BY <1>1 DEF Decide, TypeOK
  <1>3. Goto(i, "decided") /\ inst'[i].pc = "decided"
    BY GotoFacts DEF Decide, Points
  <1>4. Ahead(i)' < Ahead(i)
    BY <1>3 DEF Ahead, At
  <1> QED
    BY <1>1, <1>2, <1>3, <1>4, GoesForward DEF Points

LEMMA HandleForward ==
    ASSUME TypeOK, Judged, NEW i \in Instances, Handle(i)
    PROVE  Forward(i)
  <1>1. ASSUME NEW code \in Codes, Reply(i, code), ~ At(i, "idle"), call' = call
        PROVE  Forward(i)
    <2>1. \A j \in Instances : j # i => inst'[j] = inst[j]
      BY <1>1 DEF Reply, TypeOK
    <2> QED
      BY <1>1, <2>1 DEF Forward
  <1>2. ASSUME NEW p \in {"published", "clip", "color", "slurp", "served", "reply"}, Goto(i, p),
               answer' = answer, call' = call,
               \/ At(i, "decided") /\ p \in {"published", "clip"}
               \/ At(i, "clip") /\ p = "color"
               \/ At(i, "color") /\ p = "slurp"
               \/ At(i, "slurp") /\ p = "served"
               \/ At(i, "served") /\ p = "reply"
        PROVE  Forward(i)
    <2>1. inst'[i].pc = p
      BY <1>2, GotoFacts DEF Points
    <2>2. Ahead(i)' < Ahead(i)
      BY <1>2, <2>1 DEF Ahead, At
    <2>3. ~ At(i, "idle")
      BY <1>2 DEF At
    <2> QED
      BY <1>2, <2>2, <2>3, GoesForward DEF Points
  <1>3. CASE Aside(i)
    BY <1>1, <1>3 DEF Aside, At, Codes
  <1>4. CASE GateAtOnce(i)
    BY <1>4, DecidesForward DEF GateAtOnce
  <1>5. CASE Fetch(i)
    <2>1. inst'[i].pc = "fetch" /\ inst'[i].req = inst[i].req
          /\ \A j \in Instances : j # i => inst'[j] = inst[j]
      BY <1>5 DEF Fetch, TypeOK, Doing
    <2>2. Ahead(i)' < Ahead(i)
      BY <1>5, <2>1 DEF Fetch, Ahead, At
    <2> QED
      BY <1>5, <2>1, <2>2 DEF Fetch, Forward, At
  <1>6. CASE Fetched(i) \/ FetchFails(i)
    BY <1>6, DecidesForward DEF Fetched, FetchFails, At
  <1>7. CASE Refuse(i)
    <2>1. ~ At(i, "idle") /\ call' = call
      BY <1>7 DEF Refuse, At
    <2>2. \E code \in Codes : Reply(i, code)
      BY <1>7 DEF Refuse, RejectCode, Codes
    <2> QED
      BY <1>1, <2>1, <2>2
  <1>8. CASE Publish(i)
    BY <1>2, <1>8 DEF Publish
  <1>9. CASE Accept(i)
    BY <1>1, <1>9 DEF Accept, At, Codes
  <1>10. CASE BuildVRT(i)
    <2>1. ~ At(i, "idle") /\ call' = call /\ At(i, "decided")
      BY <1>10 DEF BuildVRT, At
    <2>2. (Goto(i, "clip") /\ answer' = answer) \/ Reply(i, "502")
      BY <1>10 DEF BuildVRT, Make, Raise
    <2> QED
      BY <1>1, <1>2, <2>1, <2>2 DEF Codes
  <1>11. CASE Translate(i)
    <2>1. ~ At(i, "idle") /\ call' = call /\ At(i, "clip")
      BY <1>11 DEF Translate, At
    <2>2. (Goto(i, "color") /\ answer' = answer) \/ Reply(i, "502")
      BY <1>11 DEF Translate, Make, Raise
    <2> QED
      BY <1>1, <1>2, <2>1, <2>2 DEF Codes
  <1>12. CASE DEMProcessing(i)
    <2>1. ~ At(i, "idle") /\ call' = call /\ At(i, "color")
      BY <1>12 DEF DEMProcessing, At
    <2>2. (Goto(i, "slurp") /\ answer' = answer) \/ Reply(i, "502")
      BY <1>12 DEF DEMProcessing, Make, Raise
    <2> QED
      BY <1>1, <1>2, <2>1, <2>2 DEF Codes
  <1>13. CASE Slurp(i)
    <2>1. ~ At(i, "idle") /\ call' = call /\ At(i, "slurp")
      BY <1>13 DEF Slurp, At
    <2>2. (Goto(i, "served") /\ answer' = answer) \/ Reply(i, "502")
      BY <1>13 DEF Slurp, Raise
    <2> QED
      BY <1>1, <1>2, <2>1, <2>2 DEF Codes
  <1>14. CASE Report(i)
    BY <1>2, <1>14 DEF Report
  <1>15. CASE ReplyRendered(i)
    BY <1>1, <1>15 DEF ReplyRendered, At, Codes
  <1> QED
    BY <1>3, <1>4, <1>5, <1>6, <1>7, <1>8, <1>9, <1>10, <1>11, <1>12, <1>13, <1>14, <1>15
       DEF Handle

(* An answer that is handed over comes once. *)
LEMMA ReplyMoves ==
    ASSUME TypeOK, Placed, NEW i \in Instances, ~ At(i, "idle"), NEW code \in Codes,
           Reply(i, code)
    PROVE  /\ inst'[i].pc = "idle" /\ Ahead(i)' < Ahead(i)
           /\ answer'[Req(i)] \in Codes
           /\ \A r \in Requests : answer'[r] = answer[r] \/ ToCome(r)' < ToCome(r)
           /\ \A r \in Requests : r # Req(i) => answer'[r] = answer[r]
  <1>1. inst'[i] = Idle /\ answer'[Req(i)] \in {"gateway", code}
        /\ \A q \in Requests : q # Req(i) => answer'[q] = answer[q]
    BY ReplyFacts
  <1>2. inst'[i].pc = "idle" /\ answer'[Req(i)] \in Codes
    BY <1>1 DEF Idle, Codes
  <1>3. inst[i].pc \in Points \ {"idle"}
    BY DEF TypeOK, Doing, At
  <1>4. Ahead(i)' = 0 /\ Ahead(i) > 0
    BY <1>2, <1>3 DEF Ahead, At, Points
  <1>5. ASSUME NEW r \in Requests PROVE answer'[r] = answer[r] \/ ToCome(r)' < ToCome(r)
    <2>1. CASE r = Req(i) /\ answer[r] = "running"
      <3>1. answer'[r] \in Codes
        BY <1>2, <2>1
      <3>2. ToCome(r)' = 0
        BY <3>1 DEF ToCome, Codes
      <3>3. ToCome(r) = 1
        BY <2>1 DEF ToCome
      <3> QED
        BY <3>2, <3>3
    <2>2. CASE r = Req(i) /\ answer[r] # "running"
      BY <2>2 DEF Reply
    <2> QED
      BY <1>1, <2>1, <2>2
  <1> QED
    BY <1>1, <1>2, <1>4, <1>5

(* Handlers move on. *)
LEMMA HandleMoves ==
    ASSUME TypeOK, Placed, Judged, Held, NEW i \in Instances, Handle(i)
    PROVE  MovesOn /\ Held' /\ Judged'
  <1>1. Forward(i)
    BY HandleForward
  <1>2. \A q \in Requests : q # Req(i) => decision'[q] = decision[q]
    <2>1. decision' = decision \/ \E v : Decide(i, v)
      BY DEF Handle, Aside, GateAtOnce, Fetch, Fetched, FetchFails, Refuse, Publish, Accept,
             BuildVRT, Translate, DEMProcessing, Slurp, Report, ReplyRendered
    <2> QED
      BY <2>1 DEF Decide, TypeOK
  <1>3. \A j \in Instances : j # i => inst'[j] = inst[j]
    BY <1>1 DEF Forward
  <1>4. ASSUME NEW j \in Instances, Handle(j) PROVE Ahead(j)' < Ahead(j)
    <2>1. Forward(j)
      BY <1>4, HandleForward
    <2>2. CASE \E code \in Codes : Reply(j, code)
      BY <2>1, <2>2, ReplyMoves DEF Forward
    <2> QED
      BY <2>1, <2>2 DEF Forward
  <1>5. \A r \in Requests : answer'[r] = answer[r] \/ ToCome(r)' < ToCome(r)
    BY <1>1, ReplyMoves DEF Forward
  <1>6. MovesOn
    BY <1>3, <1>4, <1>5 DEF MovesOn
  <1>7. Held'
    <2> SUFFICES ASSUME NEW r \in Requests, answer'[r] = "running"
                 PROVE  \E j \in Instances : ~ At(j, "idle")' /\ Req(j)' = r
      BY DEF Held
    <2>1. CASE answer' = answer /\ inst'[i].req = inst[i].req /\ inst'[i].pc # "idle"
      <3>1. PICK j \in Instances : ~ At(j, "idle") /\ Req(j) = r
        BY <2>1 DEF Held
      <3>2. ~ At(j, "idle")' /\ Req(j)' = r
        BY <1>3, <2>1, <3>1 DEF At, Req
      <3> QED
        BY <3>2
    <2>2. CASE \E code \in Codes : Reply(i, code)
      <3>1. r # Req(i) /\ answer'[r] = answer[r]
        BY <1>1, <2>2, ReplyMoves DEF Forward, Codes
      <3>2. PICK j \in Instances : ~ At(j, "idle") /\ Req(j) = r
        BY <3>1 DEF Held
      <3>3. ~ At(j, "idle")' /\ Req(j)' = r
        BY <1>3, <3>1, <3>2 DEF At, Req
      <3> QED
        BY <3>3
    <2> QED
      BY <1>1, <2>1, <2>2 DEF Forward
  <1>8. Judged'
    <2> SUFFICES ASSUME NEW j \in Instances
                 PROVE  /\ inst'[j].pc \in {"fetch", "decided"} => CallOf(j)'.route \in Gated
                        /\ inst'[j].pc = "decided" => DecisionOf(j)'.action \in {"serve", "reject"}
      BY DEF Judged, At
    <2>1. CASE j # i
      <3>1. inst'[j] = inst[j] /\ CallOf(j)' = CallOf(j)
        BY <1>1, <1>3, <2>1 DEF CallOf, Req, Forward
      <3>2. ~ At(j, "idle") => Req(j) \in Requests /\ Req(j) # Req(i)
        BY <1>1, <2>1 DEF Forward, Placed, TypeOK
      <3>3. ~ At(j, "idle") => DecisionOf(j)' = DecisionOf(j)
        BY <1>2, <3>1, <3>2 DEF DecisionOf, Req
      <3> QED
        BY <3>1, <3>3 DEF Judged, At
    <2>2. CASE j = i
      <3>1. CASE \E code \in Codes : Reply(i, code)
        BY <1>1, <2>2, <3>1, ReplyMoves DEF Forward
      <3>2. CASE ~ \E code \in Codes : Reply(i, code)
        <4>1. /\ inst'[i].req = inst[i].req /\ call' = call
              /\ inst'[i].pc \in {"fetch", "decided"} =>
                    /\ CallOf(i).route \in Gated
                    /\ inst'[i].pc = "decided" => decision'[Req(i)].action \in {"serve", "reject"}
          BY <1>1, <3>2 DEF Forward
        <4>2. CallOf(i)' = CallOf(i) /\ DecisionOf(i)' = decision'[Req(i)]
          BY <4>1 DEF CallOf, DecisionOf, Req
        <4> QED
          BY <2>2, <4>1, <4>2
      <3> QED
        BY <3>1, <3>2
    <2> QED
      BY <2>1, <2>2
  <1> QED
    BY <1>6, <1>7, <1>8

(* No handler has stepped if no instance has changed. *)
LEMMA StandsStill ==
    ASSUME TypeOK, Judged, inst' = inst
    PROVE  \A j \in Instances : ~ Handle(j)
  <1> SUFFICES ASSUME NEW j \in Instances, Handle(j) PROVE FALSE
    OBVIOUS
  <1>1. Forward(j)
    BY HandleForward
  <1>2. Ahead(j)' = Ahead(j) /\ Ahead(j) \in Nat
    BY DEF Ahead, At
  <1>3. PICK code \in Codes : Reply(j, code)
    BY <1>1, <1>2 DEF Forward
  <1>4. inst'[j].pc = "idle"
    BY <1>3 DEF Reply, TypeOK, Idle
  <1> QED
    BY <1>1, <1>4 DEF Forward, At

(* Steps that leave the instances alone, and hand out answers at most. *)
LEMMA AsideMoves ==
    ASSUME Judged, Held, inst' = inst, decision' = decision,
           \A r \in Requests :
              answer'[r] = answer[r] \/ (ToCome(r)' < ToCome(r) /\ answer'[r] # "running"),
           \A i \in Instances : ~ At(i, "idle") => CallOf(i)' = CallOf(i),
           \A i \in Instances : ~ Handle(i)
    PROVE  MovesOn /\ Held' /\ Judged'
  <1>1. MovesOn
    BY DEF MovesOn
  <1>2. Held'
    BY DEF Held, At, Req
  <1>3. Judged'
    BY DEF Judged, At, DecisionOf, Req
  <1> QED
    BY <1>1, <1>2, <1>3

LEMMA StartMoves ==
    ASSUME TypeOK, Placed, Judged, Held, NEW i \in Instances, NEW r \in Requests, Start(i, r)
    PROVE  MovesOn /\ Held' /\ Judged'
  <1>1. /\ At(i, "idle") /\ answer[r] = "waiting" /\ answer'[r] = "running"
        /\ inst'[i].pc = "gate" /\ inst'[i].req = r
        /\ \A j \in Instances : j # i => inst'[j] = inst[j]
        /\ \A q \in Requests : q # r => answer'[q] = answer[q]
        /\ call' = call /\ decision' = decision
    BY DEF Start, TypeOK
  <1>2. \A j \in Instances : ~ Handle(j)
    <2>1. \A j \in Instances : Handle(j) => Forward(j)
      BY HandleForward
    <2>2. ASSUME NEW j \in Instances, Handle(j) PROVE FALSE
      <3>1. Forward(j) /\ j # i
        BY <1>1, <2>1, <2>2 DEF Forward
      <3>2. inst'[i] = inst[i]
        BY <3>1 DEF Forward
      <3> QED
        BY <1>1, <3>2 DEF At
    <2> QED
      BY <2>2
  <1>3. MovesOn
    <2>1. ToCome(r)' < ToCome(r)
      BY <1>1 DEF ToCome
    <2> QED
      BY <1>1, <1>2, <2>1 DEF MovesOn
  <1>4. Held'
    <2> SUFFICES ASSUME NEW q \in Requests, answer'[q] = "running"
                 PROVE  \E j \in Instances : ~ At(j, "idle")' /\ Req(j)' = q
      BY DEF Held
    <2>1. CASE q = r
      BY <1>1, <2>1 DEF At, Req
    <2>2. CASE q # r
      <3>1. PICK j \in Instances : ~ At(j, "idle") /\ Req(j) = q
        BY <1>1, <2>2 DEF Held
      <3>2. ~ At(j, "idle")' /\ Req(j)' = q
        BY <1>1, <3>1 DEF At, Req
      <3> QED
        BY <3>2
    <2> QED
      BY <2>1, <2>2
  <1>5. Judged'
    BY <1>1 DEF Judged, At, CallOf, DecisionOf, Req
  <1> QED
    BY <1>3, <1>4, <1>5

LEMMA DieMoves ==
    ASSUME TypeOK, Placed, Judged, Held, NEW i \in Instances, Die(i)
    PROVE  MovesOn /\ Held' /\ Judged'
  <1>1. decision' = decision /\ call' = call
    BY DEF Die
  <1>2. CASE At(i, "idle")
    <2>1. inst' = inst /\ answer' = answer
      BY <1>2 DEF Die
    <2>2. \A j \in Instances : ~ Handle(j)
      BY <2>1, StandsStill
    <2>3. \A j \in Instances : CallOf(j)' = CallOf(j)
      BY <1>1, <2>1 DEF CallOf, Req
    <2> QED
      BY <1>1, <2>1, <2>2, <2>3, AsideMoves
  <1>3. CASE ~ At(i, "idle")
    <2>1. Reply(i, "gateway") /\ "gateway" \in Codes
      BY <1>3 DEF Die, Codes
    <2>2. /\ inst'[i].pc = "idle" /\ Ahead(i)' < Ahead(i)
          /\ \A r \in Requests : answer'[r] = answer[r] \/ ToCome(r)' < ToCome(r)
          /\ \A r \in Requests : r # Req(i) => answer'[r] = answer[r]
          /\ answer'[Req(i)] \in Codes
      BY <1>3, <2>1, ReplyMoves
    <2>3. \A j \in Instances : j # i => inst'[j] = inst[j]
      BY <2>1 DEF Reply, TypeOK
    <2>4. ASSUME NEW j \in Instances, Handle(j) PROVE Ahead(j)' < Ahead(j)
      <3>1. Forward(j)
        BY <2>4, HandleForward
      <3>2. CASE \E code \in Codes : Reply(j, code)
        BY <3>1, <3>2, ReplyMoves DEF Forward
      <3> QED
        BY <3>1, <3>2 DEF Forward
    <2>5. MovesOn
      BY <2>2, <2>3, <2>4 DEF MovesOn
    <2>6. Held'
      <3> SUFFICES ASSUME NEW r \in Requests, answer'[r] = "running"
                   PROVE  \E j \in Instances : ~ At(j, "idle")' /\ Req(j)' = r
        BY DEF Held
      <3>1. r # Req(i) /\ answer'[r] = answer[r]
        BY <2>2 DEF Codes
      <3>2. PICK j \in Instances : ~ At(j, "idle") /\ Req(j) = r
        BY <3>1 DEF Held
      <3>3. ~ At(j, "idle")' /\ Req(j)' = r
        BY <2>3, <3>1, <3>2 DEF At, Req
      <3> QED
        BY <3>3
    <2>7. Judged'
      BY <1>1, <2>2, <2>3 DEF Judged, At, CallOf, DecisionOf, Req
    <2> QED
      BY <2>5, <2>6, <2>7
  <1> QED
    BY <1>2, <1>3

(* Callers, API Gateway, the clock and x402. *)
LEMMA OthersMove ==
    ASSUME TypeOK, Placed, Judged, Held,
           (\E r \in Requests : Send(r) \/ TurnAway(r) \/ GiveUp(r)) \/ Tick \/ X402
    PROVE  MovesOn /\ Held' /\ Judged'
  <1>1. inst' = inst /\ decision' = decision
    BY DEF Send, TurnAway, GiveUp, Tick, X402
  <1>2. \A j \in Instances : ~ Handle(j)
    BY <1>1, StandsStill
  <1>3. CASE Tick \/ X402
    <2>1. answer' = answer /\ call' = call
      BY <1>3 DEF Tick, X402
    <2>2. \A j \in Instances : CallOf(j)' = CallOf(j)
      BY <1>1, <2>1 DEF CallOf, Req
    <2> QED
      BY <1>1, <1>2, <2>1, <2>2, AsideMoves
  <1>4. CASE \E r \in Requests : Send(r) \/ TurnAway(r) \/ GiveUp(r)
    <2>1. PICK r \in Requests : Send(r) \/ TurnAway(r) \/ GiveUp(r)
      BY <1>4
    <2>2. ASSUME NEW q \in Requests
          PROVE  answer'[q] = answer[q] \/ (ToCome(q)' < ToCome(q) /\ answer'[q] # "running")
      <3>1. CASE q # r
        BY <2>1, <3>1 DEF Send, TurnAway, GiveUp, TypeOK
      <3>2. CASE q = r
        <4>1. \/ answer[q] = "unsent" /\ answer'[q] = "waiting"
              \/ answer[q] \in {"waiting", "running"} /\ answer'[q] = "gateway"
          BY <2>1, <3>2 DEF Send, TurnAway, GiveUp, TypeOK, Open
        <4> QED
          BY <4>1 DEF ToCome
      <3> QED
        BY <3>1, <3>2
    <2>3. ASSUME NEW j \in Instances, ~ At(j, "idle") PROVE CallOf(j)' = CallOf(j)
      <3>1. Req(j)' = Req(j) /\ answer[Req(j)] \in {"running", "gateway"}
        BY <1>1, <2>3 DEF Placed, Req
      <3>2. call' = call \/ (answer[r] = "unsent" /\ \E c \in Calls : call' = [call EXCEPT ![r] = c])
        BY <2>1 DEF Send, TurnAway, GiveUp
      <3>3. call'[Req(j)] = call[Req(j)]
        BY <2>3, <3>1, <3>2 DEF TypeOK
      <3> QED
        BY <3>1, <3>3 DEF CallOf
    <2> QED
      BY <1>1, <1>2, <2>2, <2>3, AsideMoves
  <1> QED
    BY <1>3, <1>4

LEMMA InitMoves == Init => Held /\ Judged
  BY DEF Init, Held, Judged, At, Idle

LEMMA NextMoves == IInv /\ Judged /\ Held /\ [Next]_vars => [MovesOn]_vars /\ Held' /\ Judged'
  <1>1. ASSUME IInv, Judged, Held, Next PROVE MovesOn /\ Held' /\ Judged'
    BY <1>1, HandleMoves, StartMoves, DieMoves, OthersMove DEF Next, IInv
  <1>2. ASSUME Judged, Held, UNCHANGED vars PROVE Held' /\ Judged'
    BY <1>2 DEF vars, Held, Judged, At, CallOf, DecisionOf, Req
  <1> QED
    BY <1>1, <1>2

(* A handler that runs takes boundedly many steps, each of them closer to  *)
(* its reply, and no answer is ever taken back, whatever the instances,    *)
(* API Gateway, the clock and x402 do in between.                          *)
THEOREM CallsMoveOn == Spec => [][MovesOn]_vars
  <1>1. Init => Held /\ Judged
    BY InitMoves
  <1>2. IInv /\ Judged /\ Held /\ [Next]_vars => [MovesOn]_vars /\ Held' /\ Judged'
    BY NextMoves
  <1> QED
    BY <1>1, <1>2, SpecInvariant, PTL DEF Spec

(* No call is stranded: one that is running is on an instance, and an      *)
(* instance that has a call can take the next step of its handler.         *)
THEOREM NoneStranded ==
    Spec => [](Held /\ \A i \in Instances : ~ At(i, "idle") => Ready(i))
  <1>1. Init => Held /\ Judged
    BY InitMoves
  <1>2. IInv /\ Judged /\ Held /\ [Next]_vars => Held' /\ Judged'
    BY NextMoves
  <1>3. ASSUME TypeOK, Judged, NEW i \in Instances, ~ At(i, "idle") PROVE Ready(i)
    <2>1. inst[i].pc \in Points \ {"idle"} /\ Req(i) \in Requests
      BY <1>3 DEF TypeOK, Doing, At
    <2>2. CallOf(i) \in Call
      <3>1. call \in [Requests -> Calls] /\ Calls \subseteq Call
        BY <1>3, CallsAssumption DEF TypeOK
      <3>2. call[Req(i)] \in Calls
        BY <2>1, <3>1
      <3> QED
        BY <3>1, <3>2 DEF CallOf
    <2>3. CallOf(i).route \in Gated \union {"options", "prime"}
      BY <2>2 DEF Call
    <2>4. CASE At(i, "decided")
      BY <1>3, <2>4 DEF Judged, At, Ready
    <2>5. CASE inst[i].pc # "decided"
      BY <2>1, <2>3, <2>5 DEF Points, At, Ready
    <2> QED
      BY <2>4, <2>5 DEF At
  <1>4. IInv /\ Judged /\ Held => Held /\ \A i \in Instances : ~ At(i, "idle") => Ready(i)
    BY <1>3 DEF IInv
  <1> QED
    BY <1>1, <1>2, <1>4, SpecInvariant, PTL DEF Spec

=============================================================================
