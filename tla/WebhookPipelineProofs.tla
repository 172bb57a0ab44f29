------------------------ MODULE WebhookPipelineProofs ------------------------
(* Proofs about WebhookPipeline, for any events, requests and jobs. *)
EXTENDS WebhookPipeline, FiniteSetTheorems, TLAPS

\* The time of the next retry is a time the row can hold.
LEMMA ScheduleType == \A n \in Nat : Schedule(n) \in {"never", "later"}
BY DEF Schedule

\* A request that has an event keeps its type when it goes on to a later step.
LEMMA GotoType ==
  ASSUME RequestsOK, NEW q \in Requests, NEW e \in Events, NEW step \in RequestSteps \ {"unsent"},
         requests[q].event = {e}, Goto(q, step)
  PROVE  RequestsOK'
BY DEF RequestsOK, Goto

\* The row of one event is replaced by a row.
LEMMA RowType ==
  ASSUME RowsOK, NEW e \in Events, NEW row \in Row, rows' = [rows EXCEPT ![e] = row]
  PROVE  RowsOK'
BY DEF RowsOK

LEMMA ContinueType ==
  ASSUME JobsOK, NEW j \in Jobs, Continue(j)
  PROVE  JobsOK'
<1>1. \A k \in Jobs \ {j} : jobs'[k] = jobs[k]
  BY DEF Continue, JobsOK
<1>2. CASE jobs[j].todo \ jobs[j].event = {}
  <2>1. jobs' = [jobs EXCEPT ![j] = JobRest]
    BY <1>2 DEF Continue
  <2> QED
    BY <2>1 DEF JobRest, JobsOK
<1>3. CASE jobs[j].todo \ jobs[j].event # {}
  <2>1. jobs' = [jobs EXCEPT ![j] = [todo |-> jobs[j].todo \ jobs[j].event, event |-> {}, at |-> "next"]]
    BY <1>3 DEF Continue
  <2> QED
    BY <1>3, <2>1 DEF JobsOK
<1> QED
  BY <1>2, <1>3

\* Each step of a request keeps the types of the requests and of the rows.
LEMMA RequestStepType ==
  ASSUME TypeOK, NEW q \in Requests, NEW e \in Events,
         RequestStep(q, e) \/ Deliver(q, e) \/ EarlyError(q, e)
  PROVE  RequestsOK' /\ RowsOK'
<1> USE DEF TypeOK
<1>1. CASE Deliver(q, e)
  <2>1. RequestsOK'
    <3>1. requests' = [requests EXCEPT ![q].step = "arrive", ![q].event = {e}]
      BY <1>1 DEF Deliver
    <3>2. requests' \in [Requests -> [step : RequestSteps, event : SUBSET Events, outcome : Outcomes]]
      BY <3>1 DEF RequestsOK, RequestSteps
    <3>3. \A p \in Requests : requests'[p].event = {} <=> requests'[p].step = "unsent"
      BY <3>1 DEF RequestsOK
    <3> QED
      BY <3>2, <3>3 DEF RequestsOK
  <2> QED
    BY <1>1, <2>1 DEF Deliver, RowsOK
<1>2. ASSUME NEW step \in RequestSteps \ {"unsent"}, Goto(q, step), requests[q].event = {e}
      PROVE  RequestsOK'
  BY <1>2, GotoType
<1>3. CASE Arrive(q, e)
  BY <1>2, <1>3 DEF Arrive, At, RequestSteps, RowsOK
<1>4. CASE Check(q, e)
  BY <1>2, <1>4 DEF Check, Answer, At, RequestSteps, RowsOK
<1>5. CASE Resolve(q, e)
  BY <1>2, <1>5 DEF Resolve, At, RequestSteps, RowsOK
<1>6. CASE LogEvent(q, e)
  <2>1. RequestsOK'
    BY <1>2, <1>6 DEF LogEvent, Answer, At, RequestSteps
  <2> DEFINE row == [NoRow EXCEPT !.status = "processing"]
  <2>2. row \in Row
    BY DEF NoRow, Row
  <2>3. rows' = rows \/ rows' = [rows EXCEPT ![e] = row]
    BY <1>6 DEF LogEvent
  <2>4. RowsOK'
    BY <2>2, <2>3, RowType DEF RowsOK
  <2> QED
    BY <2>1, <2>4
<1>7. CASE Handle(q, e)
  <2>1. RequestsOK'
    <3>1. CASE Goto(q, "rescue")
      BY <1>2, <1>7, <3>1 DEF Handle, At, RequestSteps
    <3>2. ASSUME NEW o \in Outcomes,
                 requests' = [requests EXCEPT ![q].step = "results", ![q].outcome = o]
          PROVE  RequestsOK'
      BY <1>7, <3>2 DEF Handle, At, RequestsOK, RequestSteps
    <3> QED
      BY <1>7, <3>1, <3>2 DEF Handle, Outcomes
  <2> QED
    BY <1>7, <2>1 DEF Handle, RowsOK
<1>8. CASE Results(q, e)
  <2>1. RequestsOK'
    BY <1>2, <1>8 DEF Results, Answer, At, RequestSteps
  <2>2. requests[q].outcome \in Outcomes
    BY DEF RequestsOK
  <2>3. RowsOK'
    BY <1>8, <2>2 DEF Results, RowsOK, Row
  <2> QED
    BY <2>1, <2>3
<1>9. CASE Rescue(q, e)
  <2>1. RequestsOK'
    BY <1>2, <1>9 DEF Rescue, Answer, At, RequestSteps
  <2>2. rows[e].retries \in Nat /\ Schedule(rows[e].retries) \in {"never", "later"}
    BY ScheduleType DEF RowsOK, Row
  <2>3. RowsOK'
    BY <1>9, <2>2 DEF Rescue, RowsOK, Row, Outcomes
  <2> QED
    BY <2>1, <2>3
<1>10. CASE EarlyError(q, e)
  BY <1>2, <1>10 DEF EarlyError, Answer, At, RequestSteps, RowsOK
<1> QED
  BY <1>1, <1>3, <1>4, <1>5, <1>6, <1>7, <1>8, <1>9, <1>10 DEF RequestStep

\* Each step of the retry job keeps the types of the jobs and of the rows.
LEMMA JobStepType ==
  ASSUME TypeOK, NEW j \in Jobs, JobStep(j)
  PROVE  JobsOK' /\ RowsOK'
<1> USE DEF TypeOK
<1>1. CASE SelectRetries(j)
  <2>1. Retryable \subseteq Events
    BY DEF Retryable
  <2> QED
    BY <1>1, <2>1 DEF SelectRetries, JobsOK, RowsOK
<1>2. ASSUME NEW e \in Events, RetrySync(j, e) PROVE JobsOK' /\ RowsOK'
  BY <1>2 DEF RetrySync, JobsOK, RowsOK
<1>3. ASSUME NEW e \in Events, MarkSuccess(j, e) PROVE JobsOK' /\ RowsOK'
  <2>1. JobsOK'
    <3>1. CASE Continue(j)
      BY <3>1, ContinueType
    <3>2. CASE jobs' = [jobs EXCEPT ![j].at = "failure"]
      BY <1>3, <3>2 DEF MarkSuccess, JobsOK
    <3> QED
      BY <1>3, <3>1, <3>2 DEF MarkSuccess
  <2>2. RowsOK'
    BY <1>3 DEF MarkSuccess, RowsOK, Row, Outcomes
  <2> QED
    BY <2>1, <2>2
<1>4. ASSUME NEW e \in Events, IncrementRetry(j, e) PROVE JobsOK' /\ RowsOK'
  <2>1. JobsOK'
    <3>1. CASE Continue(j)
      BY <3>1, ContinueType
    <3>2. CASE jobs' = [jobs EXCEPT ![j] = JobRest]
      BY <3>2 DEF JobRest, JobsOK
    <3> QED
      BY <1>4, <3>1, <3>2 DEF IncrementRetry
  <2>2. rows[e].retries + 1 \in Nat /\ Schedule(rows[e].retries + 1) \in {"never", "later"}
    <3>1. rows[e].retries + 1 \in Nat
      BY DEF RowsOK, Row
    <3> QED
      BY <3>1, ScheduleType
  <2>3. RowsOK'
    BY <1>4, <2>2 DEF IncrementRetry, RowsOK, Row, Outcomes
  <2> QED
    BY <2>1, <2>3
<1> QED
  BY <1>1, <1>2, <1>3, <1>4 DEF JobStep

\* What may happen is settled by Init.
LEMMA RegimeFixed == [Next]_vars => hazards' = hazards
<1>1. ASSUME NEW q \in Requests, NEW e \in Events,
             Deliver(q, e) \/ RequestStep(q, e) \/ EarlyError(q, e)
      PROVE  hazards' = hazards
  BY <1>1 DEF RequestStep, Deliver, EarlyError, Arrive, Check, Resolve, LogEvent, Handle, Results, Rescue
<1>2. ASSUME NEW e \in Events, EntryExpires(e) \/ RetryDue(e)
      PROVE  hazards' = hazards
  BY <1>2 DEF EntryExpires, RetryDue
<1>3. ASSUME NEW j \in Jobs, JobStep(j)
      PROVE  hazards' = hazards
  BY <1>3 DEF JobStep, SelectRetries, RetrySync, MarkSuccess, IncrementRetry
<1>4. Crash \/ UNCHANGED vars => hazards' = hazards
  BY DEF Crash, vars
<1> QED
  BY <1>1, <1>2, <1>3, <1>4 DEF Next

\* Every variable keeps its type, a request has an event once it is sent, and a
\* job under way has something left to do.
THEOREM TypeCorrect == Spec => []TypeOK
<1>1. Init => TypeOK
  BY DEF Init, TypeOK, RequestsOK, RowsOK, JobsOK, NoRow, JobRest, Row, RequestSteps, Outcomes
<1>2. TypeOK /\ [Next]_vars => TypeOK'
  <2> SUFFICES ASSUME TypeOK, [Next]_vars PROVE TypeOK'
    OBVIOUS
  <2>0. hazards' \in Regimes
    BY RegimeFixed DEF TypeOK
  <2>1. ASSUME NEW q \in Requests, NEW e \in Events,
               RequestStep(q, e) \/ Deliver(q, e) \/ EarlyError(q, e)
        PROVE  TypeOK'
    <3>1. RequestsOK' /\ RowsOK'
      BY <2>1, RequestStepType
    <3>2. jobs' = jobs
      BY <2>1 DEF RequestStep, Deliver, EarlyError, Arrive, Check, Resolve, LogEvent, Handle,
                  Results, Rescue
    <3>3. JobsOK'
      BY <3>2 DEF TypeOK, JobsOK
    <3>4. /\ inFlight' \subseteq Events
          /\ acked' \subseteq Events
      BY <2>1 DEF TypeOK, RequestStep, Deliver, EarlyError, Arrive, Check, Resolve, LogEvent,
                  Handle, Results, Rescue, Answer
    <3>5. /\ done' \subseteq Events /\ left' \subseteq Events
          /\ handled' \in [Events -> Nat]
      BY <2>1 DEF TypeOK, RequestStep, Deliver, EarlyError, Arrive, Check, Resolve, LogEvent,
                  Handle, Return, Results, Rescue
    <3> QED
      BY <2>0, <3>1, <3>3, <3>4, <3>5 DEF TypeOK
  <2>2. ASSUME NEW e \in Events, EntryExpires(e) \/ RetryDue(e) PROVE TypeOK'
    BY <2>0, <2>2 DEF EntryExpires, RetryDue, TypeOK, RequestsOK, RowsOK, JobsOK, Row
  <2>3. ASSUME NEW j \in Jobs, JobStep(j) PROVE TypeOK'
    <3>1. JobsOK' /\ RowsOK'
      BY <2>3, JobStepType
    <3>2. /\ UNCHANGED <<requests, inFlight, acked, handled>>
          /\ done' \subseteq Events /\ left' \subseteq Events
      BY <2>3 DEF TypeOK, JobStep, SelectRetries, RetrySync, Return, MarkSuccess, IncrementRetry
    <3> QED
      BY <2>0, <3>1, <3>2 DEF TypeOK, RequestsOK
  <2>4. CASE Crash
    <3>1. RequestsOK'
      BY <2>4 DEF Crash, TypeOK, RequestsOK, RequestSteps
    <3>2. JobsOK'
      BY <2>4 DEF Crash, JobRest, JobsOK
    <3> QED
      BY <2>0, <2>4, <3>1, <3>2 DEF Crash, TypeOK, RowsOK
  <2>5. CASE UNCHANGED vars
    BY <2>5 DEF vars, TypeOK, RequestsOK, RowsOK, JobsOK
  <2> QED
    BY <2>1, <2>2, <2>3, <2>4, <2>5 DEF Next
<1> QED
  BY <1>1, <1>2, PTL DEF Spec
-----------------------------------------------------------------------------
(* HandledOnce.  What makes it inductive is who may start the handler: only a  *)
(* request at "handle", of which there is at most one for each event, and none *)
(* before the row is there or after the handler was started.                   *)

OnceFor(e) ==
  /\ handled[e] <= 1
  /\ \A q \in Requests : At(q, e, "handle") =>
       /\ Stored(e)
       /\ handled[e] = 0
       /\ \A r \in Requests : At(r, e, "handle") => r = q
  /\ ~Stored(e) => handled[e] = 0

OnceInv == \A e \in Events : OnceFor(e)

\* OnceFor is about the rows, the counts and the requests at "handle" only.
LEMMA OnceFrame ==
  ASSUME NEW e \in Events, OnceFor(e), handled'[e] = handled[e],
         Stored(e) => Stored(e)',
         \A q \in Requests : At(q, e, "handle")' => At(q, e, "handle")
  PROVE  OnceFor(e)'
BY DEF OnceFor

\* A step of request q leaves the other requests where they are.
LEMMA OthersStay ==
  ASSUME TypeOK, NEW q \in Requests, NEW e \in Events,
         RequestStep(q, e) \/ Deliver(q, e) \/ EarlyError(q, e)
  PROVE  \A r \in Requests \ {q} : requests'[r] = requests[r]
BY DEF RequestStep, Deliver, EarlyError, Arrive, Check, Resolve, LogEvent, Handle, Results,
       Rescue, Answer, Goto, TypeOK, RequestsOK

\* The steps of a request that neither write the row nor start the handler.
LEMMA OncePassive ==
  ASSUME TypeOK, OnceInv, NEW q \in Requests, NEW e \in Events,
         \/ Deliver(q, e) \/ Arrive(q, e) \/ Check(q, e) \/ Resolve(q, e) \/ EarlyError(q, e)
         \/ Results(q, e) \/ Rescue(q, e)
  PROVE  OnceInv'
<1> SUFFICES ASSUME NEW f \in Events PROVE OnceFor(f)'
  BY DEF OnceInv
<1>1. OnceFor(f)
  BY DEF OnceInv
<1>2. handled' = handled
  BY DEF Deliver, Arrive, Check, Resolve, EarlyError, Results, Rescue
<1>3. Stored(f) => Stored(f)'
  <2>1. CASE rows' = rows
    BY <2>1 DEF Stored
  <2>2. CASE Results(q, e)
    <3>1. requests[q].outcome # "absent"
      BY DEF TypeOK, RequestsOK, Outcomes
    <3> QED
      BY <2>2, <3>1 DEF Results, Stored, TypeOK, RowsOK, Row
  <2>3. CASE Rescue(q, e)
    BY <2>3 DEF Rescue, Stored, TypeOK, RowsOK, Row
  <2> QED
    BY <2>1, <2>2, <2>3 DEF Deliver, Arrive, Check, Resolve, EarlyError
<1>4. \A r \in Requests : At(r, f, "handle")' => At(r, f, "handle")
  <2>1. requests'[q].step # "handle"
    BY DEF TypeOK, RequestsOK, Deliver, Arrive, Check, Resolve, EarlyError, Results, Rescue,
           Answer, Goto
  <2> QED
    BY <2>1, OthersStay DEF At, RequestStep
<1> QED
  BY <1>1, <1>2, <1>3, <1>4, OnceFrame

\* The insert: the row was not there, so that nobody was at the handler.
LEMMA OnceLog ==
  ASSUME TypeOK, OnceInv, NEW q \in Requests, NEW e \in Events, LogEvent(q, e)
  PROVE  OnceInv'
<1> SUFFICES ASSUME NEW f \in Events PROVE OnceFor(f)'
  BY DEF OnceInv
<1>1. OnceFor(f) /\ handled' = handled
  BY DEF OnceInv, LogEvent
<1>2. \A r \in Requests \ {q} : requests'[r] = requests[r]
  BY OthersStay DEF RequestStep
<1>3. Stored(f) => Stored(f)'
  BY DEF LogEvent, Stored, NoRow, TypeOK, RowsOK
<1>4. CASE Stored(e) \/ f # e
  <2>1. ~At(q, f, "handle")'
    BY <1>4 DEF LogEvent, Answer, At, Goto, TypeOK, RequestsOK
  <2>2. \A r \in Requests : At(r, f, "handle")' => At(r, f, "handle")
    BY <1>2, <2>1 DEF At
  <2> QED
    BY <1>1, <1>3, <2>2, OnceFrame
<1>5. CASE ~Stored(e) /\ f = e
  <2>1. \A r \in Requests : ~At(r, e, "handle")
    BY <1>1, <1>5 DEF OnceFor
  <2>2. \A r \in Requests : At(r, e, "handle")' => r = q
    BY <1>2, <2>1 DEF At
  <2>3. Stored(e)' /\ handled'[e] = 0
    BY <1>1, <1>5 DEF LogEvent, Stored, NoRow, TypeOK, RowsOK, OnceFor
  <2> QED
    BY <1>5, <2>2, <2>3 DEF OnceFor
<1> QED
  BY <1>4, <1>5

\* The handler: the request was the only one there and leaves for good.
LEMMA OnceHandle ==
  ASSUME TypeOK, OnceInv, NEW q \in Requests, NEW e \in Events, Handle(q, e)
  PROVE  OnceInv'
<1> SUFFICES ASSUME NEW f \in Events PROVE OnceFor(f)'
  BY DEF OnceInv
<1>1. OnceFor(f) /\ rows' = rows
  BY DEF OnceInv, Handle
<1>2. \A r \in Requests \ {q} : requests'[r] = requests[r]
  BY OthersStay DEF RequestStep
<1>3. requests'[q].step # "handle"
  BY DEF Handle, Goto, TypeOK, RequestsOK
<1>4. \A r \in Requests : At(r, f, "handle")' => At(r, f, "handle")
  BY <1>2, <1>3 DEF At
<1>5. CASE f # e
  <2>1. handled'[f] = handled[f] /\ (Stored(f) => Stored(f)')
    BY <1>1, <1>5 DEF Handle, Stored, TypeOK
  <2> QED
    BY <1>1, <1>4, <2>1, OnceFrame
<1>6. CASE f = e
  <2>1. At(q, e, "handle")
    BY DEF Handle
  <2>2. Stored(e) /\ handled[e] = 0 /\ \A r \in Requests : At(r, e, "handle") => r = q
    BY <1>1, <1>6, <2>1 DEF OnceFor
  <2>3. \A r \in Requests : ~At(r, e, "handle")'
    BY <1>4, <1>3, <1>6, <2>2 DEF At
  <2>4. handled'[e] = 1 /\ Stored(e)'
    BY <1>1, <2>2 DEF Handle, Stored, TypeOK
  <2> QED
    BY <1>6, <2>3, <2>4 DEF OnceFor
<1> QED
  BY <1>5, <1>6

\* No step of the retry job takes a row away.
LEMMA OnceJob ==
  ASSUME TypeOK, OnceInv, NEW j \in Jobs, JobStep(j)
  PROVE  OnceInv'
<1> SUFFICES ASSUME NEW f \in Events PROVE OnceFor(f)'
  BY DEF OnceInv
<1>1. OnceFor(f)
  BY DEF OnceInv
<1>2. handled' = handled /\ requests' = requests
  BY DEF JobStep, SelectRetries, RetrySync, MarkSuccess, IncrementRetry
<1>3. Stored(f) => Stored(f)'
  <2>1. ASSUME NEW e \in Events, MarkSuccess(j, e) PROVE Stored(f) => Stored(f)'
    BY <2>1 DEF MarkSuccess, Stored, TypeOK, RowsOK, Row
  <2>2. ASSUME NEW e \in Events, IncrementRetry(j, e) PROVE Stored(f) => Stored(f)'
    BY <2>2 DEF IncrementRetry, Stored, TypeOK, RowsOK, Row
  <2>3. CASE rows' = rows
    BY <2>3 DEF Stored
  <2> QED
    BY <2>1, <2>2, <2>3 DEF JobStep, SelectRetries, RetrySync
<1>4. \A r \in Requests : At(r, f, "handle")' => At(r, f, "handle")
  BY <1>2 DEF At
<1> QED
  BY <1>1, <1>2, <1>3, <1>4, OnceFrame

\* processWebhook: the handler of an event is started at most once, whatever
\* crashes, failing statements, expiring entries and repeated deliveries do.
THEOREM HandlersStartOnce == Spec => []HandledOnce
<1>1. Init => OnceInv
  BY DEF Init, OnceInv, OnceFor, Stored, NoRow, At
<1>2. TypeOK /\ OnceInv /\ [Next]_vars => OnceInv'
  <2> SUFFICES ASSUME TypeOK, OnceInv, [Next]_vars PROVE OnceInv'
    OBVIOUS
  <2>1. ASSUME NEW q \in Requests, NEW e \in Events,
               Deliver(q, e) \/ RequestStep(q, e) \/ EarlyError(q, e)
        PROVE  OnceInv'
    BY <2>1, OncePassive, OnceLog, OnceHandle DEF RequestStep
  <2>2. ASSUME NEW e \in Events, EntryExpires(e) \/ RetryDue(e) PROVE OnceInv'
    BY <2>2 DEF EntryExpires, RetryDue, OnceInv, OnceFor, At, Stored, TypeOK, RowsOK, Row
  <2>3. ASSUME NEW j \in Jobs, JobStep(j) PROVE OnceInv'
    BY <2>3, OnceJob
  <2>4. CASE Crash
    <3>1. \A r \in Requests : requests'[r].step # "handle"
      BY <2>4 DEF Crash
    <3> QED
      BY <2>4, <3>1 DEF Crash, OnceInv, OnceFor, At, Stored
  <2>5. CASE UNCHANGED vars
    BY <2>5 DEF vars, OnceInv, OnceFor, At, Stored
  <2> QED
    BY <2>1, <2>2, <2>3, <2>4, <2>5 DEF Next
<1>3. OnceInv => HandledOnce
  BY DEF OnceInv, OnceFor, HandledOnce
<1> QED
  BY <1>1, <1>2, <1>3, TypeCorrect, PTL DEF Spec
-----------------------------------------------------------------------------
(* AckedSettled, while no statement fails, the server stays up and every      *)
(* merchant is known.  The in-flight map matters here: a duplicate answered on *)
(* its word leaves the event to a request that is still at work.               *)

AtRow(e) == \E q \in Requests, step \in {"handle", "results", "rescue"} : At(q, e, step)

SettledFor(e) ==
  /\ Stored(e) => AtRow(e) \/ rows[e].status \in Outcomes
  /\ e \in inFlight => Working(e)
  /\ e \in acked => Working(e) \/ rows[e].status \in Outcomes

SettledInv == \A e \in Events : SettledFor(e)

\* What happens to event e leaves the others alone.
LEMMA SettledOthers ==
  ASSUME TypeOK, SettledInv, NEW q \in Requests, NEW e \in Events, NEW f \in Events \ {e},
         Deliver(q, e) \/ RequestStep(q, e)
  PROVE  SettledFor(f)'
<1>1. SettledFor(f)
  BY DEF SettledInv
<1>2. \A r \in Requests \ {q} : requests'[r] = requests[r]
  BY OthersStay DEF RequestStep
<1>3. requests[q].event \in {{}, {e}} /\ requests'[q].event = {e}
  BY DEF Deliver, RequestStep, Arrive, Check, Resolve, LogEvent, Handle, Results, Rescue,
         Answer, At, Goto, TypeOK, RequestsOK
<1>4. \A r \in Requests, step \in RequestSteps : At(r, f, step)' <=> At(r, f, step)
  BY <1>2, <1>3 DEF At
<1>5. (Working(f)' <=> Working(f)) /\ (AtRow(f)' <=> AtRow(f))
  BY <1>4 DEF Working, AtRow, RequestSteps
<1>6. rows'[f] = rows[f]
  BY DEF Deliver, RequestStep, Arrive, Check, Resolve, LogEvent, Handle, Results, Rescue,
         TypeOK, RowsOK
<1>7. (f \in inFlight' <=> f \in inFlight) /\ (f \in acked' <=> f \in acked)
  BY DEF Deliver, RequestStep, Arrive, Check, Resolve, LogEvent, Handle, Results, Rescue, Answer
<1> QED
  BY <1>1, <1>5, <1>6, <1>7 DEF SettledFor, Stored

\* A request that stays at work on the event, or that leaves it settled.
LEMMA SettledStep ==
  ASSUME TypeOK, SettledInv, NEW q \in Requests, NEW e \in Events,
         Deliver(q, e) \/ RequestStep(q, e), hazards \cap {"unknown", "db_fails"} = {}
  PROVE  SettledFor(e)'
<1>1. SettledFor(e)
  BY DEF SettledInv
<1>2. \A r \in Requests \ {q} : requests'[r] = requests[r]
  BY OthersStay DEF RequestStep
<1>3. \A r \in Requests \ {q}, step \in RequestSteps : At(r, e, step) => At(r, e, step)'
  BY <1>2 DEF At
<1>4. CASE Deliver(q, e)
  <2>1. \A r \in Requests, step \in RequestSteps \ {"unsent"} : At(r, e, step) => At(r, e, step)'
    BY <1>3, <1>4 DEF Deliver, At
  <2>2. (Working(e) => Working(e)') /\ (AtRow(e) => AtRow(e)')
    BY <2>1 DEF Working, AtRow, RequestSteps
  <2> QED
    BY <1>1, <1>4, <2>2 DEF Deliver, SettledFor, Stored
<1>5. CASE Arrive(q, e)
  <2>1. \A r \in Requests, step \in RequestSteps \ {"arrive"} : At(r, e, step) => At(r, e, step)'
    BY <1>3, <1>5 DEF Arrive, At
  <2>2. (Working(e) => Working(e)') /\ (AtRow(e) => AtRow(e)')
    BY <2>1 DEF Working, AtRow, RequestSteps
  <2>3. CASE e \in inFlight
    BY <1>1, <1>5, <2>2, <2>3 DEF Arrive, SettledFor, Stored
  <2>4. CASE e \notin inFlight
    <3>1. At(q, e, "check")'
      BY <1>5, <2>4 DEF Arrive, At, Goto, TypeOK, RequestsOK
    <3>2. Working(e)'
      BY <3>1 DEF Working
    <3> QED
      BY <1>1, <1>5, <2>2, <3>2 DEF Arrive, SettledFor, Stored
  <2> QED
    BY <2>3, <2>4
<1>6. CASE Check(q, e) \/ Resolve(q, e)
  <2>1. AtRow(e) => AtRow(e)'
    <3>1. \A step \in {"handle", "results", "rescue"} : ~At(q, e, step)
      BY <1>6 DEF Check, Resolve, At
    <3> QED
      BY <1>3, <3>1 DEF AtRow, RequestSteps
  <2>2. AtRow(e)' => Working(e)'
    BY DEF AtRow, Working
  <2>3. CASE Answer(q, e)
    <3>1. Stored(e) /\ rows' = rows
      BY <1>6, <2>3 DEF Check, Resolve, Answer, Goto, TypeOK, RequestsOK
    <3> QED
      BY <1>1, <2>1, <2>2, <2>3, <3>1 DEF Answer, SettledFor, Stored
  <2>4. CASE ~Answer(q, e)
    <3>1. At(q, e, "resolve")' \/ At(q, e, "log")'
      BY <1>6, <2>4 DEF Check, Resolve, At, Goto, TypeOK, RequestsOK
    <3>2. Working(e)'
      BY <3>1 DEF Working
    <3>3. rows' = rows
      BY <1>6 DEF Check, Resolve
    <3> QED
      BY <1>1, <2>1, <3>2, <3>3 DEF SettledFor, Stored
  <2> QED
    BY <2>3, <2>4
<1>7. CASE LogEvent(q, e)
  <2>1. CASE Stored(e)
    <3>1. \A step \in {"handle", "results", "rescue"} : ~At(q, e, step)
      BY <1>7 DEF LogEvent, At
    <3>2. AtRow(e) => AtRow(e)'
      BY <1>3, <3>1 DEF AtRow, RequestSteps
    <3>3. AtRow(e)' => Working(e)'
      BY DEF AtRow, Working
    <3> QED
      BY <1>1, <1>7, <2>1, <3>2, <3>3 DEF LogEvent, Answer, SettledFor, Stored
  <2>2. CASE ~Stored(e)
    <3>1. At(q, e, "handle")'
      BY <1>7, <2>2 DEF LogEvent, At, Goto, TypeOK, RequestsOK
    <3> QED
      BY <3>1 DEF SettledFor, AtRow, Working
  <2> QED
    BY <2>1, <2>2
<1>8. CASE Handle(q, e)
  <2>1. At(q, e, "results")' \/ At(q, e, "rescue")'
    BY <1>8 DEF Handle, At, Goto, TypeOK, RequestsOK
  <2> QED
    BY <2>1 DEF SettledFor, AtRow, Working
<1>9. CASE Results(q, e)
  <2>1. requests[q].outcome \in Outcomes
    BY DEF TypeOK, RequestsOK
  <2>2. rows'[e].status \in Outcomes /\ e \notin inFlight'
    BY <1>9, <2>1 DEF Results, Answer, TypeOK, RowsOK, Row
  <2> QED
    BY <2>2 DEF SettledFor
<1>10. CASE Rescue(q, e)
  <2>1. rows'[e].status \in Outcomes /\ e \notin inFlight'
    BY <1>10 DEF Rescue, Answer, TypeOK, RowsOK, Row, Outcomes
  <2> QED
    BY <2>1 DEF SettledFor
<1> QED
  BY <1>4, <1>5, <1>6, <1>7, <1>8, <1>9, <1>10 DEF RequestStep

\* The retry job leaves every row with an outcome.
LEMMA SettledJob ==
  ASSUME TypeOK, SettledInv, NEW j \in Jobs, JobStep(j), "db_fails" \notin hazards
  PROVE  SettledInv'
<1> SUFFICES ASSUME NEW f \in Events PROVE SettledFor(f)'
  BY DEF SettledInv
<1>1. SettledFor(f)
  BY DEF SettledInv
<1>2. UNCHANGED <<requests, inFlight, acked>>
  BY DEF JobStep, SelectRetries, RetrySync, MarkSuccess, IncrementRetry
<1>3. (Working(f)' <=> Working(f)) /\ (AtRow(f)' <=> AtRow(f))
  BY <1>2 DEF Working, AtRow, At
<1>4. rows'[f] = rows[f] \/ rows'[f].status \in Outcomes
  <2>1. ASSUME NEW e \in Events, MarkSuccess(j, e)
        PROVE  rows'[f] = rows[f] \/ rows'[f].status \in Outcomes
    BY <2>1 DEF MarkSuccess, TypeOK, RowsOK, Row, Outcomes
  <2>2. ASSUME NEW e \in Events, IncrementRetry(j, e)
        PROVE  rows'[f] = rows[f] \/ rows'[f].status \in Outcomes
    BY <2>2 DEF IncrementRetry, TypeOK, RowsOK, Row, Outcomes
  <2> QED
    BY <2>1, <2>2 DEF JobStep, SelectRetries, RetrySync
<1> QED
  BY <1>1, <1>2, <1>3, <1>4 DEF SettledFor, Stored

\* processWebhook: no event is acknowledged and then forgotten, however its
\* deliveries overlap, as long as the server stays up, statements succeed and
\* merchants are known.
THEOREM NothingForgotten == Spec => []AckedSettled
<1>1. Init => (Calm => SettledInv)
  BY DEF Init, SettledInv, SettledFor, Stored, NoRow
<1>2. TypeOK /\ (Calm => SettledInv) /\ [Next]_vars => (Calm => SettledInv)'
  <2> SUFFICES ASSUME TypeOK, SettledInv, Calm, [Next]_vars PROVE SettledInv'
    BY RegimeFixed DEF Calm
  <2> USE DEF Calm
  <2>1. ASSUME NEW q \in Requests, NEW e \in Events, Deliver(q, e) \/ RequestStep(q, e)
        PROVE  SettledInv'
    <3> SUFFICES ASSUME NEW f \in Events PROVE SettledFor(f)'
      BY DEF SettledInv
    <3>1. CASE f = e
      BY <2>1, <3>1, SettledStep
    <3>2. CASE f # e
      BY <2>1, <3>2, SettledOthers
    <3> QED
      BY <3>1, <3>2
  <2>2. ASSUME NEW q \in Requests, NEW e \in Events PROVE ~EarlyError(q, e)
    BY DEF EarlyError
  <2>3. ASSUME NEW e \in Events, EntryExpires(e) PROVE SettledInv'
    BY <2>3 DEF EntryExpires, SettledInv, SettledFor, Stored, Working, AtRow, At
  <2>4. ASSUME NEW e \in Events, RetryDue(e) PROVE SettledInv'
    <3>1. \A f \in Events : rows'[f].status = rows[f].status
      BY <2>4 DEF RetryDue, TypeOK, RowsOK, Row
    <3> QED
      BY <2>4, <3>1 DEF RetryDue, SettledInv, SettledFor, Stored, Working, AtRow, At
  <2>5. ASSUME NEW j \in Jobs, JobStep(j) PROVE SettledInv'
    BY <2>5, SettledJob
  <2>6. ~Crash
    BY DEF Crash
  <2>7. CASE UNCHANGED vars
    BY <2>7 DEF vars, SettledInv, SettledFor, Stored, Working, AtRow, At
  <2> QED
    BY <2>1, <2>2, <2>3, <2>4, <2>5, <2>6, <2>7 DEF Next
<1>3. TypeOK /\ (Calm => SettledInv) => AckedSettled
  BY DEF TypeOK, SettledInv, SettledFor, AckedSettled
<1> QED
  BY <1>1, <1>2, <1>3, TypeCorrect, PTL DEF Spec
-----------------------------------------------------------------------------
(* CompletedIsDone.  Between the return and the row that says so, the request  *)
(* remembers its outcome and the run of the job that its sync succeeded.       *)

\* The events a handler or a sync has returned from normally.
Returned == done \cup left

DoneInv ==
  /\ \A q \in Requests, e \in Events :
       At(q, e, "results") /\ requests[q].outcome = "completed" => e \in Returned
  /\ \A j \in Jobs, e \in Syncs :
       jobs[j].at = "success" /\ jobs[j].event = {e} => e \in Returned
  /\ CompletedIsDone

LEMMA DoneRequest ==
  ASSUME TypeOK, DoneInv, NEW q \in Requests, NEW e \in Events,
         Deliver(q, e) \/ RequestStep(q, e) \/ EarlyError(q, e)
  PROVE  DoneInv'
<1>1. jobs' = jobs /\ Returned \subseteq Returned'
  BY DEF Deliver, RequestStep, EarlyError, Arrive, Check, Resolve, LogEvent, Handle, Results,
         Rescue, Return, Returned
<1>2. \A r \in Requests \ {q} : requests'[r] = requests[r]
  BY OthersStay
<1>3. requests'[q].step = "results" /\ requests'[q].outcome = "completed" =>
        requests'[q].event = {e} /\ e \in Returned'
  BY DEF Deliver, RequestStep, EarlyError, Arrive, Check, Resolve, LogEvent, Handle, Results,
         Rescue, Return, Returned, Answer, Goto, At, TypeOK, RequestsOK
<1>4. ASSUME NEW f \in Syncs, rows'[f].status = "completed" PROVE f \in Returned'
  <2>0. f \in Events
    BY EventsAssumption
  <2>1. CASE rows[f].status = "completed"
    BY <1>1, <2>1 DEF DoneInv, CompletedIsDone, Returned
  <2>2. CASE rows[f].status # "completed"
    <3>1. Results(q, e) /\ f = e
      BY <1>4, <2>0, <2>2 DEF Deliver, RequestStep, EarlyError, Arrive, Check, Resolve, LogEvent,
                        Handle, Results, Rescue, NoRow, TypeOK, RowsOK, Row
    <3>2. requests[q].outcome = "completed" /\ At(q, e, "results")
      BY <1>4, <2>0, <2>2, <3>1 DEF Results, TypeOK, RowsOK, Row
    <3> QED
      BY <1>1, <3>1, <3>2 DEF DoneInv
  <2> QED
    BY <2>1, <2>2
<1>5. \A r \in Requests, f \in Events :
        At(r, f, "results")' /\ requests'[r].outcome = "completed" => f \in Returned'
  <2> TAKE r \in Requests, f \in Events
  <2>1. CASE r = q
    BY <1>3, <2>1 DEF At
  <2>2. CASE r # q
    BY <1>1, <1>2, <2>2 DEF At, DoneInv
  <2> QED
    BY <2>1, <2>2
<1>6. \A j \in Jobs, f \in Syncs : jobs'[j].at = "success" /\ jobs'[j].event = {f} => f \in Returned'
  BY <1>1 DEF DoneInv
<1> QED
  BY <1>4, <1>5, <1>6 DEF DoneInv, CompletedIsDone, Returned

LEMMA DoneJob ==
  ASSUME TypeOK, DoneInv, NEW j \in Jobs, JobStep(j)
  PROVE  DoneInv'
<1>1. requests' = requests /\ Returned \subseteq Returned'
  BY DEF JobStep, SelectRetries, RetrySync, Return, Returned, MarkSuccess, IncrementRetry
<1>2. \A k \in Jobs \ {j} : jobs'[k] = jobs[k]
  BY DEF JobStep, SelectRetries, RetrySync, MarkSuccess, IncrementRetry, Continue, TypeOK, JobsOK
<1>3. ASSUME NEW f \in Syncs, jobs'[j].at = "success", jobs'[j].event = {f} PROVE f \in Returned'
  <2>1. CASE SelectRetries(j)
    BY <1>3, <2>1 DEF SelectRetries, TypeOK, JobsOK
  <2>2. ASSUME NEW e \in Events, RetrySync(j, e) PROVE f \in Returned'
    BY <1>3, <2>2 DEF RetrySync, Return, Returned, TypeOK, JobsOK
  <2>3. ASSUME NEW e \in Events, MarkSuccess(j, e) \/ IncrementRetry(j, e) PROVE f \in Returned'
    BY <1>3, <2>3 DEF MarkSuccess, IncrementRetry, Continue, JobRest, TypeOK, JobsOK
  <2> QED
    BY <2>1, <2>2, <2>3 DEF JobStep
<1>4. ASSUME NEW f \in Syncs, rows'[f].status = "completed" PROVE f \in Returned'
  <2>0. f \in Events
    BY EventsAssumption
  <2>1. CASE rows[f].status = "completed"
    BY <1>1, <2>1 DEF DoneInv, CompletedIsDone, Returned
  <2>2. CASE rows[f].status # "completed"
    <3>1. PICK e \in Events : MarkSuccess(j, e) /\ f = e
      <4>1. rows \in [Events -> Row]
        BY DEF TypeOK, RowsOK
      <4>2. ASSUME NEW e \in Events, IncrementRetry(j, e) PROVE FALSE
        BY <1>4, <2>0, <2>2, <4>1, <4>2 DEF IncrementRetry, Row
      <4>3. ASSUME NEW e \in Events, MarkSuccess(j, e), f # e PROVE FALSE
        BY <1>4, <2>0, <2>2, <4>1, <4>3 DEF MarkSuccess, Row
      <4>4. ~ SelectRetries(j) /\ \A e \in Events : ~ RetrySync(j, e)
        BY <1>4, <2>2 DEF SelectRetries, RetrySync
      <4> QED
        BY <4>2, <4>3, <4>4 DEF JobStep
    <3> QED
      BY <1>1, <3>1 DEF MarkSuccess, DoneInv
  <2> QED
    BY <2>1, <2>2
<1>5. \A k \in Jobs, f \in Syncs : jobs'[k].at = "success" /\ jobs'[k].event = {f} => f \in Returned'
  <2> TAKE k \in Jobs, f \in Syncs
  <2>1. CASE k = j
    BY <1>3, <2>1
  <2>2. CASE k # j
    BY <1>1, <1>2, <2>2 DEF DoneInv
  <2> QED
    BY <2>1, <2>2
<1>6. \A r \in Requests, f \in Events :
        At(r, f, "results")' /\ requests'[r].outcome = "completed" => f \in Returned'
  BY <1>1 DEF At, DoneInv
<1> QED
  BY <1>4, <1>5, <1>6 DEF DoneInv, CompletedIsDone, Returned

\* What webhook_events calls completed was returned from normally, by the handler or by the
\* retry job's sync, if the event's type has one: under every hazard, overlapping runs of
\* the job included.  Whether the work was done is what left tells apart.
THEOREM CompletedWasDone == Spec => []CompletedIsDone
<1>1. Init => DoneInv
  BY EventsAssumption DEF Init, DoneInv, CompletedIsDone, Returned, At, NoRow, JobRest
<1>2. TypeOK /\ DoneInv /\ [Next]_vars => DoneInv'
  <2> SUFFICES ASSUME TypeOK, DoneInv, [Next]_vars PROVE DoneInv'
    OBVIOUS
  <2>1. ASSUME NEW e \in Events, EntryExpires(e) \/ RetryDue(e) PROVE DoneInv'
    <3>1. /\ UNCHANGED <<requests, jobs, done, left>>
          /\ \A f \in Events : rows'[f].status = rows[f].status
      BY <2>1 DEF EntryExpires, RetryDue, TypeOK, RowsOK, Row
    <3> QED
      BY <3>1, EventsAssumption DEF DoneInv, CompletedIsDone, Returned, At
  <2>2. CASE Crash
    BY <2>2 DEF Crash, DoneInv, CompletedIsDone, Returned, At, JobRest, TypeOK, RequestsOK
  <2>3. CASE UNCHANGED vars
    BY <2>3 DEF vars, DoneInv, CompletedIsDone, Returned, At
  <2> QED
    BY <2>1, <2>2, <2>3, DoneRequest, DoneJob DEF Next
<1>3. DoneInv => CompletedIsDone
  BY DEF DoneInv
<1> QED
  BY <1>1, <1>2, <1>3, TypeCorrect, PTL DEF Spec
-----------------------------------------------------------------------------
(* FailedIsQueued, while handlers throw their errors and statements succeed:   *)
(* a row is marked failed only together with the time of its next retry.       *)

Thrown == hazards \cap {"error_returned", "db_fails"} = {}
Queued(e) ==
  rows[e].status = "failed" => rows[e].due # "never" \/ rows[e].retries >= MaxRetries
QueuedInv ==
  /\ \A q \in Requests : requests[q].step = "results" => requests[q].outcome # "failed"
  /\ \A e \in Events : Queued(e)

LEMMA ScheduleQueues ==
  ASSUME NEW n \in Nat
  PROVE  Schedule(n) # "never" \/ n >= MaxRetries
BY RetriesAssumption DEF Schedule

\* A failed event that still has retries has a time for the next one.
THEOREM FailedHasItsRetry == Spec => []FailedIsQueued
<1>1. Init => (Thrown => QueuedInv)
  BY DEF Init, QueuedInv, Queued, NoRow
<1>2. TypeOK /\ (Thrown => QueuedInv) /\ [Next]_vars => (Thrown => QueuedInv)'
  <2> SUFFICES ASSUME TypeOK, QueuedInv, Thrown, [Next]_vars PROVE QueuedInv'
    BY RegimeFixed DEF Thrown
  <2> USE DEF Thrown
  <2>0. rows \in [Events -> Row]
    BY DEF TypeOK, RowsOK
  <2>1. ASSUME NEW q \in Requests, NEW e \in Events,
               Deliver(q, e) \/ RequestStep(q, e) \/ EarlyError(q, e)
        PROVE  QueuedInv'
    <3>1. requests'[q].step = "results" => requests'[q].outcome # "failed"
      BY <2>1 DEF Deliver, RequestStep, EarlyError, Arrive, Check, Resolve, LogEvent, Handle,
                  Results, Rescue, Answer, Goto, TypeOK, RequestsOK
    <3>2. \A r \in Requests \ {q} : requests'[r] = requests[r]
      BY <2>1, OthersStay
    <3>3. ASSUME NEW f \in Events PROVE Queued(f)'
      <4>0. Queued(f)
        BY DEF QueuedInv
      <4>1. CASE rows' = rows
        BY <4>0, <4>1 DEF Queued
      <4>2. CASE LogEvent(q, e)
        BY <2>0, <4>0, <4>2 DEF LogEvent, Queued, NoRow
      <4>3. CASE Results(q, e)
        <5>1. requests[q].outcome # "failed"
          BY <4>3 DEF Results, At, QueuedInv
        <5> QED
          BY <2>0, <4>0, <4>3, <5>1 DEF Results, Queued, Row
      <4>4. CASE Rescue(q, e)
        <5>1. rows[e].retries \in Nat
          BY <2>0 DEF Row
        <5>2. rows' = [rows EXCEPT ![e].status = "failed", ![e].due = Schedule(rows[e].retries)]
          BY <4>4 DEF Rescue
        <5> QED
          BY <2>0, <4>0, <5>1, <5>2, ScheduleQueues DEF Queued, Row
      <4> QED
        BY <2>1, <4>1, <4>2, <4>3, <4>4 DEF Deliver, RequestStep, EarlyError, Arrive, Check,
                                           Resolve, Handle
    <3> QED
      BY <3>1, <3>2, <3>3 DEF QueuedInv
  <2>2. ASSUME NEW e \in Events, EntryExpires(e) \/ RetryDue(e) PROVE QueuedInv'
    BY <2>0, <2>2 DEF EntryExpires, RetryDue, QueuedInv, Queued, Row
  <2>3. ASSUME NEW j \in Jobs, JobStep(j) PROVE QueuedInv'
    <3>1. requests' = requests
      BY <2>3 DEF JobStep, SelectRetries, RetrySync, MarkSuccess, IncrementRetry
    <3>2. ASSUME NEW e \in Events, MarkSuccess(j, e), NEW f \in Events PROVE Queued(f)'
      BY <2>0, <3>2 DEF MarkSuccess, QueuedInv, Queued, Row
    <3>3. ASSUME NEW e \in Events, IncrementRetry(j, e), NEW f \in Events PROVE Queued(f)'
      <4> DEFINE n == rows[e].retries + 1
      <4>1. rows' = [rows EXCEPT ![e] = [status |-> "failed", retries |-> n, due |-> Schedule(n)]]
        BY <3>3 DEF IncrementRetry
      <4>2. n \in Nat
        BY <2>0 DEF Row
      <4>3. Schedule(n) # "never" \/ n >= MaxRetries
        BY <4>2, ScheduleQueues
      <4> HIDE DEF n
      <4> QED
        BY <2>0, <4>1, <4>3 DEF QueuedInv, Queued
    <3>4. CASE rows' = rows
      BY <3>1, <3>4 DEF QueuedInv, Queued
    <3> QED
      BY <2>3, <3>1, <3>2, <3>3, <3>4 DEF JobStep, SelectRetries, RetrySync, QueuedInv
  <2>4. CASE Crash
    BY <2>4 DEF Crash, QueuedInv, Queued, TypeOK, RequestsOK
  <2>5. CASE UNCHANGED vars
    BY <2>5 DEF vars, QueuedInv, Queued
  <2> QED
    BY <2>1, <2>2, <2>3, <2>4, <2>5 DEF Next
<1>3. (Thrown => QueuedInv) => FailedIsQueued
  BY DEF Thrown, QueuedInv, Queued, FailedIsQueued
<1> QED
  BY <1>1, <1>2, <1>3, TypeCorrect, PTL DEF Spec

-----------------------------------------------------------------------------
(* How often an event is retried.  A run of the job that overlaps with others  *)
(* retries what it has selected without looking at the count again, so that    *)
(* each run that holds an event may push its count one further.                *)

Holding(e) == {j \in Jobs : e \in jobs[j].todo}

BoundInv ==
  /\ \A j \in Jobs : jobs[j].event \subseteq jobs[j].todo
  /\ \A e \in Events : rows[e].retries + Cardinality(Holding(e)) < MaxRetries + Cardinality(Jobs)

\* The count of an event and the number of the runs that hold it do not grow.
LEMMA BoundFrame ==
  ASSUME TypeOK, IsFiniteSet(Jobs), BoundInv, NEW e \in Events,
         rows'[e].retries \in Nat, rows'[e].retries <= rows[e].retries,
         Holding(e)' \subseteq Holding(e)
  PROVE  rows'[e].retries + Cardinality(Holding(e)') < MaxRetries + Cardinality(Jobs)
<1>1. IsFiniteSet(Holding(e))
  BY FS_Subset DEF Holding
<1>2. /\ Cardinality(Holding(e)') <= Cardinality(Holding(e))
      /\ IsFiniteSet(Holding(e)')
  BY <1>1, FS_Subset
<1>3. Cardinality(Holding(e)) \in Nat /\ Cardinality(Holding(e)') \in Nat /\ Cardinality(Jobs) \in Nat
  BY <1>1, <1>2, FS_CardinalityType
<1>4. rows[e].retries \in Nat /\ MaxRetries \in Nat
  BY RetriesAssumption DEF TypeOK, RowsOK, Row
<1>5. rows[e].retries + Cardinality(Holding(e)) < MaxRetries + Cardinality(Jobs)
  BY DEF BoundInv
<1> QED
  BY <1>2, <1>3, <1>4, <1>5

\* A run that goes on gives the event it has dealt with up.
LEMMA ContinueHolds ==
  ASSUME TypeOK, BoundInv, NEW j \in Jobs, Continue(j)
  PROVE  /\ \A k \in Jobs : jobs'[k].event \subseteq jobs'[k].todo
         /\ \A e \in Events : Holding(e)' \subseteq Holding(e)
         /\ \A e \in Events : jobs[j].event = {e} => j \notin Holding(e)' /\ j \in Holding(e)
<1>1. \A k \in Jobs \ {j} : jobs'[k] = jobs[k]
  BY DEF Continue, TypeOK, JobsOK
<1>2. jobs'[j].event = {} /\ jobs'[j].todo = jobs[j].todo \ jobs[j].event
  <2>1. CASE jobs[j].todo \ jobs[j].event = {}
    BY <2>1 DEF Continue, JobRest, TypeOK, JobsOK
  <2>2. CASE jobs[j].todo \ jobs[j].event # {}
    BY <2>2 DEF Continue, TypeOK, JobsOK
  <2> QED
    BY <2>1, <2>2
<1> QED
  BY <1>1, <1>2 DEF BoundInv, Holding

\* A step that leaves the runs alone does not add to the counts.
LEMMA BoundRequest ==
  ASSUME TypeOK, NEW q \in Requests, NEW e \in Events,
         Deliver(q, e) \/ RequestStep(q, e) \/ EarlyError(q, e)
  PROVE  \A f \in Events : rows'[f].retries \in Nat /\ rows'[f].retries <= rows[f].retries
<1>0. /\ rows \in [Events -> Row]
      /\ \A f \in Events : rows[f].retries \in Nat
  BY DEF TypeOK, RowsOK, Row
<1>1. CASE rows' = rows
  BY <1>0, <1>1
<1>2. CASE LogEvent(q, e)
  BY <1>0, <1>2 DEF LogEvent, NoRow
<1>3. CASE Results(q, e) \/ Rescue(q, e)
  BY <1>0, <1>3 DEF Results, Rescue, Row
<1> QED
  BY <1>1, <1>2, <1>3 DEF Deliver, RequestStep, EarlyError, Arrive, Check, Resolve, Handle

\* The selection takes up only events that have a retry left.
LEMMA BoundSelect ==
  ASSUME TypeOK, IsFiniteSet(Jobs), BoundInv, NEW j \in Jobs, SelectRetries(j)
  PROVE  BoundInv'
<1>1. jobs[j].todo = {} /\ jobs[j].event = {}
  BY DEF SelectRetries, TypeOK, JobsOK, BoundInv
<1>2. /\ \A k \in Jobs \ {j} : jobs'[k] = jobs[k]
      /\ jobs'[j].event = {} /\ jobs'[j].todo = Retryable
      /\ rows' = rows
  BY <1>1 DEF SelectRetries, TypeOK, JobsOK
<1>3. \A k \in Jobs : jobs'[k].event \subseteq jobs'[k].todo
  BY <1>2 DEF BoundInv
<1>4. ASSUME NEW e \in Events
      PROVE  rows'[e].retries + Cardinality(Holding(e)') < MaxRetries + Cardinality(Jobs)
  <2>0. rows[e].retries \in Nat /\ MaxRetries \in Nat
    BY RetriesAssumption DEF TypeOK, RowsOK, Row
  <2>1. CASE e \in Retryable
    <3>1. rows[e].retries < MaxRetries
      BY <2>1 DEF Retryable
    <3>2. Holding(e)' \subseteq Jobs
      BY DEF Holding
    <3>3. /\ Cardinality(Holding(e)') <= Cardinality(Jobs)
          /\ Cardinality(Holding(e)') \in Nat /\ Cardinality(Jobs) \in Nat
      BY <3>2, FS_Subset, FS_CardinalityType
    <3> QED
      BY <1>2, <2>0, <3>1, <3>3
  <2>2. CASE e \notin Retryable
    <3>1. Holding(e)' \subseteq Holding(e)
      BY <1>1, <1>2, <2>2 DEF Holding
    <3> QED
      BY <1>2, <2>0, <3>1, BoundFrame
  <2> QED
    BY <2>1, <2>2
<1> QED
  BY <1>3, <1>4 DEF BoundInv

\* A failing retry counts one and gives the event up.
LEMMA BoundIncrement ==
  ASSUME TypeOK, IsFiniteSet(Jobs), BoundInv, NEW j \in Jobs, NEW e \in Events,
         IncrementRetry(j, e)
  PROVE  BoundInv'
<1>0. /\ rows \in [Events -> Row]
      /\ \A f \in Events : rows[f].retries \in Nat
  BY DEF TypeOK, RowsOK, Row
<1>1. CASE /\ rows' = [rows EXCEPT ![e] = [status |-> "failed", retries |-> rows[e].retries + 1,
                                           due |-> Schedule(rows[e].retries + 1)]]
           /\ Continue(j)
  <2>1. /\ rows'[e].retries = rows[e].retries + 1
        /\ \A f \in Events \ {e} : rows'[f] = rows[f]
    BY <1>0, <1>1
  <2>2. ASSUME NEW f \in Events \ {e}
        PROVE  rows'[f].retries + Cardinality(Holding(f)') < MaxRetries + Cardinality(Jobs)
    BY <1>0, <1>1, <2>1, ContinueHolds, BoundFrame
  <2>3. j \in Holding(e) /\ j \notin Holding(e)' /\ Holding(e)' \subseteq Holding(e)
    BY <1>1, ContinueHolds DEF IncrementRetry
  <2>4. IsFiniteSet(Holding(e))
    BY FS_Subset DEF Holding
  <2>5. /\ Cardinality(Holding(e) \ {j}) = Cardinality(Holding(e)) - 1
        /\ IsFiniteSet(Holding(e) \ {j})
    BY <2>3, <2>4, FS_RemoveElement
  <2>6. Cardinality(Holding(e)') <= Cardinality(Holding(e) \ {j}) /\ IsFiniteSet(Holding(e)')
    BY <2>3, <2>5, FS_Subset
  <2>7. /\ Cardinality(Holding(e)) \in Nat /\ Cardinality(Holding(e)') \in Nat
        /\ Cardinality(Jobs) \in Nat /\ MaxRetries \in Nat /\ rows[e].retries \in Nat
    BY <1>0, <2>4, <2>6, FS_CardinalityType, RetriesAssumption
  <2>8. rows[e].retries + Cardinality(Holding(e)) < MaxRetries + Cardinality(Jobs)
    BY DEF BoundInv
  <2>9. rows'[e].retries + Cardinality(Holding(e)') < MaxRetries + Cardinality(Jobs)
    BY <2>1, <2>5, <2>6, <2>7, <2>8
  <2>10. \A k \in Jobs : jobs'[k].event \subseteq jobs'[k].todo
    BY <1>1, ContinueHolds
  <2> QED
    BY <2>2, <2>9, <2>10 DEF BoundInv
<1>2. CASE rows' = [rows EXCEPT ![e].due = "never"] /\ Continue(j)
  <2>1. \A f \in Events : rows'[f].retries = rows[f].retries
    BY <1>0, <1>2 DEF Row
  <2>2. ASSUME NEW f \in Events
        PROVE  rows'[f].retries + Cardinality(Holding(f)') < MaxRetries + Cardinality(Jobs)
    BY <1>0, <1>2, <2>1, ContinueHolds, BoundFrame
  <2> QED
    BY <1>2, <2>2, ContinueHolds DEF BoundInv
<1>3. CASE jobs' = [jobs EXCEPT ![j] = JobRest] /\ rows' = rows
  <2>1. \A f \in Events : Holding(f)' \subseteq Holding(f)
    BY <1>3 DEF Holding, JobRest, TypeOK, JobsOK
  <2>2. ASSUME NEW f \in Events
        PROVE  rows'[f].retries + Cardinality(Holding(f)') < MaxRetries + Cardinality(Jobs)
    BY <1>0, <1>3, <2>1, BoundFrame
  <2>3. \A k \in Jobs : jobs'[k].event \subseteq jobs'[k].todo
    BY <1>3 DEF BoundInv, JobRest, TypeOK, JobsOK
  <2> QED
    BY <2>2, <2>3 DEF BoundInv
<1> QED
  BY <1>1, <1>2, <1>3 DEF IncrementRetry

LEMMA BoundNext ==
  ASSUME IsFiniteSet(Jobs)
  PROVE  TypeOK /\ BoundInv /\ [Next]_vars => BoundInv'
<1> SUFFICES ASSUME TypeOK, BoundInv, [Next]_vars PROVE BoundInv'
  OBVIOUS
<1>0. /\ rows \in [Events -> Row]
      /\ \A f \in Events : rows[f].retries \in Nat
  BY DEF TypeOK, RowsOK, Row
<1>1. ASSUME jobs' = jobs,
             \A f \in Events : rows'[f].retries \in Nat /\ rows'[f].retries <= rows[f].retries
      PROVE  BoundInv'
  <2>1. \A f \in Events : Holding(f)' = Holding(f)
    BY <1>1 DEF Holding
  <2>2. ASSUME NEW f \in Events
        PROVE  rows'[f].retries + Cardinality(Holding(f)') < MaxRetries + Cardinality(Jobs)
    BY <1>1, <2>1, BoundFrame
  <2> QED
    BY <1>1, <2>2 DEF BoundInv
<1>2. ASSUME NEW q \in Requests, NEW e \in Events,
             Deliver(q, e) \/ RequestStep(q, e) \/ EarlyError(q, e)
      PROVE  BoundInv'
  <2>1. jobs' = jobs
    BY <1>2 DEF Deliver, RequestStep, EarlyError, Arrive, Check, Resolve, LogEvent, Handle,
                Results, Rescue
  <2> QED
    BY <1>1, <1>2, <2>1, BoundRequest
<1>3. ASSUME NEW e \in Events, EntryExpires(e) \/ RetryDue(e) PROVE BoundInv'
  <2>1. jobs' = jobs /\ \A f \in Events : rows'[f].retries = rows[f].retries
    BY <1>0, <1>3 DEF EntryExpires, RetryDue, Row
  <2> QED
    BY <1>0, <1>1, <2>1
<1>4. ASSUME NEW j \in Jobs, NEW e \in Events, RetrySync(j, e) PROVE BoundInv'
  <2>1. /\ \A k \in Jobs : jobs'[k].todo = jobs[k].todo
        /\ \A k \in Jobs : jobs'[k].event \subseteq jobs'[k].todo
        /\ rows' = rows
    BY <1>4 DEF RetrySync, TypeOK, JobsOK, BoundInv
  <2>2. \A f \in Events : Holding(f)' = Holding(f)
    BY <2>1 DEF Holding
  <2> QED
    BY <2>1, <2>2 DEF BoundInv
<1>5. ASSUME NEW j \in Jobs, NEW e \in Events, MarkSuccess(j, e) PROVE BoundInv'
  <2>1. \A f \in Events : rows'[f].retries = rows[f].retries
    BY <1>0, <1>5 DEF MarkSuccess, Row
  <2>2. CASE Continue(j)
    <3>1. ASSUME NEW f \in Events
          PROVE  rows'[f].retries + Cardinality(Holding(f)') < MaxRetries + Cardinality(Jobs)
      BY <1>0, <2>1, <2>2, ContinueHolds, BoundFrame
    <3> QED
      BY <2>2, <3>1, ContinueHolds DEF BoundInv
  <2>3. CASE jobs' = [jobs EXCEPT ![j].at = "failure"]
    <3>1. \A k \in Jobs : jobs'[k].todo = jobs[k].todo /\ jobs'[k].event = jobs[k].event
      BY <2>3 DEF TypeOK, JobsOK
    <3>2. \A f \in Events : Holding(f)' = Holding(f)
      BY <3>1 DEF Holding
    <3> QED
      BY <2>1, <3>1, <3>2 DEF BoundInv
  <2> QED
    BY <1>5, <2>2, <2>3 DEF MarkSuccess
<1>6. CASE Crash
  <2>1. \A f \in Events : Holding(f)' = {}
    BY <1>6 DEF Crash, Holding, JobRest
  <2>2. \A f \in Events : rows'[f].retries = rows[f].retries /\ Holding(f)' \subseteq Holding(f)
    BY <1>6, <2>1 DEF Crash
  <2>3. ASSUME NEW f \in Events
        PROVE  rows'[f].retries + Cardinality(Holding(f)') < MaxRetries + Cardinality(Jobs)
    BY <1>0, <2>2, BoundFrame
  <2> QED
    BY <1>6, <2>3 DEF Crash, JobRest, BoundInv
<1>7. CASE UNCHANGED vars
  BY <1>0, <1>1, <1>7 DEF vars
<1> QED
  BY <1>2, <1>3, <1>4, <1>5, <1>6, <1>7, BoundSelect, BoundIncrement DEF Next, JobStep

\* Each run of the retry job that overlaps with others can push an event's count at
\* most one beyond MaxRetries - 1, the last at which it is still selected: it is
\* retried at most MaxRetries times when runs do not overlap (incrementRetry).
THEOREM RetriesBounded ==
  ASSUME IsFiniteSet(Jobs)
  PROVE  Spec => []\A e \in Events : rows[e].retries < MaxRetries + Cardinality(Jobs)
<1>1. Init => BoundInv
  <2> SUFFICES ASSUME Init PROVE BoundInv
    OBVIOUS
  <2>1. \A e \in Events : Holding(e) = {} /\ rows[e].retries = 0
    BY DEF Init, Holding, JobRest, NoRow
  <2>2. Cardinality({}) = 0 /\ Cardinality(Jobs) \in Nat
    BY FS_EmptySet, FS_CardinalityType
  <2>3. \A j \in Jobs : jobs[j].event \subseteq jobs[j].todo
    BY DEF Init, JobRest
  <2> QED
    BY <2>1, <2>2, <2>3, RetriesAssumption DEF BoundInv
<1>2. TypeOK /\ BoundInv => \A e \in Events : rows[e].retries < MaxRetries + Cardinality(Jobs)
  <2> SUFFICES ASSUME TypeOK, BoundInv, NEW e \in Events
               PROVE  rows[e].retries < MaxRetries + Cardinality(Jobs)
    OBVIOUS
  <2>1. rows[e].retries \in Nat /\ MaxRetries \in Nat
    BY RetriesAssumption DEF TypeOK, RowsOK, Row
  <2>2. IsFiniteSet(Holding(e))
    BY FS_Subset DEF Holding
  <2>3. Cardinality(Holding(e)) \in Nat /\ Cardinality(Jobs) \in Nat
    BY <2>2, FS_CardinalityType
  <2>4. rows[e].retries + Cardinality(Holding(e)) < MaxRetries + Cardinality(Jobs)
    BY DEF BoundInv
  <2> QED
    BY <2>1, <2>3, <2>4
<1> QED
  BY <1>1, <1>2, BoundNext, TypeCorrect, PTL DEF Spec
=============================================================================
