--------------------------- MODULE WebhookPipeline ---------------------------
(***************************************************************************)
(* What happens to a Square webhook: the requests that deliver it, the     *)
(* in-memory set of events in flight, its row in webhook_events, and the   *)
(* job that retries the failed ones.                                       *)
(*                                                                         *)
(* Square delivers an event until a request is answered with a 2xx status, *)
(* and may deliver it again after that.                                    *)
(***************************************************************************)
EXTENDS Integers, FiniteSets

CONSTANTS
  Events,     \* Square event ids
  Syncs,      \* the events whose type the retry job has a sync for
  Requests,   \* deliveries: each brings one event
  Jobs,       \* runs of the retry job that may be under way at the same time
  MaxRetries, \* DEFAULT_MAX_RETRIES
  Regimes     \* what may happen in a behaviour: sets of hazards out of AllHazards

AllHazards ==
  {"crash",          \* the server restarts
   "unknown",        \* the merchant is not found, or not active
   "db_fails",       \* a statement on webhook_events fails
   "expiry",         \* a request outlives its entry in the in-flight map
   "error_returned"} \* a handler reports an error instead of throwing it

ASSUME EventsAssumption == Syncs \subseteq Events
ASSUME RegimesAssumption == Regimes \subseteq SUBSET AllHazards
ASSUME RetriesAssumption == MaxRetries \in Nat \ {0}

VARIABLES
  requests,  \* each request's event and the step it is at
  inFlight,  \* _processingEvents
  rows,      \* webhook_events
  acked,     \* events Square has been told are received
  handled,   \* how often the handler of each event was started
  done,      \* events whose work was done, by the handler or by the retry job
  left,      \* events one of them returned from normally with the work not done
  jobs,      \* the retry job: the events left of its selection, the one it is at
  hazards    \* the regime of the behaviour

vars == <<requests, inFlight, rows, acked, handled, done, left, jobs, hazards>>
-----------------------------------------------------------------------------
RequestSteps == {"unsent", "arrive", "check", "resolve", "log", "handle", "results",
                 "rescue", "answered", "lost"}
Outcomes == {"completed", "failed", "skipped"}
Row      == [status : {"absent", "processing"} \cup Outcomes, retries : Nat,
             due : {"never", "later", "now"}]
NoRow    == [status |-> "absent", retries |-> 0, due |-> "never"]
JobRest  == [todo |-> {}, event |-> {}, at |-> "idle"]

Stored(e) == rows[e].status # "absent"

Init ==
  /\ requests = [q \in Requests |-> [step |-> "unsent", event |-> {}, outcome |-> "completed"]]
  /\ inFlight = {}
  /\ rows = [e \in Events |-> NoRow]
  /\ acked = {}
  /\ handled = [e \in Events |-> 0]
  /\ done = {}
  /\ left = {}
  /\ jobs = [j \in Jobs |-> JobRest]
  /\ hazards \in Regimes
-----------------------------------------------------------------------------
(* processWebhook *)

\* Request q has reached a step with event e.
At(q, e, step) == requests[q].step = step /\ requests[q].event = {e}
Goto(q, step)  == requests' = [requests EXCEPT ![q].step = step]

Deliver(q, e) ==
  /\ requests[q].step = "unsent"
  /\ requests' = [requests EXCEPT ![q].step = "arrive", ![q].event = {e}]
  /\ UNCHANGED <<inFlight, rows, acked, handled, done, left, jobs, hazards>>

\* The answer is a 200; clearEventInFlight comes before it.
Answer(q, e) ==
  /\ Goto(q, "answered")
  /\ acked' = acked \cup {e}
  /\ inFlight' = inFlight \ {e}

\* isEventInFlight
Arrive(q, e) ==
  /\ At(q, e, "arrive")
  /\ IF e \in inFlight
     THEN Goto(q, "answered") /\ acked' = acked \cup {e} /\ UNCHANGED inFlight
     ELSE Goto(q, "check") /\ inFlight' = inFlight \cup {e} /\ UNCHANGED acked
  /\ UNCHANGED <<rows, handled, done, left, jobs, hazards>>

\* isDuplicateEvent
Check(q, e) ==
  /\ At(q, e, "check")
  /\ IF Stored(e) THEN Answer(q, e) ELSE Goto(q, "resolve") /\ UNCHANGED <<inFlight, acked>>
  /\ UNCHANGED <<rows, handled, done, left, jobs, hazards>>

\* resolveMerchant; an unknown merchant is answered with a 400.
Resolve(q, e) ==
  /\ At(q, e, "resolve")
  /\ \/ Goto(q, "log") /\ UNCHANGED inFlight
     \/ "unknown" \in hazards /\ Goto(q, "answered") /\ inFlight' = inFlight \ {e}
  /\ UNCHANGED <<rows, acked, handled, done, left, jobs, hazards>>

\* Mutant: the insert does not mind a row that is there.
LogAgain(q, e) ==
  /\ At(q, e, "log")
  /\ rows' = [rows EXCEPT ![e] = [NoRow EXCEPT !.status = "processing"]]
  /\ Goto(q, "handle")
  /\ UNCHANGED <<inFlight, acked, handled, done, left, jobs, hazards>>

\* logEvent: square_event_id is unique, so that a second insert throws and the
\* request is answered without a row of its own.
LogEvent(q, e) ==
  /\ At(q, e, "log")
  /\ IF Stored(e)
     THEN Answer(q, e) /\ UNCHANGED rows
     ELSE /\ rows' = [rows EXCEPT ![e] = [NoRow EXCEPT !.status = "processing"]]
          /\ Goto(q, "handle")
          /\ UNCHANGED <<inFlight, acked>>
  /\ UNCHANGED <<handled, done, left, jobs, hazards>>

\* A statement before the row is written fails: the catch clause finds no
\* webhookEventId and answers all the same.
EarlyError(q, e) ==
  /\ "db_fails" \in hazards
  /\ \E step \in {"check", "resolve", "log"} : At(q, e, step)
  /\ Answer(q, e)
  /\ UNCHANGED <<rows, handled, done, left, jobs, hazards>>

\* A normal return: the work was done; or it was left to a sync that is under way and
\* may still fail ({queued: true}), or to nobody, where an error was passed over (the
\* batches of syncInventory).
Return(e) ==
  \/ done' = done \cup {e} /\ UNCHANGED left
  \/ left' = left \cup {e} /\ UNCHANGED done

\* routeEvent: the handler returns, skips its work, throws or returns an error.
Handle(q, e) ==
  /\ At(q, e, "handle")
  /\ handled' = [handled EXCEPT ![e] = @ + 1]
  /\ \/ /\ requests' = [requests EXCEPT ![q].step = "results", ![q].outcome = "completed"]
        /\ Return(e)
     \/ /\ requests' = [requests EXCEPT ![q].step = "results", ![q].outcome = "skipped"]
        /\ UNCHANGED <<done, left>>
     \/ Goto(q, "rescue") /\ UNCHANGED <<done, left>>
     \/ /\ "error_returned" \in hazards
        /\ requests' = [requests EXCEPT ![q].step = "results", ![q].outcome = "failed"]
        /\ UNCHANGED <<done, left>>
  /\ UNCHANGED <<inFlight, rows, acked, jobs, hazards>>

\* Mutant: the result is not looked at.
AllCompleted(q, e) ==
  /\ At(q, e, "results")
  /\ rows' = [rows EXCEPT ![e].status = "completed"]
  /\ Answer(q, e)
  /\ UNCHANGED <<handled, done, left, jobs, hazards>>

\* updateEventResults leaves next_retry_at alone.
Results(q, e) ==
  /\ At(q, e, "results")
  /\ \/ rows' = [rows EXCEPT ![e].status = requests[q].outcome] /\ Answer(q, e)
     \/ "db_fails" \in hazards /\ Goto(q, "rescue") /\ UNCHANGED <<rows, acked, inFlight>>
  /\ UNCHANGED <<handled, done, left, jobs, hazards>>

Schedule(retries) == IF retries < MaxRetries THEN "later" ELSE "never"

\* Mutant: the row is marked failed without a time for the retry.
RescueUnscheduled(q, e) ==
  /\ At(q, e, "rescue")
  /\ rows' = [rows EXCEPT ![e].status = "failed"]
  /\ Answer(q, e)
  /\ UNCHANGED <<handled, done, left, jobs, hazards>>

\* Mutant: the error is answered and not written down.
RescueUnmarked(q, e) ==
  /\ At(q, e, "rescue")
  /\ Answer(q, e)
  /\ UNCHANGED <<rows, handled, done, left, jobs, hazards>>

\* The catch clause: markForRetry, whose failure is passed over.
Rescue(q, e) ==
  /\ At(q, e, "rescue")
  /\ \/ rows' = [rows EXCEPT ![e].status = "failed", ![e].due = Schedule(rows[e].retries)]
     \/ "db_fails" \in hazards /\ UNCHANGED rows
  /\ Answer(q, e)
  /\ UNCHANGED <<handled, done, left, jobs, hazards>>

\* Entries older than 60 seconds are dropped.
EntryExpires(e) ==
  /\ "expiry" \in hazards
  /\ e \in inFlight
  /\ inFlight' = inFlight \ {e}
  /\ UNCHANGED <<requests, rows, acked, handled, done, left, jobs, hazards>>
-----------------------------------------------------------------------------
(* processWebhookRetries *)

RetryDue(e) ==
  /\ rows[e].status = "failed"
  /\ rows[e].due = "later"
  /\ rows' = [rows EXCEPT ![e].due = "now"]
  /\ UNCHANGED <<requests, inFlight, acked, handled, done, left, jobs, hazards>>

Retryable == {e \in Events : /\ rows[e].status = "failed"
                             /\ rows[e].due = "now"
                             /\ rows[e].retries < MaxRetries}

\* getEventsForRetry does not claim what it selects.
SelectRetries(j) ==
  /\ Retryable # {}
  /\ jobs[j].at = "idle"
  /\ jobs' = [jobs EXCEPT ![j].todo = Retryable, ![j].at = "next"]
  /\ UNCHANGED <<requests, inFlight, rows, acked, handled, done, left, hazards>>

\* The merchant is looked up and the sync for the event's type is run; for an
\* event of any other type nothing is done, which counts as a success.
RetrySync(j, e) ==
  /\ jobs[j].at = "next"
  /\ e \in jobs[j].todo
  /\ \/ /\ jobs' = [jobs EXCEPT ![j].event = {e}, ![j].at = "success"]
        /\ IF e \in Syncs THEN Return(e) ELSE UNCHANGED <<done, left>>
     \/ /\ jobs' = [jobs EXCEPT ![j].event = {e}, ![j].at = "failure"]
        /\ UNCHANGED <<done, left>>
  /\ UNCHANGED <<requests, inFlight, rows, acked, handled, hazards>>

\* The loop goes on with the rest of the selection.
Continue(j) ==
  LET rest == jobs[j].todo \ jobs[j].event
  IN  jobs' = [jobs EXCEPT ![j] = IF rest = {} THEN JobRest
                                  ELSE [todo |-> rest, event |-> {}, at |-> "next"]]

MarkSuccess(j, e) ==
  /\ jobs[j].at = "success"
  /\ jobs[j].event = {e}
  /\ \/ /\ rows' = [rows EXCEPT ![e].status = "completed", ![e].due = "never"]
        /\ Continue(j)
     \/ /\ "db_fails" \in hazards
        /\ jobs' = [jobs EXCEPT ![j].at = "failure"]
        /\ UNCHANGED rows
  /\ UNCHANGED <<requests, inFlight, acked, handled, done, left, hazards>>

\* Mutant: the retry is not counted.
RescheduleOnly(j, e) ==
  /\ jobs[j].at = "failure"
  /\ jobs[j].event = {e}
  /\ rows' = [rows EXCEPT ![e].status = "failed", ![e].due = Schedule(rows[e].retries)]
  /\ Continue(j)
  /\ UNCHANGED <<requests, inFlight, acked, handled, done, left, hazards>>

\* When the update fails, retries are stopped by force; when that fails too the
\* error ends the run.
IncrementRetry(j, e) ==
  LET retries == rows[e].retries + 1
  IN  /\ jobs[j].at = "failure"
      /\ jobs[j].event = {e}
      /\ \/ /\ rows' = [rows EXCEPT ![e] = [status |-> "failed", retries |-> retries,
                                            due |-> Schedule(retries)]]
            /\ Continue(j)
         \/ /\ "db_fails" \in hazards
            /\ rows' = [rows EXCEPT ![e].due = "never"]
            /\ Continue(j)
         \/ /\ "db_fails" \in hazards
            /\ jobs' = [jobs EXCEPT ![j] = JobRest]
            /\ UNCHANGED rows
      /\ UNCHANGED <<requests, inFlight, acked, handled, done, left, hazards>>
-----------------------------------------------------------------------------
(* The server is restarted: what is not in the database is gone. *)

Crash ==
  /\ "crash" \in hazards
  /\ requests' = [q \in Requests |->
       IF requests[q].step \in {"unsent", "answered"} THEN requests[q]
       ELSE [requests[q] EXCEPT !.step = "lost"]]
  /\ inFlight' = {}
  /\ jobs' = [j \in Jobs |-> JobRest]
  /\ UNCHANGED <<rows, acked, handled, done, left, hazards>>

RequestStep(q, e) ==
  \/ Arrive(q, e) \/ Check(q, e) \/ Resolve(q, e) \/ LogEvent(q, e)
  \/ Handle(q, e) \/ Results(q, e) \/ Rescue(q, e)

JobStep(j) ==
  \/ SelectRetries(j)
  \/ \E e \in Events : RetrySync(j, e) \/ MarkSuccess(j, e) \/ IncrementRetry(j, e)

Next ==
  \/ \E q \in Requests, e \in Events : Deliver(q, e) \/ RequestStep(q, e) \/ EarlyError(q, e)
  \/ \E e \in Events : EntryExpires(e) \/ RetryDue(e)
  \/ \E j \in Jobs : JobStep(j)
  \/ Crash

Spec == Init /\ [][Next]_vars

\* The job is scheduled for ever, and what is due later comes due.
FairSpec ==
  /\ Spec
  /\ \A j \in Jobs : WF_vars(JobStep(j))
  /\ \A e \in Events : WF_vars(RetryDue(e))
-----------------------------------------------------------------------------
RequestsOK ==
  /\ requests \in [Requests -> [step : RequestSteps, event : SUBSET Events, outcome : Outcomes]]
  /\ \A q \in Requests : requests[q].event = {} <=> requests[q].step = "unsent"

JobsOK ==
  /\ jobs \in [Jobs -> [todo : SUBSET Events, event : SUBSET Events,
                        at : {"idle", "next", "success", "failure"}]]
  /\ \A j \in Jobs : jobs[j].at = "idle" <=> jobs[j].todo = {}

RowsOK == rows \in [Events -> Row]

(* A request has an event once it is sent, and a job that is under way has *)
(* something left to do.                                                   *)
TypeOK ==
  /\ RequestsOK
  /\ RowsOK
  /\ JobsOK
  /\ handled \in [Events -> Nat]
  /\ inFlight \subseteq Events /\ acked \subseteq Events
  /\ done \subseteq Events /\ left \subseteq Events
  /\ hazards \in Regimes

(* However often an event is delivered, and whatever fails, its handler is *)
(* started at most once: the claim is the unique square_event_id, not the  *)
(* in-memory map, which a restart or a slow request empties.               *)
HandledOnce == \A e \in Events : handled[e] <= 1

\* Some request that found event e neither in flight nor stored is at work on it.
Working(e) ==
  \E q \in Requests, step \in {"check", "resolve", "log", "handle", "results", "rescue"} :
    At(q, e, step)

\* The server stays up, statements succeed and merchants are known.
Calm == hazards \cap {"unknown", "crash", "db_fails"} = {}

(* The catch clause of processWebhook says that a failed event is stored   *)
(* and retried.  When all is calm, an event Square has been told is        *)
(* received has a row, which says how it ended unless a request is still   *)
(* at it.                                                                  *)
AckedSettled ==
  Calm => \A e \in acked : Working(e) \/ rows[e].status \in Outcomes

(* If the retry job has a sync for its type, a completed event is one that  *)
(* its handler or that sync returned from normally: never one whose handler *)
(* threw, reported an error, skipped it or was cut off by a restart, with   *)
(* no retry that went through.  A normal return is not yet the work: the    *)
(* two exceptions are named by left, {queued: true} while another sync runs *)
(* (catalog-handler.js, inventory-handler.js), which may fail and forget    *)
(* it, and batches of syncInventory that failed.                            *)
CompletedIsDone ==
  \A e \in Syncs : rows[e].status = "completed" => e \in done \cup left

(* A failed event has a time for its next retry until it has had them all, *)
(* as long as handlers throw their errors and statements succeed.          *)
FailedIsQueued ==
  hazards \cap {"error_returned", "db_fails"} = {} =>
    \A e \in Events : rows[e].status = "failed" =>
                        rows[e].due # "never" \/ rows[e].retries >= MaxRetries

(* A failed event does not stay in the queue: a retry succeeds or the      *)
(* retries run out, if the job is not stopped by failures and restarts.    *)
RetriesEnd ==
  hazards \cap {"crash", "db_fails"} = {} =>
    \A e \in Events : (rows[e].due # "never") ~> (rows[e].due = "never")
=============================================================================
