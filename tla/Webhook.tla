------------------------------- MODULE Webhook -------------------------------
(***************************************************************************)
(* Webhooks from the HTTP request that carries one to its effect on the    *)
(* ledger: the receiver, the dedupe table, the job queue with its retries, *)
(* and the worker that dispatches a job and records its outcome.  Shopify  *)
(* and the queue are external.  What an effect is worth is the subject of  *)
(* Ledger; here it matters only whether, and how often, it is made.        *)
(***************************************************************************)
EXTENDS Integers, FiniteSets

CONSTANTS
    Event,      \* X-Shopify-Webhook-Ids
    Kind,       \* what an event asks for
    Subject,    \* the order, or for a signup the customer, it is about
    Copies,     \* how often Shopify may send each event
    Scenario,   \* the sets of copies that may be sent in one behaviour
    RetryLimit  \* the queue's default retryLimit

(* "earn" is customers/create, or orders/paid of an order worth a point or *)
(* more; "trifle" is orders/paid of one worth less; "clawback" is a refund *)
(* or a cancellation.  Events that ask for nothing are left out.           *)
ASSUME WebhookConstants ==
    /\ Kind \in [Event -> {"earn", "trifle", "clawback"}]
    /\ DOMAIN Subject = Event
    /\ Copies \in [Event -> Nat]
    /\ RetryLimit \in Nat

Request == UNION {{e} \X (1..Copies[e]) : e \in Event}

ASSUME ScenarioAssumption == Scenario \subseteq SUBSET Request

(* A handler is one delivery of the job of an event.                       *)
Handler == Event \X (1..(RetryLimit + 1))

VARIABLES
    request,    \* how far each request has come
    row,        \* webhook_events.status
    job,        \* the queue's row for the job of each event
    handler,    \* how far each handler has come
    effects,    \* transactions of an event that changed the member's rows
    overlapped  \* a handler has been running after its delivery expired

vars == <<request, row, job, handler, effects, overlapped>>

(* "recorded" is between the insert and the hand-off; "lost" is an error   *)
(* after the insert.                                                       *)
RequestState == {"unsent", "new", "recorded", "accepted", "duplicate", "refused", "lost"}

JobState == {"none", "queued", "active", "completed", "failed"}

Step == {"idle", "dispatch", "claw", "succeeded", "threw", "ended"}

Running == {"dispatch", "claw", "succeeded", "threw"}

Init ==
    /\ \E sent \in Scenario :
          request = [r \in Request |-> IF r \in sent THEN "new" ELSE "unsent"]
    /\ row = [e \in Event |-> "absent"]
    /\ job = [e \in Event |-> [state |-> "none", deliveries |-> 0]]
    /\ handler = [h \in Handler |-> "idle"]
    /\ effects = [e \in Event |-> 0]
    /\ overlapped = FALSE
-----------------------------------------------------------------------------
(* The receiver.                                                           *)

(* Fault: the insert does not meet the unique constraint.                  *)
NewEachTime(e) == TRUE

RecordIfNew(e) == row[e] = "absent"

(* The insert decides which of the copies goes on.                         *)
Receive(r) ==
    LET e == r[1] IN
    /\ request[r] = "new"
    /\ IF RecordIfNew(e)
       THEN /\ request' = [request EXCEPT ![r] = "recorded"]
            /\ row' = [row EXCEPT ![e] = "received"]
       ELSE /\ request' = [request EXCEPT ![r] = "duplicate"]
            /\ UNCHANGED row
    /\ UNCHANGED <<job, handler, effects, overlapped>>

(* The insert fails: a 5xx, and Shopify may send the event again.          *)
ReceiveFails(r) ==
    /\ request[r] = "new"
    /\ request' = [request EXCEPT ![r] = "refused"]
    /\ UNCHANGED <<row, job, handler, effects, overlapped>>

Queued(e) == [job EXCEPT ![e].state = "queued"]

HandOff(r) ==
    /\ request[r] = "recorded"
    /\ request' = [request EXCEPT ![r] = "accepted"]
    /\ job' = Queued(r[1])
    /\ UNCHANGED <<row, handler, effects, overlapped>>

(* The queue is down, or the process dies: the job may be there or not.    *)
HandOffFails(r) ==
    /\ request[r] = "recorded"
    /\ request' = [request EXCEPT ![r] = "lost"]
    /\ job' \in {job, Queued(r[1])}
    /\ UNCHANGED <<row, handler, effects, overlapped>>
-----------------------------------------------------------------------------
(* The queue.                                                              *)

Current(h) == job[h[1]].state = "active" /\ job[h[1]].deliveries = h[2]

(* Fault: one delivery too many.                                           *)
RetriedOnceMore(j) == IF j.deliveries > RetryLimit + 1 THEN "failed" ELSE "queued"

Retried(j) == IF j.deliveries > RetryLimit THEN "failed" ELSE "queued"

Deliver(e) ==
    /\ job[e].state = "queued"
    /\ job' = [job EXCEPT ![e] = [state |-> "active", deliveries |-> @.deliveries + 1]]
    /\ handler' = [handler EXCEPT ![<<e, job[e].deliveries + 1>>] = "dispatch"]
    /\ UNCHANGED <<request, row, effects, overlapped>>

(* The delivery runs out of time; a handler that still runs is not stopped.*)
Expire(e) ==
    /\ job[e].state = "active"
    /\ job' = [job EXCEPT ![e].state = Retried(job[e])]
    /\ overlapped' = (overlapped \/ handler[<<e, job[e].deliveries>>] \in Running)
    /\ UNCHANGED <<request, row, handler, effects>>

(* The queue learns the outcome if it still waits for this delivery.       *)
Report(h, outcome) ==
    job' = IF Current(h) THEN [job EXCEPT ![h[1]].state = outcome] ELSE job
-----------------------------------------------------------------------------
(* The worker.                                                             *)

Goto(h, step) == handler' = [handler EXCEPT ![h] = step]

(* Fault: the guard looks for the webhook id instead of the order.         *)
EarnedByThisEvent(e) == effects[e] > 0

(* The ledger has an earning of the subject.                               *)
Earned(s) == \E e \in Event : Kind[e] = "earn" /\ Subject[e] = s /\ effects[e] > 0

AlreadyEarned(e) == Earned(Subject[e])

Effect(e) == effects' = [effects EXCEPT ![e] = @ + 1]

(* The commit; its answer may be lost, which the handler takes for a       *)
(* failure.                                                                *)
Commit(h) == \E step \in {"succeeded", "threw"} : Goto(h, step)

(* A signup or an order.  The upsert of the customer locks the row first,  *)
(* so the whole transaction is one step.  A trifle is added to the         *)
(* lifetime spend, and leaves no entry by which a replay could be told.    *)
Earn(h) ==
    LET e == h[1] IN
    /\ handler[h] = "dispatch"
    /\ Kind[e] \in {"earn", "trifle"}
    /\ IF AlreadyEarned(e) THEN UNCHANGED effects ELSE Effect(e)
    /\ Commit(h)
    /\ UNCHANGED <<request, row, job, overlapped>>

DuplicateEvent(e) == effects[e] > 0

(* A clawback locks no customer: what it looked up may have changed when   *)
(* it commits.                                                             *)
LookUp(h) ==
    LET e == h[1] IN
    /\ handler[h] = "dispatch"
    /\ Kind[e] = "clawback"
    /\ IF Earned(Subject[e]) /\ ~DuplicateEvent(e) THEN Goto(h, "claw") ELSE Commit(h)
    /\ UNCHANGED <<request, row, job, effects, overlapped>>

(* The commit of a clawback, with an effect unless nothing is left to take *)
(* or the amount is none.                                                  *)
Claw(h) ==
    /\ handler[h] = "claw"
    /\ UNCHANGED effects \/ Effect(h[1])
    /\ Commit(h)
    /\ UNCHANGED <<request, row, job, overlapped>>

(* Fault: the error is logged and no more.                                 *)
ErrorSwallowed(h) == Goto(h, "succeeded")

CatchError(h) == Goto(h, "threw")

(* A payload that cannot be used, or the database fails a statement.       *)
DispatchFails(h) ==
    /\ handler[h] \in {"dispatch", "claw"}
    /\ CatchError(h)
    /\ UNCHANGED <<request, row, job, effects, overlapped>>

(* MARK_PROCESSED_SQL; a failure of it is swallowed.                       *)
MarkProcessed(h) ==
    /\ handler[h] = "succeeded"
    /\ row' \in {row, [row EXCEPT ![h[1]] = "processed"]}
    /\ Goto(h, "ended")
    /\ Report(h, "completed")
    /\ UNCHANGED <<request, effects, overlapped>>

(* MARK_FAILED_SQL sets the status only while it is "received".            *)
FailedFromReceived(e) == IF row[e] = "received" THEN "failed" ELSE row[e]

(* Fault: the error is not thrown again.                                   *)
NotRethrown(h) == Report(h, "completed")

Rethrow(h) == Report(h, Retried(job[h[1]]))

MarkFailed(h) ==
    /\ handler[h] = "threw"
    /\ row' \in {row, [row EXCEPT ![h[1]] = FailedFromReceived(h[1])]}
    /\ Goto(h, "ended")
    /\ Rethrow(h)
    /\ UNCHANGED <<request, effects, overlapped>>

(* The process dies with all its handlers; the queue is told nothing.      *)
WorkerDies ==
    /\ \E h \in Handler : handler[h] \in Running
    /\ handler' = [h \in Handler |-> IF handler[h] \in Running THEN "ended" ELSE handler[h]]
    /\ UNCHANGED <<request, row, job, effects, overlapped>>
-----------------------------------------------------------------------------
HandlerStep(h) ==
    Earn(h) \/ LookUp(h) \/ Claw(h) \/ MarkProcessed(h) \/ MarkFailed(h)

Next ==
    \/ \E r \in Request : Receive(r) \/ ReceiveFails(r) \/ HandOff(r) \/ HandOffFails(r)
    \/ \E e \in Event : Deliver(e) \/ Expire(e)
    \/ \E h \in Handler : HandlerStep(h) \/ DispatchFails(h)
    \/ WorkerDies

Spec == Init /\ [][Next]_vars

(* Shopify sends its copies, the queue delivers what it holds and expires  *)
(* what is not answered, and what runs goes on.  Each is asked of some     *)
(* request, job or handler, not of every one; nothing need fail.           *)
Fairness ==
    /\ WF_vars(\E r \in Request : Receive(r) \/ HandOff(r))
    /\ WF_vars(\E e \in Event : Deliver(e) \/ Expire(e))
    /\ WF_vars(\E h \in Handler : HandlerStep(h))

FairSpec == Spec /\ Fairness

-----------------------------------------------------------------------------
TypeOK ==
    /\ request \in [Request -> RequestState]
    /\ row \in [Event -> {"absent", "received", "processed", "failed"}]
    /\ job \in [Event -> [state : JobState, deliveries : 0..(RetryLimit + 1)]]
    /\ handler \in [Handler -> Step]
    /\ effects \in [Event -> 0..(RetryLimit + 1)]
    /\ overlapped \in BOOLEAN

(* Req 12.4: of all the copies of an event, however they race, one gets    *)
(* past the insert, and a job exists only for an event that is recorded.   *)
AcceptedOnce ==
    /\ \A e \in Event :
          Cardinality({r \in Request : r[1] = e /\ request[r] \in {"recorded", "accepted", "lost"}})
              = IF row[e] = "absent" THEN 0 ELSE 1
    /\ \A e \in Event : row[e] = "absent" => job[e].state = "none"

(* An order or a signup earns once, whatever webhook ids, retries, lost    *)
(* commits and overlapping handlers stand for it; and (Req 4.9, as far as  *)
(* the code goes) an event claws back once, and only from an order that    *)
(* has earned, unless one of its handlers outlived a delivery.             *)
AppliedOnce ==
    /\ \A e, f \in Event :
          Kind[e] = "earn" /\ Kind[f] = "earn" /\ Subject[e] = Subject[f] =>
              effects[e] + (IF e = f THEN 0 ELSE effects[f]) <= 1
    /\ \A e \in Event : Kind[e] = "clawback" =>
          /\ effects[e] > 0 => Earned(Subject[e])
          /\ effects[e] > 1 => overlapped

(* What webhook_events calls processed has been earned, by this event or   *)
(* by another about the same order.                                        *)
ProcessedIsTrue ==
    \A e \in Event : row[e] = "processed" =>
        Kind[e] = "clawback" \/ Earned(Subject[e]) \/ effects[e] > 0

(* The job of an event that reaches the queue does not stay there: it ends *)
(* as a failed job or the handler has done its work.                       *)
Settled(e) ==
    \/ job[e].state = "failed"
    \/ IF Kind[e] = "clawback"
       THEN job[e].state = "completed"
       ELSE Earned(Subject[e]) \/ effects[e] > 0

HandedOffSettles == \A e \in Event : job[e].state = "queued" ~> Settled(e)
-----------------------------------------------------------------------------
(* What the documents say and the code does not do.                        *)

(* Req 12.4: the identifier is recorded and handed off for exactly one of  *)
(* the copies.                                                             *)
RecordedIsHandedOff ==
    \A e \in Event : row[e] = "received" ~> job[e].state # "none"
=============================================================================
