----------------------------- MODULE Redemption -----------------------------
(***************************************************************************)
(* One redemption from the HTTP requests that carry its idempotency key to *)
(* the discount code: the /v1 idempotency store, the redeem transaction,   *)
(* the job queue with its retries, and the worker that mints the code at   *)
(* Shopify and then saves it or gives the points back.  The queue and      *)
(* Shopify are external.  Each step is one database statement or one call, *)
(* except for the redeem transaction, which the customer's row lock makes  *)
(* one step.                                                               *)
(***************************************************************************)
EXTENDS Integers, FiniteSets

CONSTANTS
    Request,            \* the client's request and its retries
    MaxAttempts,        \* BackoffParams.maxAttempts
    HardFailureStreak,  \* failures in a row that end the calls
    RetryLimit,         \* the queue's default retryLimit
    None                \* SQL NULL, or nobody

(* A handler is one delivery of the job that one request has enqueued.     *)
(* Each handler makes up a code of its own, so it also names that code.    *)
Handler == Request \X (1..(RetryLimit + 1))

(* A response below 500 is stored; "ok" is 200 and "refused" a 4xx.        *)
Response == {"ok", "refused"}

ASSUME RedemptionConstants ==
    /\ MaxAttempts \in Nat \ {0}
    /\ HardFailureStreak \in Nat \ {0}
    /\ RetryLimit \in Nat
    /\ None \notin Handler \cup Response

VARIABLES
    request,    \* how far each request has come
    stored,     \* the response kept under the idempotency key
    status,     \* redemptions.status
    codeId,     \* redemptions.discount_code_id
    spends,     \* spend entries of the redemption
    reversals,  \* adjust entries of the redemption
    codes,      \* discount_codes rows of the redemption
    live,       \* codes that exist at Shopify
    job,        \* the queue's row for the job each request has enqueued
    handler,    \* the state of each handler
    rowLock,    \* the handler whose transaction has updated the row
    overlapped  \* a handler has been running after its delivery expired

clientVars == <<request, stored>>
tableVars == <<status, codeId, spends, reversals, codes>>
vars == <<clientVars, tableVars, live, job, handler, rowLock, overlapped>>

RequestState == {"new", "running", "redeemed", "answered", "error"}

JobState == {"none", "queued", "active", "completed", "failed"}

Step == {"idle", "load", "find", "call", "save", "fail", "check", "return", "ended"}

Running == {"load", "find", "call", "save", "fail", "check", "return"}

(* A handler that starts a step afresh: its counters live only in "call".  *)
At(step) == [at |-> step, calls |-> 0, streak |-> 0, found |-> FALSE]

Init ==
    /\ request = [r \in Request |-> "new"]
    /\ stored = None
    /\ status = "absent"
    /\ codeId = None
    /\ spends = 0
    /\ reversals = 0
    /\ codes = {}
    /\ live = {}
    /\ job = [r \in Request |-> [state |-> "none", deliveries |-> 0]]
    /\ handler = [h \in Handler |-> At("idle")]
    /\ rowLock = None
    /\ overlapped = FALSE
-----------------------------------------------------------------------------
(* The request.                                                            *)

(* The idempotency gate replays a stored response or lets the request in.  *)
Arrive(r) ==
    /\ request[r] = "new"
    /\ request' = [request EXCEPT ![r] = IF stored = None THEN "running" ELSE "answered"]
    /\ UNCHANGED <<stored, tableVars, live, job, handler, rowLock, overlapped>>

(* onSend: the first response kept wins.                                   *)
Answer(r, response) ==
    /\ request' = [request EXCEPT ![r] = "answered"]
    /\ stored' = IF stored = None THEN response ELSE stored

(* Fault: the row under the same key is not looked up.                     *)
AlreadyRedeemedUnseen == FALSE

AlreadyRedeemed == status # "absent"

(* The redeem transaction: the first one under the key spends.             *)
Redeem(r) ==
    /\ request[r] = "running"
    /\ ~AlreadyRedeemed
    /\ request' = [request EXCEPT ![r] = "redeemed"]
    /\ status' = "pending_code"
    /\ spends' = spends + 1
    /\ UNCHANGED <<stored, codeId, reversals, codes, live, job, handler, rowLock, overlapped>>

(* Any later one finds the row and answers with it.                        *)
Replay(r) ==
    /\ request[r] = "running"
    /\ AlreadyRedeemed
    /\ Answer(r, "ok")
    /\ UNCHANGED <<tableVars, live, job, handler, rowLock, overlapped>>

(* Too few points, an unknown reward, the wrong channel, or too many       *)
(* requests, which may refuse a retry of what has been redeemed.           *)
Refuse(r) ==
    /\ request[r] = "running"
    /\ Answer(r, "refused")
    /\ UNCHANGED <<tableVars, live, job, handler, rowLock, overlapped>>

(* A lock timeout or a lost connection: a 5xx, of which nothing is kept.   *)
RedeemFails(r) ==
    /\ request[r] = "running"
    /\ request' = [request EXCEPT ![r] = "error"]
    /\ UNCHANGED <<stored, tableVars, live, job, handler, rowLock, overlapped>>

(* After the commit, and only for a fresh spend, the job is enqueued.      *)
Enqueue(r) ==
    /\ request[r] = "redeemed"
    /\ job' = [job EXCEPT ![r].state = "queued"]
    /\ Answer(r, "ok")
    /\ UNCHANGED <<tableVars, live, handler, rowLock, overlapped>>

(* The queue is down, or the process dies: the job may be there or not.    *)
EnqueueFails(r) ==
    /\ request[r] = "redeemed"
    /\ request' = [request EXCEPT ![r] = "error"]
    /\ job' \in {job, [job EXCEPT ![r].state = "queued"]}
    /\ UNCHANGED <<stored, tableVars, live, handler, rowLock, overlapped>>
-----------------------------------------------------------------------------
(* The queue.                                                              *)

Current(h) == job[h[1]].state = "active" /\ job[h[1]].deliveries = h[2]

(* Fault: one delivery too many.                                           *)
RetriedOnceMore(j) == IF j.deliveries > RetryLimit + 1 THEN "failed" ELSE "queued"

(* A failed delivery is retried until the limit.                           *)
Retried(j) == IF j.deliveries > RetryLimit THEN "failed" ELSE "queued"

Deliver(r) ==
    /\ job[r].state = "queued"
    /\ job' = [job EXCEPT ![r] = [state |-> "active", deliveries |-> @.deliveries + 1]]
    /\ handler' = [handler EXCEPT ![<<r, job[r].deliveries + 1>>].at = "load"]
    /\ UNCHANGED <<clientVars, tableVars, live, rowLock, overlapped>>

(* The delivery runs out of time.  Its handler, if it still runs, is not   *)
(* told to stop.                                                           *)
Expire(r) ==
    /\ job[r].state = "active"
    /\ job' = [job EXCEPT ![r].state = Retried(job[r])]
    /\ overlapped' = (overlapped \/ handler[<<r, job[r].deliveries>>].at \in Running)
    /\ UNCHANGED <<clientVars, tableVars, live, handler, rowLock>>
-----------------------------------------------------------------------------
(* The worker.                                                             *)

Goto(h, step) == handler' = [handler EXCEPT ![h] = At(step)]

(* The queue learns the outcome if it still waits for this delivery.       *)
Report(h, outcome) ==
    job' = IF Current(h) THEN [job EXCEPT ![h[1]].state = outcome] ELSE job

Return(h) == Goto(h, "ended") /\ Report(h, "completed")

(* Fault: the error is swallowed, so the queue takes the job for done.     *)
ThrowSwallowed(h) == Return(h)

Throw(h) == Goto(h, "ended") /\ Report(h, Retried(job[h[1]]))

(* Fault: a handler does not see that the redemption has failed.           *)
TerminalUnseen == FALSE

Terminal == status = "failed"

(* The first read: a code is there, the failure is final, or go on.        *)
Load(h) ==
    /\ handler[h].at = "load"
    /\ IF codeId # None THEN Return(h)
       ELSE IF Terminal THEN Throw(h)
       ELSE Goto(h, "find") /\ UNCHANGED job
    /\ UNCHANGED <<clientVars, tableVars, live, rowLock, overlapped>>

(* The second read: a code may have been saved in between.                 *)
Find(h) ==
    /\ handler[h].at = "find"
    /\ IF codes # {} THEN Return(h) ELSE Goto(h, "call") /\ UNCHANGED job
    /\ UNCHANGED <<clientVars, tableVars, live, rowLock, overlapped>>

(* Shopify creates the code and the answer arrives.                        *)
Mint(h) ==
    /\ handler[h].at = "call"
    /\ h \notin live
    /\ live' = live \cup {h}
    /\ Goto(h, "save")
    /\ UNCHANGED <<clientVars, tableVars, job, rowLock, overlapped>>

(* Anything but an answer or a throttle, the rejection of a code that is   *)
(* taken included, counts towards the streak.  The last attempt ends the   *)
(* calls, and so does a streak within the window.                          *)
HardFailure(h) ==
    LET calls == handler[h].calls + 1
        streak == handler[h].streak + 1
    IN  \/ /\ streak >= HardFailureStreak \/ calls = MaxAttempts
           /\ Goto(h, "fail")
        \/ /\ calls < MaxAttempts
           /\ handler' = [handler EXCEPT ![h].calls = calls, ![h].streak = streak]

(* The code may have been created all the same.                            *)
CallFails(h) ==
    /\ handler[h].at = "call"
    /\ live' \in {live, live \cup {h}}
    /\ HardFailure(h)
    /\ UNCHANGED <<clientVars, tableVars, job, rowLock, overlapped>>

(* A throttle ends the streak; the redemption stays pending if it is the   *)
(* last attempt.                                                           *)
Throttled(h) ==
    /\ handler[h].at = "call"
    /\ IF handler[h].calls + 1 = MaxAttempts
       THEN Throw(h)
       ELSE /\ handler' = [handler EXCEPT ![h].calls = @ + 1, ![h].streak = 0]
            /\ UNCHANGED job
    /\ UNCHANGED <<clientVars, tableVars, live, rowLock, overlapped>>

(* Fault: the row is not linked to its code.                               *)
LinkForgotten(h) == UNCHANGED <<status, codeId>>

Link(h) == status' = "issued" /\ codeId' = h

(* The transaction that saves the code and marks the redemption issued.    *)
Save(h) ==
    /\ handler[h].at = "save"
    /\ rowLock = None
    /\ codes' = codes \cup {h}
    /\ Link(h)
    /\ Return(h)
    /\ UNCHANGED <<clientVars, spends, reversals, live, rowLock, overlapped>>

(* Fault: the failed status is written last, so the check is unprotected.  *)
FailLocksNothing(h) == UNCHANGED rowLock

(* reverseSpend begins with the update, which locks the row.               *)
FailLocks(h) == rowLock = None /\ rowLock' = h

Fail(h) ==
    /\ handler[h].at = "fail"
    /\ FailLocks(h)
    /\ Goto(h, "check")
    /\ UNCHANGED <<clientVars, tableVars, live, job, overlapped>>

Check(h) ==
    /\ handler[h].at = "check"
    /\ handler' = [handler EXCEPT ![h].found = (reversals > 0), ![h].at = "return"]
    /\ UNCHANGED <<clientVars, tableVars, live, job, rowLock, overlapped>>

(* The commit, and the error that tells the queue.                         *)
GiveBack(h) ==
    /\ handler[h].at = "return"
    /\ status' = "failed"
    /\ reversals' = IF handler[h].found THEN reversals ELSE reversals + 1
    /\ rowLock' = IF rowLock = h THEN None ELSE rowLock
    /\ Throw(h)
    /\ UNCHANGED <<clientVars, codeId, spends, codes, live, overlapped>>

(* The database fails a statement: the transaction is rolled back.         *)
StatementFails(h) ==
    /\ handler[h].at \in Running \ {"call"}
    /\ rowLock' = IF rowLock = h THEN None ELSE rowLock
    /\ Throw(h)
    /\ UNCHANGED <<clientVars, tableVars, live, overlapped>>

(* The process dies with all its handlers; the queue is told nothing.      *)
WorkerDies ==
    /\ \E h \in Handler : handler[h].at \in Running
    /\ handler' = [h \in Handler |->
                     IF handler[h].at \in Running
                     THEN At("ended") ELSE handler[h]]
    /\ rowLock' = None
    /\ UNCHANGED <<clientVars, tableVars, live, job, overlapped>>
-----------------------------------------------------------------------------
RequestStep(r) ==
    \/ Arrive(r) \/ Redeem(r) \/ Replay(r) \/ Refuse(r) \/ RedeemFails(r)
    \/ Enqueue(r) \/ EnqueueFails(r)

HandlerStep(h) ==
    \/ Load(h) \/ Find(h) \/ Mint(h) \/ CallFails(h) \/ Throttled(h)
    \/ Save(h) \/ Fail(h) \/ Check(h) \/ GiveBack(h)

Next ==
    \/ \E r \in Request : RequestStep(r) \/ Deliver(r) \/ Expire(r)
    \/ \E h \in Handler : HandlerStep(h) \/ StatementFails(h)
    \/ WorkerDies

Spec == Init /\ [][Next]_vars

(* The queue delivers what it holds and expires what is not answered; a    *)
(* handler that runs goes on.  Each is asked of some request, job or       *)
(* handler, not of every one.  No request need come, and nothing need fail.*)
Fairness ==
    /\ WF_vars(\E r \in Request : Enqueue(r))
    /\ WF_vars(\E r \in Request : Deliver(r) \/ Expire(r))
    /\ WF_vars(\E h \in Handler : HandlerStep(h))

FairSpec == Spec /\ Fairness
-----------------------------------------------------------------------------
TypeOK ==
    /\ request \in [Request -> RequestState]
    /\ stored \in Response \cup {None}
    /\ status \in {"absent", "pending_code", "issued", "failed"}
    /\ codeId \in Handler \cup {None}
    /\ spends \in Nat /\ reversals \in Nat
    /\ codes \subseteq Handler /\ live \subseteq Handler
    /\ job \in [Request -> [state : JobState, deliveries : 0..(RetryLimit + 1)]]
    /\ handler \in [Handler -> [at : Step, calls : 0..MaxAttempts,
                                streak : 0..MaxAttempts, found : BOOLEAN]]
    /\ rowLock \in Handler \cup {None}
    /\ overlapped \in BOOLEAN

(* Property 5: however many requests carry the key, in whatever order they *)
(* pass the gate, there is one spend and one job, and a client that is     *)
(* told of success has spent.                                              *)
SpentOnce ==
    /\ spends <= 1
    /\ Cardinality({r \in Request : job[r].state # "none"}) <= spends
    /\ stored = "ok" => spends = 1

(* Req 3.9: retries, crashes and handlers that overlap give the points     *)
(* back at most once, and a failed redemption has had them back.           *)
ReversedOnce ==
    /\ reversals <= 1
    /\ status = "failed" => reversals = 1

(* A row says issued exactly when it has a code that can be shown, and a   *)
(* code that is shown works at the checkout.                               *)
IssuedCodeWorks ==
    /\ codes \subseteq live
    /\ status = "issued" => codeId \in codes
    /\ status = "pending_code" => codes = {} /\ codeId = None

(* The redemption keeps the promise of Settlement.                         *)
Promise == INSTANCE Settlement WITH
    spent <- spends > 0,
    coded <- codes # {},
    returned <- reversals > 0,
    late <- overlapped

KeepsPromise == Promise!Spec

(* A job that reaches the queue ends with a code, with the points given    *)
(* back, or as a failed job that an operator sees: never in silence.       *)
EnqueuedSettles ==
    (\E r \in Request : job[r].state = "queued")
        ~> (codes # {} \/ reversals > 0 \/ \E r \in Request : job[r].state = "failed")
-----------------------------------------------------------------------------
(* What the documents say and the code does not do.                        *)

(* Property 10: at most one code per redemption.                           *)
OneCodeAtShopify == Cardinality(live) <= 1
=============================================================================
