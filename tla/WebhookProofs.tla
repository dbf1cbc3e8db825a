---------------------------- MODULE WebhookProofs ----------------------------
(***************************************************************************)
(* Proofs about webhooks, for any events, any number of copies of each,    *)
(* any scenario of what races and any retry limit.                         *)
(***************************************************************************)
EXTENDS Webhook, FiniteSetTheorems, TLAPS

-----------------------------------------------------------------------------
(* The inductive invariant.                                                *)

(* Deliveries are numbered in turn: a handler has started only if its      *)
(* delivery was made, and a job waits only while a delivery is left.       *)
Numbered ==
    /\ \A e \in Event :
          /\ job[e].state = "none" => job[e].deliveries = 0
          /\ job[e].state = "queued" => job[e].deliveries <= RetryLimit
    /\ \A h \in Handler : handler[h] # "idle" => h[2] <= job[h[1]].deliveries

(* The requests that got past the insert.                                  *)
Passed(r) == request[r] \in {"recorded", "accepted", "lost"}

(* One request of each recorded event has, and a job is put there by it.   *)
Inserted ==
    /\ \A e \in Event :
          /\ row[e] # "absent" => \E r \in Request : r[1] = e /\ Passed(r)
          /\ job[e].state # "none" => row[e] # "absent"
    /\ \A r \in Request :
          /\ Passed(r) => row[r[1]] # "absent"
          /\ request[r] = "recorded" => job[r[1]].state = "none"
    /\ \A r, q \in Request : Passed(r) /\ Passed(q) /\ r[1] = q[1] => r = q

(* The deliveries of an event that have done what they would do.           *)
Done(e) ==
    {n \in 1..(RetryLimit + 1) : handler[<<e, n>>] \in {"succeeded", "threw", "ended"}}

(* Each of them has had one effect at most.                                *)
Counted == \A e \in Event : effects[e] <= Cardinality(Done(e))

(* As long as no handler outlives its delivery an event has one at a time. *)
Serial == ~overlapped => \A h \in Handler : handler[h] \in Running => Current(h)

(* What a handler goes on to record or to take back is in the ledger.      *)
Truthful ==
    \A h \in Handler :
        /\ handler[h] = "succeeded" =>
              Kind[h[1]] = "clawback" \/ Earned(Subject[h[1]]) \/ effects[h[1]] > 0
        /\ handler[h] = "claw" =>
              /\ Kind[h[1]] = "clawback"
              /\ Earned(Subject[h[1]])
              /\ ~overlapped => effects[h[1]] = 0

Inv ==
    /\ TypeOK /\ Numbered /\ Inserted /\ Counted
    /\ Serial /\ Truthful /\ ProcessedIsTrue /\ AppliedOnce

-----------------------------------------------------------------------------
(* What the steps have in common.                                          *)

LEMMA HandlerIs ==
    ASSUME NEW g \in Handler, NEW h \in Handler
    PROVE  /\ g[1] \in Event /\ g[2] \in 1..(RetryLimit + 1) /\ g = <<g[1], g[2]>>
           /\ g[1] = h[1] /\ g[2] = h[2] => g = h
BY DEF Handler

LEMMA RequestIs == \A r \in Request : r[1] \in Event
BY DEF Request

JobRow == [state : JobState, deliveries : 0..(RetryLimit + 1)]

Row == {"absent", "received", "processed", "failed"}

(* A handler exists only for an event that was recorded and queued.        *)
LEMMA RunsAfterHandOff ==
    ASSUME Inv, NEW h \in Handler, handler[h] # "idle"
    PROVE  job[h[1]].state # "none" /\ row[h[1]] # "absent"
<1>1. h[1] \in Event /\ h[2] \in 1..(RetryLimit + 1) /\ h[2] <= job[h[1]].deliveries
  BY HandlerIs DEF Inv, Numbered
<1>2. job[h[1]].deliveries # 0
  BY <1>1, WebhookConstants
<1> QED  BY <1>1, <1>2 DEF Inv, Numbered, Inserted

(* While no handler outlives its delivery, two of one event are the same.  *)
LEMMA OneRuns ==
    ASSUME Inv, ~overlapped, NEW g \in Handler, NEW h \in Handler, g[1] = h[1],
           handler[g] \in Running, handler[h] \in Running
    PROVE  g = h
<1>1. Current(g) /\ Current(h)
  BY DEF Inv, Serial
<1> QED  BY <1>1, HandlerIs DEF Current

(* What an event has earned stays earned.                                  *)
LEMMA EarnedStays ==
    ASSUME NEW s, Earned(s), \A e \in Event : effects[e] > 0 => effects'[e] > 0
    PROVE  Earned(s)'
BY DEF Earned

(* A set of deliveries is finite, and has at most RetryLimit + 1 members.  *)
LEMMA DeliveriesAreFinite ==
    ASSUME NEW D \in SUBSET (1..(RetryLimit + 1))
    PROVE  /\ IsFiniteSet(D) /\ Cardinality(D) \in Nat
           /\ Cardinality(D) <= RetryLimit + 1
<1>1. /\ IsFiniteSet(1..(RetryLimit + 1))
      /\ Cardinality(1..(RetryLimit + 1)) = RetryLimit + 1
  BY WebhookConstants, FS_Interval
<1> QED  BY <1>1, FS_Subset, FS_CardinalityType

-----------------------------------------------------------------------------
(* The receiver and the queue move no handler.                             *)

(* What a step keeps that has no effect, and ends or starts nothing.       *)
LEMMA NoHandlerMoves ==
    ASSUME Inv, UNCHANGED <<handler, effects, overlapped>>
    PROVE  /\ Counted' /\ Truthful' /\ AppliedOnce'
           /\ (\A e \in Event : row'[e] = "processed" => row[e] = "processed")
                  => ProcessedIsTrue'
<1>1. Counted'
  BY DEF Inv, Counted, Done
<1>2. Truthful'
  BY DEF Inv, Truthful, Earned
<1>3. AppliedOnce'
  BY DEF Inv, AppliedOnce, Earned
<1>4. (\A e \in Event : row'[e] = "processed" => row[e] = "processed") => ProcessedIsTrue'
  BY DEF Inv, ProcessedIsTrue, Earned
<1> QED  BY <1>1, <1>2, <1>3, <1>4

LEMMA ReceiveKeeps ==
    ASSUME Inv, NEW r \in Request, Receive(r) \/ ReceiveFails(r)
    PROVE  Inv'
<1>1. /\ r[1] \in Event /\ request[r] = "new"
      /\ UNCHANGED <<job, handler, effects, overlapped>>
  BY RequestIs DEF Receive, ReceiveFails
<1>2. TypeOK'
  BY <1>1 DEF Inv, TypeOK, Receive, ReceiveFails, RequestState
<1>3. Numbered' /\ Serial'
  BY <1>1 DEF Inv, Numbered, Serial, Current
<1>4. Inserted'
  <2> USE DEF Inv, TypeOK, Inserted, Passed
  <2>1. CASE Receive(r) /\ row[r[1]] = "absent"
    <3>1. /\ request' = [request EXCEPT ![r] = "recorded"]
          /\ row' = [row EXCEPT ![r[1]] = "received"]
      BY <2>1 DEF Receive, RecordIfNew
    <3>2. job[r[1]].state = "none" /\ \A q \in Request : q[1] = r[1] => ~Passed(q)
      BY <1>1, <2>1
    <3> QED  BY <1>1, <3>1, <3>2, RequestIs
  <2>2. CASE ~(Receive(r) /\ row[r[1]] = "absent")
    <3>1. /\ UNCHANGED row
          /\ \E to \in {"duplicate", "refused"} : request' = [request EXCEPT ![r] = to]
      BY <2>2 DEF Receive, ReceiveFails, RecordIfNew
    <3>2. \A q \in Request : /\ Passed(q)' <=> Passed(q)
                             /\ request'[q] = "recorded" => request[q] = "recorded"
      BY <1>1, <3>1
    <3> QED  BY <1>1, <3>1, <3>2
  <2> QED  BY <2>1, <2>2
<1>5. \A e \in Event : row'[e] = "processed" => row[e] = "processed"
  BY <1>1 DEF Inv, TypeOK, Receive, ReceiveFails
<1> QED  BY <1>1, <1>2, <1>3, <1>4, <1>5, NoHandlerMoves DEF Inv

LEMMA HandOffKeeps ==
    ASSUME Inv, NEW r \in Request, HandOff(r) \/ HandOffFails(r)
    PROVE  Inv'
<1>1. /\ r[1] \in Event /\ request[r] = "recorded" /\ job' \in {job, Queued(r[1])}
      /\ \E to \in {"accepted", "lost"} : request' = [request EXCEPT ![r] = to]
      /\ UNCHANGED <<row, handler, effects, overlapped>>
  BY RequestIs DEF HandOff, HandOffFails
<1>2. /\ job[r[1]].state = "none" /\ job[r[1]].deliveries = 0 /\ row[r[1]] # "absent"
      /\ \A q \in Request : request[q] = "recorded" /\ q[1] = r[1] => q = r
  BY <1>1 DEF Inv, Numbered, Inserted, Passed
<1>3. /\ job' \in [Event -> JobRow]
      /\ \A e \in Event : e # r[1] => job'[e] = job[e]
      /\ job'[r[1]].state \in {"none", "queued"} /\ job'[r[1]].deliveries = 0
  <2>1. job \in [Event -> JobRow] /\ "queued" \in JobState
    BY DEF Inv, TypeOK, JobRow, JobState
  <2>2. CASE job' = job
    BY <1>1, <1>2, <2>1, <2>2
  <2>3. CASE job' = [job EXCEPT ![r[1]].state = "queued"]
    BY <1>1, <1>2, <2>1, <2>3 DEF JobRow
  <2> QED  BY <1>1, <2>2, <2>3 DEF Queued
<1>4. TypeOK'
  BY <1>1, <1>3 DEF Inv, TypeOK, RequestState, JobRow
<1>5. Numbered'
  BY <1>1, <1>2, <1>3, HandlerIs, WebhookConstants DEF Inv, Numbered
<1>6. Inserted'
  <2>1. \A q \in Request : /\ Passed(q)' <=> Passed(q)
                           /\ request'[q] = "recorded" => request[q] = "recorded" /\ q # r
    BY <1>1 DEF Inv, TypeOK, Passed
  <2> QED  BY <1>1, <1>2, <1>3, <2>1, RequestIs DEF Inv, Inserted
<1>7. Serial'
  <2>1. \A h \in Handler : handler[h] \in Running => h[1] # r[1]
    BY <1>2, RunsAfterHandOff DEF Running
  <2> QED  BY <1>1, <1>3, <2>1, HandlerIs DEF Inv, Serial, Current
<1> QED  BY <1>1, <1>4, <1>5, <1>6, <1>7, NoHandlerMoves DEF Inv

LEMMA ExpireKeeps ==
    ASSUME Inv, NEW e \in Event, Expire(e)
    PROVE  Inv'
<1> USE DEF Inv, TypeOK
<1>1. /\ job[e].state = "active" /\ job' = [job EXCEPT ![e].state = Retried(job[e])]
      /\ overlapped' = (overlapped \/ handler[<<e, job[e].deliveries>>] \in Running)
      /\ UNCHANGED <<request, row, handler, effects>>
  BY DEF Expire
<1>2. /\ job' \in [Event -> JobRow]
      /\ \A f \in Event : /\ job'[f].deliveries = job[f].deliveries
                          /\ f # e => job'[f] = job[f]
      /\ job'[e].state \in {"queued", "failed"}
      /\ job'[e].state = "queued" => job[e].deliveries <= RetryLimit
  BY <1>1, WebhookConstants DEF JobRow, JobState, Retried
<1>3. TypeOK'
  BY <1>1, <1>2 DEF JobRow
<1>4. Numbered'
  BY <1>1, <1>2, HandlerIs DEF Numbered
<1>5. Inserted'
  BY <1>1, <1>2, RequestIs DEF Inserted, Passed
<1>6. Serial'
  <2> SUFFICES ASSUME ~overlapped', NEW h \in Handler, handler[h] \in Running
               PROVE  Current(h)'
    BY <1>1 DEF Serial
  <2>1. Current(h)
    BY <1>1 DEF Serial
  <2>2. h[1] # e
    BY <1>1, <2>1, HandlerIs DEF Current
  <2>3. h[1] \in Event
    BY HandlerIs
  <2>4. job'[h[1]] = job[h[1]]
    BY <1>2, <2>2, <2>3
  <2> QED  BY <2>1, <2>4 DEF Current
<1>7. Counted' /\ ProcessedIsTrue'
  <2>1. \A f \in Event : Done(f)' = Done(f)
    BY <1>1 DEF Done
  <2> QED  BY <1>1, <2>1 DEF Counted, ProcessedIsTrue, Earned
<1>8. Truthful'
  BY <1>1 DEF Truthful, Earned
<1>9. AppliedOnce'
  BY <1>1 DEF AppliedOnce, Earned
<1> QED  BY <1>3, <1>4, <1>5, <1>6, <1>7, <1>8, <1>9

LEMMA DeliverKeeps ==
    ASSUME Inv, NEW e \in Event, Deliver(e)
    PROVE  Inv'
<1> USE DEF Inv, TypeOK
<1> DEFINE n == job[e].deliveries + 1
           d == <<e, n>>
<1>1. /\ job[e].state = "queued" /\ UNCHANGED <<request, row, effects, overlapped>>
      /\ job' = [job EXCEPT ![e] = [state |-> "active", deliveries |-> n]]
      /\ handler' = [handler EXCEPT ![d] = "dispatch"]
  BY DEF Deliver
<1>2. n \in 1..(RetryLimit + 1) /\ d \in Handler /\ d[1] = e /\ d[2] = n
  BY <1>1, WebhookConstants DEF Numbered, Handler
<1>3. handler[d] = "idle"
  BY <1>2 DEF Numbered
<1>4. /\ job' \in [Event -> JobRow] /\ handler' \in [Handler -> Step]
      /\ job'[e].state = "active" /\ job'[e].deliveries = n
      /\ \A f \in Event : f # e => job'[f] = job[f]
      /\ handler'[d] = "dispatch" /\ \A h \in Handler : h # d => handler'[h] = handler[h]
  BY <1>1, <1>2 DEF JobRow, JobState, Step
<1>5. TypeOK'
  BY <1>1, <1>4 DEF JobRow
<1>6. Numbered'
  <2>1. \A f \in Event : /\ job'[f].state = "none" => job'[f].deliveries = 0
                         /\ job'[f].state = "queued" => job'[f].deliveries <= RetryLimit
    BY <1>4 DEF Numbered
  <2>2. ASSUME NEW h \in Handler, handler'[h] # "idle"
        PROVE  h[2] <= job'[h[1]].deliveries
    <3>1. h[1] \in Event /\ h[2] \in 1..(RetryLimit + 1)
      BY HandlerIs
    <3>2. CASE h[1] = e
      <4>1. h = d \/ h[2] <= job[e].deliveries
        BY <1>4, <2>2, <3>2 DEF Numbered
      <4> QED  BY <1>2, <1>4, <3>1, <3>2, <4>1, WebhookConstants
    <3>3. CASE h[1] # e
      BY <1>2, <1>4, <2>2, <3>1, <3>3 DEF Numbered
    <3> QED  BY <3>2, <3>3
  <2> QED  BY <2>1, <2>2 DEF Numbered
<1>7. Inserted'
  BY <1>1, <1>4, RequestIs DEF Inserted, Passed
<1>8. Serial'
  <2> SUFFICES ASSUME ~overlapped, NEW h \in Handler, handler'[h] \in Running
               PROVE  Current(h)'
    BY <1>1 DEF Serial
  <2>1. CASE h = d
    BY <1>2, <1>4, <2>1 DEF Current
  <2>2. CASE h # d
    <3>1. Current(h)
      BY <1>4, <2>2 DEF Serial
    <3>2. h[1] # e
      BY <1>1, <3>1 DEF Current
    <3> QED  BY <1>4, <3>1, <3>2, HandlerIs DEF Current
  <2> QED  BY <2>1, <2>2
<1>9. \A f \in Event : Done(f)' = Done(f)
  <2> SUFFICES ASSUME NEW f \in Event, NEW i \in 1..(RetryLimit + 1)
               PROVE  handler'[<<f, i>>] \in {"succeeded", "threw", "ended"}
                        <=> handler[<<f, i>>] \in {"succeeded", "threw", "ended"}
    BY DEF Done
  <2>1. <<f, i>> \in Handler
    BY DEF Handler
  <2> QED  BY <1>3, <1>4, <2>1
<1>10. Counted' /\ ProcessedIsTrue'
  BY <1>1, <1>9 DEF Counted, ProcessedIsTrue, Earned
<1>11. Truthful'
  BY <1>1, <1>4 DEF Truthful, Earned
<1>12. AppliedOnce'
  BY <1>1 DEF AppliedOnce, Earned
<1> QED  BY <1>5, <1>6, <1>7, <1>8, <1>10, <1>11, <1>12

-----------------------------------------------------------------------------
(* The worker.                                                             *)

(* The queue's rows after a report of a handler of event e.                *)
JobKept(e) ==
    /\ job' \in [Event -> JobRow]
    /\ \A f \in Event : f # e => job'[f] = job[f]
    /\ job'[e].deliveries = job[e].deliveries
    /\ job'[e].state = "none" <=> job[e].state = "none"
    /\ job'[e].state = "queued" => job'[e].deliveries <= RetryLimit

LEMMA NoReportIs ==
    ASSUME Inv, NEW h \in Handler, UNCHANGED job
    PROVE  JobKept(h[1])
BY HandlerIs DEF JobKept, JobRow, Inv, TypeOK, Numbered

LEMMA ReportIs ==
    ASSUME Inv, NEW h \in Handler,
           NEW outcome \in {"completed", Retried(job[h[1]])}, Report(h, outcome)
    PROVE  JobKept(h[1])
<1>1. job \in [Event -> JobRow] /\ h[1] \in Event
  BY HandlerIs DEF Inv, TypeOK, JobRow
<1>2. outcome \in {"completed", "failed", "queued"}
  BY DEF Retried
<1>3. outcome = "queued" => job[h[1]].deliveries <= RetryLimit
  BY <1>1, WebhookConstants DEF Retried, JobRow
<1>4. CASE Current(h)
  <2>1. job' = [job EXCEPT ![h[1]].state = outcome]
    BY <1>4 DEF Report
  <2>2. job[h[1]].state # "none"
    BY <1>4 DEF Current
  <2> QED  BY <1>1, <1>2, <1>3, <2>1, <2>2 DEF JobKept, JobRow, JobState
<1>5. CASE ~Current(h)
  BY <1>5, NoReportIs DEF Report
<1> QED  BY <1>4, <1>5

(* A step that ends nothing takes no delivery from those that are done,    *)
(* and one that does its work, or fails to, adds its own.                  *)
LEMMA DoneGrows ==
    ASSUME Inv, NEW h \in Handler, handler[h] \in Running,
           NEW step \in {"claw", "succeeded", "threw", "ended"}, Goto(h, step),
           step = "claw" => handler[h] \in {"dispatch", "claw"}
    PROVE  /\ \A e \in Event : Cardinality(Done(e)) <= Cardinality(Done(e)')
           /\ handler[h] \in {"dispatch", "claw"} /\ step # "claw"
                 => Cardinality(Done(h[1])') = Cardinality(Done(h[1])) + 1
<1>1. /\ h[1] \in Event /\ h[2] \in 1..(RetryLimit + 1) /\ h = <<h[1], h[2]>>
      /\ handler'[h] = step
      /\ \A g \in Handler : g # h => handler'[g] = handler[g]
  BY HandlerIs DEF Goto, Inv, TypeOK
<1>2. \A e \in Event : \A n \in 1..(RetryLimit + 1) : <<e, n>> \in Handler
  BY DEF Handler
<1>3. \A e \in Event : Done(e) \subseteq 1..(RetryLimit + 1)
                       /\ Done(e)' \subseteq 1..(RetryLimit + 1)
  BY DEF Done
<1>4. \A e \in Event : Done(e) \subseteq Done(e)'
  BY <1>1, <1>2 DEF Done, Running
<1>5. \A e \in Event : Cardinality(Done(e)) <= Cardinality(Done(e)')
  BY <1>3, <1>4, DeliveriesAreFinite, FS_Subset
<1>6. ASSUME handler[h] \in {"dispatch", "claw"}, step # "claw"
      PROVE  Cardinality(Done(h[1])') = Cardinality(Done(h[1])) + 1
  <2>1. h[2] \notin Done(h[1])
    BY <1>1, <1>6 DEF Done
  <2>2. Done(h[1])' = Done(h[1]) \cup {h[2]}
    BY <1>1, <1>2, <1>6 DEF Done
  <2> QED  BY <1>1, <1>3, <2>1, <2>2, DeliveriesAreFinite, FS_AddElement
<1> QED  BY <1>5, <1>6

(* A step of one handler keeps the invariant: what has an effect was at    *)
(* work and is then done with, earns what was not earned before or claws   *)
(* back, and what is said to have succeeded has been earned.               *)
LEMMA HandlerMoves ==
    ASSUME Inv, NEW h \in Handler, handler[h] \in Running,
           NEW step \in {"claw", "succeeded", "threw", "ended"}, Goto(h, step),
           JobKept(h[1]), step # "ended" => UNCHANGED job,
           UNCHANGED <<request, overlapped>>,
           \/ UNCHANGED effects
           \/ /\ Effect(h[1]) /\ handler[h] \in {"dispatch", "claw"} /\ step # "claw"
              /\ \/ Kind[h[1]] = "trifle"
                 \/ Kind[h[1]] = "earn" /\ ~AlreadyEarned(h[1])
                 \/ handler[h] = "claw",
           step = "claw" => /\ handler[h] = "dispatch" /\ Kind[h[1]] = "clawback"
                            /\ Earned(Subject[h[1]]) /\ effects[h[1]] = 0
                            /\ UNCHANGED effects,
           step = "succeeded" => \/ Kind[h[1]] = "clawback"
                                 \/ Earned(Subject[h[1]])'
                                 \/ effects'[h[1]] > 0,
           row' \in [Event -> Row],
           \A e \in Event : row'[e] = "absent" <=> row[e] = "absent",
           \A e \in Event : row'[e] = "processed" =>
                row[e] = "processed" \/ (e = h[1] /\ handler[h] = "succeeded")
    PROVE  Inv'
<1>1. /\ h[1] \in Event /\ handler' \in [Handler -> Step] /\ handler'[h] = step
      /\ \A g \in Handler : g # h => handler'[g] = handler[g]
  BY HandlerIs DEF Goto, Inv, TypeOK, Step
<1>2. /\ effects \in [Event -> 0..(RetryLimit + 1)]
      /\ \A e \in Event : effects[e] \in Nat /\ Cardinality(Done(e)) \in Nat
                           /\ Cardinality(Done(e)') \in Nat
                           /\ Cardinality(Done(e)') <= RetryLimit + 1
                           /\ effects[e] <= Cardinality(Done(e))
  <2>1. \A e \in Event : Done(e) \in SUBSET (1..(RetryLimit + 1))
                         /\ Done(e)' \in SUBSET (1..(RetryLimit + 1))
    BY DEF Done
  <2>2. \A e \in Event : effects[e] \in Nat /\ effects[e] <= Cardinality(Done(e))
    BY WebhookConstants DEF Inv, TypeOK, Counted
  <2> QED  BY <2>1, <2>2, DeliveriesAreFinite DEF Inv, TypeOK
<1>3. /\ \A e \in Event : e # h[1] => effects'[e] = effects[e]
      /\ effects'[h[1]] = effects[h[1]] \/ effects'[h[1]] = effects[h[1]] + 1
      /\ effects' = effects \/ effects' = [effects EXCEPT ![h[1]] = effects[h[1]] + 1]
  BY <1>1, <1>2 DEF Effect
<1>4. \A e \in Event : /\ effects[e] > 0 => effects'[e] > 0
                       /\ effects'[e] \in Nat
  BY <1>1, <1>2, <1>3
<1>5. \A s : Earned(s) => Earned(s)'
  BY <1>4, EarnedStays
<1>6. Counted'
  <2>1. \A e \in Event : Cardinality(Done(e)) <= Cardinality(Done(e)')
    BY DoneGrows DEF Running
  <2>2. effects' = effects \/ Cardinality(Done(h[1])') = Cardinality(Done(h[1])) + 1
    BY DoneGrows
  <2> QED  BY <1>1, <1>2, <1>3, <2>1, <2>2 DEF Counted
<1>7. TypeOK'
  <2>1. effects' \in [Event -> 0..(RetryLimit + 1)]
    <3>1. \A e \in Event : effects'[e] \in 0..(RetryLimit + 1)
      BY <1>2, <1>4, <1>6, WebhookConstants DEF Counted
    <3> QED  BY <1>2, <1>3, <3>1
  <2> QED  BY <1>1, <2>1 DEF Inv, TypeOK, JobKept, JobRow, Row
<1>8. Numbered'
  BY <1>1, HandlerIs DEF Inv, Numbered, JobKept, Running
<1>9. Inserted'
  <2>1. \A e \in Event : job'[e].state = "none" <=> job[e].state = "none"
    BY DEF JobKept
  <2> QED  BY <2>1, RequestIs DEF Inv, Inserted, Passed
<1>10. Serial'
  <2> SUFFICES ASSUME ~overlapped, NEW g \in Handler, handler'[g] \in Running
               PROVE  Current(g)'
    BY DEF Serial
  <2>1. handler[g] \in Running /\ g[1] \in Event
    BY <1>1, HandlerIs
  <2>2. Current(g)
    BY <2>1 DEF Inv, Serial
  <2>3. job'[g[1]] = job[g[1]]
    <3>1. CASE g[1] # h[1]
      BY <2>1, <3>1 DEF JobKept
    <3>2. CASE g[1] = h[1]
      BY <1>1, <2>1, <3>2, OneRuns DEF Running
    <3> QED  BY <3>1, <3>2
  <2> QED  BY <2>2, <2>3 DEF Current
<1>11. Truthful'
  <2> SUFFICES ASSUME NEW g \in Handler
               PROVE  /\ handler'[g] = "succeeded" =>
                            \/ Kind[g[1]] = "clawback"
                            \/ Earned(Subject[g[1]])' \/ effects'[g[1]] > 0
                      /\ handler'[g] = "claw" =>
                            /\ Kind[g[1]] = "clawback" /\ Earned(Subject[g[1]])'
                            /\ ~overlapped => effects'[g[1]] = 0
    BY DEF Truthful
  <2>1. CASE g = h
    BY <1>1, <1>5, <2>1
  <2>2. CASE g # h
    <3>1. handler'[g] = handler[g] /\ g[1] \in Event
      BY <1>1, <2>2, HandlerIs
    <3>2. handler[g] = "claw" /\ ~overlapped => effects'[g[1]] = effects[g[1]]
      <4>1. handler[g] = "claw" /\ ~overlapped => g[1] # h[1]
        BY <2>2, OneRuns DEF Running
      <4> QED  BY <1>3, <3>1, <4>1
    <3> QED  BY <1>4, <1>5, <3>1, <3>2 DEF Inv, Truthful
  <2> QED  BY <2>1, <2>2
<1>12. ProcessedIsTrue'
  <2> SUFFICES ASSUME NEW e \in Event, row'[e] = "processed"
               PROVE  Kind[e] = "clawback" \/ Earned(Subject[e])' \/ effects'[e] > 0
    BY DEF ProcessedIsTrue
  <2>1. Kind[e] = "clawback" \/ Earned(Subject[e]) \/ effects[e] > 0
    BY DEF Inv, ProcessedIsTrue, Truthful
  <2> QED  BY <1>4, <1>5, <2>1
<1>13. AppliedOnce'
  <2>1. CASE UNCHANGED effects
    BY <2>1 DEF Inv, AppliedOnce, Earned
  <2>2. CASE Effect(h[1]) /\ Kind[h[1]] = "trifle"
    <3>1. \A e \in Event : Kind[e] # "trifle" => effects'[e] = effects[e]
      BY <1>3, <2>2
    <3> QED  BY <1>5, <3>1 DEF Inv, AppliedOnce
  <2>3. CASE Effect(h[1]) /\ Kind[h[1]] = "earn" /\ ~AlreadyEarned(h[1])
    <3>1. \A e \in Event : Kind[e] = "earn" /\ Subject[e] = Subject[h[1]] => effects[e] = 0
      BY <1>2, <2>3 DEF AlreadyEarned, Earned
    <3>2. \A e \in Event : Kind[e] = "clawback" => effects'[e] = effects[e]
      BY <1>3, <2>3
    <3>3. \A e, f \in Event :
             Kind[e] = "earn" /\ Kind[f] = "earn" /\ Subject[e] = Subject[f] =>
                 effects'[e] + (IF e = f THEN 0 ELSE effects'[f]) <= 1
      <4> SUFFICES ASSUME NEW e \in Event, NEW f \in Event, Kind[e] = "earn",
                          Kind[f] = "earn", Subject[e] = Subject[f]
                   PROVE  effects'[e] + (IF e = f THEN 0 ELSE effects'[f]) <= 1
        OBVIOUS
      <4>1. CASE Subject[e] = Subject[h[1]]
        <5>1. effects[e] = 0 /\ effects[f] = 0
          BY <3>1, <4>1
        <5>2. effects'[e] <= (IF e = h[1] THEN 1 ELSE 0)
          BY <1>3, <5>1
        <5>3. effects'[f] <= (IF f = h[1] THEN 1 ELSE 0)
          BY <1>3, <5>1
        <5> QED  BY <1>4, <5>2, <5>3
      <4>2. CASE Subject[e] # Subject[h[1]]
        <5>1. effects'[e] = effects[e] /\ effects'[f] = effects[f]
          BY <1>3, <4>2
        <5> QED  BY <5>1 DEF Inv, AppliedOnce
      <4> QED  BY <4>1, <4>2
    <3> QED  BY <1>5, <3>2, <3>3 DEF Inv, AppliedOnce
  <2>4. CASE Effect(h[1]) /\ handler[h] = "claw"
    <3>1. /\ Kind[h[1]] = "clawback" /\ Earned(Subject[h[1]])
          /\ ~overlapped => effects[h[1]] = 0
      BY <2>4 DEF Inv, Truthful
    <3>2. \A e \in Event : Kind[e] = "earn" => effects'[e] = effects[e]
      BY <1>3, <3>1
    <3>3. \A e \in Event : Kind[e] = "clawback" =>
             /\ effects'[e] > 0 => Earned(Subject[e])'
             /\ effects'[e] > 1 => overlapped
      BY <1>1, <1>2, <1>3, <1>5, <3>1 DEF Inv, AppliedOnce
    <3> QED  BY <3>2, <3>3 DEF Inv, AppliedOnce
  <2> QED  BY <2>1, <2>2, <2>3, <2>4
<1> QED  BY <1>6, <1>7, <1>8, <1>9, <1>10, <1>11, <1>12, <1>13 DEF Inv

LEMMA EarnKeeps ==
    ASSUME Inv, NEW h \in Handler, Earn(h)
    PROVE  Inv'
<1>1. /\ handler[h] = "dispatch" /\ Kind[h[1]] \in {"earn", "trifle"}
      /\ UNCHANGED <<request, row, job, overlapped>> /\ h[1] \in Event
  BY HandlerIs DEF Earn
<1>2. PICK step \in {"succeeded", "threw"} : Goto(h, step)
  BY DEF Earn, Commit
<1>3. JobKept(h[1]) /\ row' \in [Event -> Row]
  BY <1>1, NoReportIs DEF Inv, TypeOK, Row
<1>4. CASE AlreadyEarned(h[1]) /\ UNCHANGED effects
  <2>1. Earned(Subject[h[1]])'
    BY <1>4 DEF AlreadyEarned, Earned
  <2> QED  BY <1>1, <1>2, <1>3, <1>4, <2>1, HandlerMoves DEF Running
<1>5. CASE ~AlreadyEarned(h[1]) /\ Effect(h[1])
  <2>1. effects'[h[1]] > 0
    BY <1>1, <1>5, WebhookConstants DEF Inv, TypeOK, Effect
  <2> QED  BY <1>1, <1>2, <1>3, <1>5, <2>1, HandlerMoves DEF Running
<1> QED  BY <1>4, <1>5 DEF Earn

LEMMA LookUpKeeps ==
    ASSUME Inv, NEW h \in Handler, LookUp(h)
    PROVE  Inv'
<1>1. /\ handler[h] = "dispatch" /\ Kind[h[1]] = "clawback" /\ h[1] \in Event
      /\ UNCHANGED <<request, row, job, effects, overlapped>>
  BY HandlerIs DEF LookUp
<1>2. JobKept(h[1]) /\ row' \in [Event -> Row]
  BY <1>1, NoReportIs DEF Inv, TypeOK, Row
<1>3. CASE Earned(Subject[h[1]]) /\ ~DuplicateEvent(h[1]) /\ Goto(h, "claw")
  <2>1. effects[h[1]] = 0
    BY <1>1, <1>3, WebhookConstants DEF Inv, TypeOK, DuplicateEvent
  <2> QED  BY <1>1, <1>2, <1>3, <2>1, HandlerMoves DEF Running
<1>4. CASE Commit(h)
  <2>1. PICK step \in {"succeeded", "threw"} : Goto(h, step)
    BY <1>4 DEF Commit
  <2> QED  BY <1>1, <1>2, <2>1, HandlerMoves DEF Running
<1> QED  BY <1>3, <1>4 DEF LookUp

LEMMA ClawKeeps ==
    ASSUME Inv, NEW h \in Handler, Claw(h)
    PROVE  Inv'
<1>1. /\ handler[h] = "claw"
      /\ UNCHANGED effects \/ Effect(h[1])
      /\ UNCHANGED <<request, row, job, overlapped>>
  BY DEF Claw
<1>2. PICK step \in {"succeeded", "threw"} : Goto(h, step)
  BY DEF Claw, Commit
<1>3. JobKept(h[1]) /\ row' \in [Event -> Row] /\ Kind[h[1]] = "clawback"
  BY <1>1, NoReportIs DEF Inv, TypeOK, Row, Truthful
<1> QED  BY <1>1, <1>2, <1>3, HandlerMoves DEF Running

LEMMA DispatchFailsKeeps ==
    ASSUME Inv, NEW h \in Handler, DispatchFails(h)
    PROVE  Inv'
<1>1. /\ handler[h] \in Running /\ Goto(h, "threw")
      /\ UNCHANGED <<request, row, job, effects, overlapped>>
  BY DEF DispatchFails, CatchError, Running
<1>2. JobKept(h[1]) /\ row' \in [Event -> Row]
  BY <1>1, NoReportIs DEF Inv, TypeOK, Row
<1> QED  BY <1>1, <1>2, HandlerMoves

LEMMA MarkProcessedKeeps ==
    ASSUME Inv, NEW h \in Handler, MarkProcessed(h)
    PROVE  Inv'
<1>1. /\ handler[h] = "succeeded" /\ Goto(h, "ended") /\ Report(h, "completed")
      /\ row' \in {row, [row EXCEPT ![h[1]] = "processed"]}
      /\ UNCHANGED <<request, effects, overlapped>> /\ h[1] \in Event
  BY HandlerIs DEF MarkProcessed
<1>2. JobKept(h[1]) /\ row[h[1]] # "absent"
  BY <1>1, ReportIs, RunsAfterHandOff
<1>3. /\ row' \in [Event -> Row]
      /\ \A e \in Event : row'[e] = "absent" <=> row[e] = "absent"
      /\ \A e \in Event : row'[e] = "processed" => row[e] = "processed" \/ e = h[1]
  BY <1>1, <1>2 DEF Inv, TypeOK, Row
<1> QED  BY <1>1, <1>2, <1>3, HandlerMoves DEF Running

LEMMA MarkFailedKeeps ==
    ASSUME Inv, NEW h \in Handler, MarkFailed(h)
    PROVE  Inv'
<1>1. /\ handler[h] = "threw" /\ Goto(h, "ended") /\ Report(h, Retried(job[h[1]]))
      /\ row' \in {row, [row EXCEPT ![h[1]] = FailedFromReceived(h[1])]}
      /\ UNCHANGED <<request, effects, overlapped>> /\ h[1] \in Event
  BY HandlerIs DEF MarkFailed, Rethrow
<1>2. JobKept(h[1]) /\ row[h[1]] # "absent"
  BY <1>1, ReportIs, RunsAfterHandOff
<1>3. /\ row' \in [Event -> Row]
      /\ \A e \in Event : row'[e] = "absent" <=> row[e] = "absent"
      /\ \A e \in Event : row'[e] = "processed" => row[e] = "processed"
  BY <1>1, <1>2 DEF Inv, TypeOK, Row, FailedFromReceived
<1> QED  BY <1>1, <1>2, <1>3, HandlerMoves DEF Running

LEMMA WorkerDiesKeeps ==
    ASSUME Inv, WorkerDies
    PROVE  Inv'
<1> USE DEF Inv, TypeOK
<1>1. /\ handler' = [h \in Handler |-> IF handler[h] \in Running THEN "ended" ELSE handler[h]]
      /\ UNCHANGED <<request, row, job, effects, overlapped>>
  BY DEF WorkerDies
<1>2. \A h \in Handler : /\ handler'[h] = "ended" \/ handler'[h] = handler[h]
                         /\ handler'[h] \notin Running
                         /\ handler[h] = "idle" <=> handler'[h] = "idle"
  BY <1>1 DEF Running
<1>3. TypeOK'
  BY <1>1, <1>2 DEF Step
<1>4. Numbered' /\ Inserted'
  BY <1>1, <1>2 DEF Numbered, Inserted, Passed
<1>5. Serial' /\ Truthful'
  BY <1>2 DEF Serial, Truthful, Running
<1>6. Counted'
  <2> SUFFICES ASSUME NEW e \in Event
               PROVE  effects[e] <= Cardinality(Done(e)')
    BY <1>1 DEF Counted
  <2>1. \A n \in 1..(RetryLimit + 1) : <<e, n>> \in Handler
    BY DEF Handler
  <2>2. Done(e) \subseteq Done(e)' /\ Done(e)' \in SUBSET (1..(RetryLimit + 1))
    BY <1>2, <2>1 DEF Done
  <2>3. Cardinality(Done(e)) <= Cardinality(Done(e)')
    BY <2>2, DeliveriesAreFinite, FS_Subset
  <2>4. Cardinality(Done(e)) \in Nat /\ Cardinality(Done(e)') \in Nat
    BY <2>2, DeliveriesAreFinite
  <2>5. effects[e] \in Nat /\ effects[e] <= Cardinality(Done(e))
    BY WebhookConstants DEF Counted
  <2> QED  BY <2>3, <2>4, <2>5
<1>7. ProcessedIsTrue' /\ AppliedOnce'
  BY <1>1 DEF ProcessedIsTrue, AppliedOnce, Earned
<1> QED  BY <1>3, <1>4, <1>5, <1>6, <1>7

-----------------------------------------------------------------------------
(* The specification.                                                      *)

LEMMA InitInv == Init => Inv
<1> SUFFICES ASSUME Init PROVE Inv
  OBVIOUS
<1> USE DEF Init
<1>1. TypeOK
  <2>1. PICK sent \in Scenario :
          request = [r \in Request |-> IF r \in sent THEN "new" ELSE "unsent"]
    OBVIOUS
  <2>2. request \in [Request -> RequestState]
    BY <2>1 DEF RequestState
  <2>3. job \in [Event -> JobRow]
    BY WebhookConstants DEF JobRow, JobState
  <2>4. /\ row \in [Event -> Row] /\ handler \in [Handler -> Step]
        /\ effects \in [Event -> 0..(RetryLimit + 1)]
    BY WebhookConstants DEF Row, Step
  <2> QED  BY <2>2, <2>3, <2>4 DEF TypeOK, JobRow, Row
<1>2. Numbered /\ Serial /\ Truthful /\ ProcessedIsTrue /\ AppliedOnce
  BY HandlerIs, WebhookConstants
     DEF Numbered, Serial, Truthful, ProcessedIsTrue, AppliedOnce, Running
<1>3. Inserted
  BY RequestIs DEF Inserted, Passed
<1>4. Counted
  <2>1. \A e \in Event : Done(e) \in SUBSET (1..(RetryLimit + 1))
    BY DEF Done
  <2>2. \A e \in Event : Cardinality(Done(e)) \in Nat
    BY <2>1, DeliveriesAreFinite
  <2> QED  BY <2>2 DEF Counted
<1> QED  BY <1>1, <1>2, <1>3, <1>4 DEF Inv

LEMMA StutterKeeps ==
    ASSUME Inv, UNCHANGED vars
    PROVE  Inv'
BY DEF vars, Inv, TypeOK, Numbered, Inserted, Passed, Counted, Done, Serial, Current,
       Truthful, ProcessedIsTrue, AppliedOnce, Earned

LEMMA StepInv == Inv /\ [Next]_vars => Inv'
<1> SUFFICES ASSUME Inv, [Next]_vars PROVE Inv'
  OBVIOUS
<1>1. CASE UNCHANGED vars
  BY <1>1, StutterKeeps
<1>2. CASE \E r \in Request : Receive(r) \/ ReceiveFails(r) \/ HandOff(r) \/ HandOffFails(r)
  BY <1>2, ReceiveKeeps, HandOffKeeps
<1>3. CASE \E e \in Event : Deliver(e) \/ Expire(e)
  BY <1>3, DeliverKeeps, ExpireKeeps
<1>4. CASE \E h \in Handler : HandlerStep(h) \/ DispatchFails(h)
  BY <1>4, EarnKeeps, LookUpKeeps, ClawKeeps, MarkProcessedKeeps, MarkFailedKeeps,
     DispatchFailsKeeps DEF HandlerStep
<1>5. CASE WorkerDies
  BY <1>5, WorkerDiesKeeps
<1> QED  BY <1>1, <1>2, <1>3, <1>4, <1>5 DEF Next

(* Every state of the webhooks satisfies the invariant.                    *)
THEOREM Invariance == Spec => []Inv
BY InitInv, StepInv, PTL DEF Spec

(* The requests, rows, jobs, handlers and effects of webhooks stay in      *)
(* their ranges; no event has more effects than its job has deliveries.    *)
THEOREM TypeCorrect == Spec => []TypeOK
<1>1. Inv => TypeOK
  BY DEF Inv
<1> QED  BY <1>1, Invariance, PTL

(* The insert with its unique constraint lets one request past for each    *)
(* event that is recorded, and only a recorded event has a job.            *)
THEOREM AcceptsOnce == Spec => []AcceptedOnce
<1>1. Inv => AcceptedOnce
  <2> SUFFICES ASSUME Inv, NEW e \in Event
               PROVE  Cardinality({r \in Request : r[1] = e /\
                                       request[r] \in {"recorded", "accepted", "lost"}})
                          = IF row[e] = "absent" THEN 0 ELSE 1
    BY DEF Inv, Inserted, AcceptedOnce
  <2> DEFINE P == {r \in Request : r[1] = e /\
                                    request[r] \in {"recorded", "accepted", "lost"}}
  <2>1. CASE row[e] = "absent"
    <3>1. P = {}
      BY <2>1 DEF Inv, Inserted, Passed
    <3> QED  BY <2>1, <3>1, FS_EmptySet
  <2>2. CASE row[e] # "absent"
    <3>1. PICK r \in Request : r[1] = e /\ Passed(r)
      BY <2>2 DEF Inv, Inserted
    <3>2. P = {r}
      BY <3>1 DEF Inv, Inserted, Passed
    <3> QED  BY <2>2, <3>2, FS_Singleton
  <2> QED  BY <2>1, <2>2
<1> QED  BY <1>1, Invariance, PTL

(* An order or a signup earns once whatever races, is retried or lost, and *)
(* an event claws back once unless a handler outlives its delivery.        *)
THEOREM AppliesOnce == Spec => []AppliedOnce
<1>1. Inv => AppliedOnce
  BY DEF Inv
<1> QED  BY <1>1, Invariance, PTL

(* MARK_PROCESSED_SQL is reached only with an earning in the ledger.       *)
THEOREM ProcessedWasDone == Spec => []ProcessedIsTrue
<1>1. Inv => ProcessedIsTrue
  BY DEF Inv
<1> QED  BY <1>1, Invariance, PTL

=============================================================================
