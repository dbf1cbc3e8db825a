------------------------------- MODULE DueWork -------------------------------
(***************************************************************************)
(* The recurring jobs and the daily expiry run.  scheduled_runs says when  *)
(* each job was last claimed; while the service is awake its passes claim  *)
(* what is due and publish it, and a handler runs the expiry scan and then *)
(* the sweep that warns of lots about to expire.  A sweep publishes each   *)
(* notice on a connection of its own and records it in a transaction that  *)
(* may yet roll back.  What the reconciliation does is in Isolation.       *)
(*                                                                         *)
(* Clocks are relative: how long ago a job was claimed, how long a lot has *)
(* left, each up to the point beyond which nothing tells it apart.         *)
(***************************************************************************)
EXTENDS Integers, FiniteSets

CONSTANTS
    Job,        \* the recurring jobs
    ExpiryJob,  \* the one whose handler is modelled here
    Pass,       \* the passes that may be under way at a time
    Handler,    \* the handlers that may be at work at a time
    Lot,        \* the point lots
    Life,       \* how long each has left at first
    Points,     \* its remaining_points at first
    Interval,   \* interval_seconds
    Window,     \* DEFAULT_PRE_EXPIRY_WINDOW_DAYS
    RetryLimit, \* the queue's
    MaxFaults   \* bound: what goes wrong in a behaviour

ASSUME DueWorkConstants ==
    /\ ExpiryJob \in Job
    /\ IsFiniteSet(Handler)
    /\ Life \in [Lot -> Nat \ {0}]
    /\ Points \in [Lot -> Nat \ {0}]
    /\ Interval \in Nat \ {0}
    /\ Window \in Nat
    /\ Window > Interval
    /\ RetryLimit \in Nat
    /\ MaxFaults \in Nat

VARIABLES
    power,      \* of the service: asleep, booting, or answering requests
    age,        \* time since last_run_at; Never when null, Absent without a row
    claimed,    \* what each pass has claimed and not published yet
    ready,      \* deliverable messages of ExpiryJob, by retries used
    run,        \* how far each handler has come
    left,       \* time until expires_at
    remaining,  \* remaining_points
    noticed,    \* lots with a committed row in pre_expiry_notifications
    notices,    \* preExpiryEmail jobs published for each lot
    mail,       \* of these, not sent yet
    told,       \* the amount in the last notice of each lot
    unwarned,   \* lots that expired without a notice on record
    aborted,    \* sweeps that rolled back after publishing a lot's notice
    faults      \* what has gone wrong

scheduling == <<power, age, claimed>>
lotState == <<left, remaining, unwarned>>
noticeState == <<noticed, notices, mail, told, aborted>>
vars == <<scheduling, ready, run, lotState, noticeState, faults>>

Absent == -2
Never == -1

Idle == [pc |-> "idle", retries |-> 0, owned |-> FALSE, matured |-> {}, within |-> {},
         amounts |-> <<>>, done |-> {}]

Fault == faults < MaxFaults /\ faults' = faults + 1
-----------------------------------------------------------------------------
(* Fault: a job that never ran is not due.                                 *)
DueOnceRun == {j \in Job : age[j] >= Interval}

(* CLAIM_DUE_SQL's condition.                                              *)
Due == {j \in Job : age[j] = Never \/ age[j] >= Interval}

(* registerDueWorkJob: a row keeps its last_run_at.                        *)
Registered(j) == IF age[j] = Absent THEN Never ELSE age[j]

(* Boot: the schedulers register their jobs.                               *)
Boot ==
    /\ power = "asleep"
    /\ power' = "booting"
    /\ age' = [j \in Job |-> Registered(j)]
    /\ UNCHANGED <<claimed, ready, run, lotState, noticeState, faults>>

(* claimDueJobs: one statement finds and stamps them.  While booting there *)
(* is only the pass that startDueWorkTicker awaits.                        *)
Claim(p) ==
    /\ power # "asleep"
    /\ claimed[p] = {}
    /\ power = "booting" => \A q \in Pass : claimed[q] = {}
    /\ Due # {}
    /\ claimed' = [claimed EXCEPT ![p] = Due]
    /\ age' = [j \in Job |-> IF j \in Due THEN 0 ELSE age[j]]
    /\ UNCHANGED <<power, ready, run, lotState, noticeState, faults>>

(* The claim fails, at boot: the ticker reports it and goes on.            *)
ClaimFails ==
    /\ Fault
    /\ power = "booting"
    /\ power' = "awake"
    /\ UNCHANGED <<age, claimed, ready, run, lotState, noticeState>>

(* The boot pass is over: nothing is due and nothing left to publish.      *)
BootPassEnded == Due = {} /\ \A p \in Pass : claimed[p] = {}

(* app.listen, after startDueWorkTicker.                                   *)
Listen ==
    /\ power = "booting"
    /\ BootPassEnded
    /\ power' = "awake"
    /\ UNCHANGED <<age, claimed, ready, run, lotState, noticeState, faults>>

(* runDueWork's loop publishes the next claimed job.                       *)
Publish(p, j) ==
    /\ j \in claimed[p]
    /\ claimed' = [claimed EXCEPT ![p] = @ \ {j}]
    /\ ready' = IF j = ExpiryJob THEN [ready EXCEPT ![0] = @ + 1] ELSE ready
    /\ UNCHANGED <<power, age, run, lotState, noticeState, faults>>

(* boss.send throws: the pass ends and what it had claimed is not sent.    *)
PublishFails(p) ==
    /\ Fault
    /\ claimed[p] # {}
    /\ claimed' = [claimed EXCEPT ![p] = {}]
    /\ UNCHANGED <<power, age, ready, run, lotState, noticeState>>
-----------------------------------------------------------------------------
(* The queue, and what a handler's end does to it.                         *)

Redelivered(h) ==
    IF run[h].owned /\ run[h].retries < RetryLimit
    THEN [ready EXCEPT ![run[h].retries + 1] = @ + 1]
    ELSE ready

(* Fault: only the lots that enter the window at this very time.           *)
JustWithin(l) == left[l] = Window

(* Expires after asOf, and on or before windowEnd.                         *)
Within(l) == left[l] \in 1..Window

(* runDailyExpiry: asOf is read once, and settles which lots have matured  *)
(* and which are within the window.                                        *)
Deliver(h, n) ==
    /\ power # "asleep"
    /\ run[h].pc = "idle"
    /\ ready[n] > 0
    /\ ready' = [ready EXCEPT ![n] = @ - 1]
    /\ run' = [run EXCEPT ![h] =
                 [Idle EXCEPT !.pc = "scan", !.retries = n, !.owned = TRUE,
                              !.matured = {l \in Lot : left[l] = 0},
                              !.within = {l \in Lot : Within(l)}]]
    /\ UNCHANGED <<scheduling, lotState, noticeState, faults>>

(* The job outlives its expireIn and is delivered again; the handler does  *)
(* not know.                                                               *)
TimeOut(h) ==
    /\ Fault
    /\ run[h].owned
    /\ ready' = Redelivered(h)
    /\ run' = [run EXCEPT ![h].owned = FALSE]
    /\ UNCHANGED <<scheduling, lotState, noticeState>>

Abort(h) ==
    /\ ready' = Redelivered(h)
    /\ run' = [run EXCEPT ![h] = Idle]
    /\ aborted' = [l \in Lot |-> aborted[l] + IF l \in run[h].done THEN 1 ELSE 0]

(* A statement or a send fails: the open transaction is rolled back.       *)
HandlerFails(h) ==
    /\ Fault
    /\ run[h].pc # "idle"
    /\ Abort(h)
    /\ UNCHANGED <<scheduling, lotState, noticed, notices, mail, told>>

(* Fault: the lots selected are not locked.                                *)
NothingLocked(l) == FALSE

(* FOR UPDATE OF pl, until the sweep's transaction ends.                   *)
Locked(l) == \E h \in Handler : l \in DOMAIN run[h].amounts

(* runExpiryScan commits: Isolation has its statements.                    *)
Scan(h) ==
    LET taken == {l \in run[h].matured : remaining[l] > 0}
    IN  /\ run[h].pc = "scan"
        /\ \A l \in taken : ~Locked(l)
        /\ remaining' = [l \in Lot |-> IF l \in taken THEN 0 ELSE remaining[l]]
        /\ unwarned' = unwarned \cup (taken \ noticed)
        /\ run' = [run EXCEPT ![h].pc = "select"]
        /\ UNCHANGED <<scheduling, ready, left, noticeState, faults>>

(* SELECT_QUALIFYING_LOTS_SQL takes its snapshot ...                       *)
Select(h) ==
    /\ run[h].pc = "select"
    /\ run' = [run EXCEPT ![h].pc = "lock",
                          ![h].within = {l \in @ : remaining[l] > 0 /\ l \notin noticed}]
    /\ UNCHANGED <<scheduling, ready, lotState, noticeState, faults>>

(* Fault: a row emptied while it was waited for is selected all the same.  *)
RowsOfSnapshot(h) == run[h].within

Rows(h) == {l \in run[h].within : remaining[l] > 0}

(* ... and waits for the rows; one that changed meanwhile is looked at     *)
(* again, but not its notices.                                             *)
LockSelected(h) ==
    /\ run[h].pc = "lock"
    /\ \A l \in run[h].within : ~Locked(l)
    /\ run' = [run EXCEPT ![h].pc = "notify",
                          ![h].amounts = [l \in Rows(h) |-> remaining[l]]]
    /\ UNCHANGED <<scheduling, ready, lotState, noticeState, faults>>

(* Fault: ON CONFLICT DO NOTHING.                                          *)
ConflictIgnored(l) == FALSE

(* UNIQUE (point_lot_id): the notice is already on record.                 *)
Conflicts(l) == l \in noticed

(* One lot: its notice is published, or collapses with a pending one (the  *)
(* singletonKey), and its row inserted.                                    *)
Notify(h, l) ==
    /\ run[h].pc = "notify"
    /\ l \in DOMAIN run[h].amounts \ run[h].done
    /\ \/ /\ notices' = [notices EXCEPT ![l] = @ + 1]
          /\ mail' = [mail EXCEPT ![l] = @ + 1]
          /\ told' = [told EXCEPT ![l] = run[h].amounts[l]]
       \/ /\ mail[l] > 0
          /\ UNCHANGED <<notices, mail, told>>
    /\ IF Conflicts(l)
       THEN /\ ready' = Redelivered(h)
            /\ run' = [run EXCEPT ![h] = Idle]
            /\ aborted' = [m \in Lot |->
                  aborted[m] + IF m \in run[h].done \cup {l} THEN 1 ELSE 0]
       ELSE /\ run' = [run EXCEPT ![h].done = @ \cup {l}]
            /\ UNCHANGED <<ready, aborted>>
    /\ UNCHANGED <<scheduling, lotState, noticed, faults>>

(* The sweep commits and the job is complete.                              *)
Finish(h) ==
    /\ run[h].pc = "notify"
    /\ run[h].done = DOMAIN run[h].amounts
    /\ noticed' = noticed \cup run[h].done
    /\ run' = [run EXCEPT ![h] = Idle]
    /\ UNCHANGED <<scheduling, ready, lotState, notices, mail, told, aborted, faults>>

(* processPreExpiryEmailJob, with the provider that only logs.             *)
SendPreExpiryEmail(l) ==
    /\ power # "asleep"
    /\ mail[l] > 0
    /\ mail' = [mail EXCEPT ![l] = @ - 1]
    /\ UNCHANGED <<scheduling, ready, run, lotState, noticed, notices, told, aborted, faults>>
-----------------------------------------------------------------------------
(* A redemption or a clawback draws on a lot.                              *)
Spend(l) ==
    /\ power # "asleep"
    /\ remaining[l] > 0
    /\ left[l] > 0
    /\ ~Locked(l)
    /\ remaining' = [remaining EXCEPT ![l] = @ - 1]
    /\ UNCHANGED <<scheduling, ready, run, left, unwarned, noticeState, faults>>

(* The host spins down or the process dies: passes and transactions end,   *)
(* jobs at work are delivered again.                                       *)
Sleep ==
    /\ Fault
    /\ power # "asleep"
    /\ power' = "asleep"
    /\ claimed' = [p \in Pass |-> {}]
    /\ ready' = [n \in 0..RetryLimit |-> ready[n] +
          IF n = 0 THEN 0
          ELSE Cardinality({h \in Handler : run[h].owned /\ run[h].retries = n - 1})]
    /\ run' = [h \in Handler |-> Idle]
    /\ aborted' = [l \in Lot |->
          aborted[l] + Cardinality({h \in Handler : l \in run[h].done})]
    /\ UNCHANGED <<age, lotState, noticed, notices, mail, told>>

Busy ==
    \/ Due # {}
    \/ \E p \in Pass : claimed[p] # {}
    \/ \E n \in 0..RetryLimit : ready[n] > 0
    \/ \E h \in Handler : run[h].pc # "idle"
    \/ \E l \in Lot : mail[l] > 0

(* Time passes: everything the service does takes little of it, or         *)
(* something is late.                                                      *)
Tick ==
    /\ \A j \in Job : age[j] # Absent
    /\ IF power = "booting" \/ (power = "awake" /\ Busy) THEN Fault ELSE UNCHANGED faults
    /\ age' = [j \in Job |->
          IF age[j] = Never THEN Never ELSE IF age[j] < Interval THEN age[j] + 1 ELSE Interval]
    /\ left' = [l \in Lot |-> IF left[l] > 0 THEN left[l] - 1 ELSE 0]
    /\ UNCHANGED <<power, claimed, ready, run, remaining, unwarned, noticeState>>

Init ==
    /\ power = "asleep"
    /\ age = [j \in Job |-> Absent]
    /\ claimed = [p \in Pass |-> {}]
    /\ ready = [n \in 0..RetryLimit |-> 0]
    /\ run = [h \in Handler |-> Idle]
    /\ left = Life
    /\ remaining = Points
    /\ noticed = {} /\ unwarned = {}
    /\ notices = [l \in Lot |-> 0]
    /\ mail = [l \in Lot |-> 0]
    /\ told = [l \in Lot |-> 0]
    /\ aborted = [l \in Lot |-> 0]
    /\ faults = 0

Scheduling ==
    \/ Boot \/ Listen
    \/ \E p \in Pass : Claim(p) \/ \E j \in Job : Publish(p, j)

Handling(h) ==
    \/ \E n \in 0..RetryLimit : Deliver(h, n)
    \/ Scan(h) \/ Select(h) \/ LockSelected(h) \/ Finish(h)
    \/ \E l \in Lot : Notify(h, l)

Service ==
    \/ Scheduling
    \/ \E h \in Handler : Handling(h)
    \/ \E l \in Lot : SendPreExpiryEmail(l)

Trouble ==
    \/ ClaimFails \/ Sleep
    \/ \E p \in Pass : PublishFails(p)
    \/ \E h \in Handler : TimeOut(h) \/ HandlerFails(h)

Next == Service \/ Trouble \/ Tick \/ \E l \in Lot : Spend(l)

Spec == Init /\ [][Next]_vars

(* The service is woken by requests, and awake it runs its event loop.     *)
FairSpec == Spec /\ WF_vars(Service) /\ WF_vars(Tick)
-----------------------------------------------------------------------------
TypeOK ==
    /\ power \in {"asleep", "booting", "awake"}
    /\ age \in [Job -> {Absent, Never} \cup 0..Interval]
    /\ claimed \in [Pass -> SUBSET Job]
    /\ DOMAIN ready = 0..RetryLimit /\ \A n \in 0..RetryLimit : ready[n] \in Nat
    /\ \A h \in Handler :
        /\ DOMAIN run[h] = DOMAIN Idle
        /\ run[h].pc \in {"idle", "scan", "select", "lock", "notify"}
        /\ run[h].retries \in 0..RetryLimit
        /\ run[h].matured \subseteq Lot /\ run[h].within \subseteq Lot
        /\ run[h].done \subseteq DOMAIN run[h].amounts
        /\ \A l \in DOMAIN run[h].amounts : run[h].amounts[l] \in 1..Points[l]
    /\ \A l \in Lot :
        /\ left[l] \in 0..Life[l]
        /\ remaining[l] \in 0..Points[l]
        /\ told[l] \in 0..Points[l]
        /\ {notices[l], mail[l], aborted[l]} \subseteq Nat
        /\ mail[l] <= notices[l]
    /\ noticed \subseteq Lot /\ unwarned \subseteq Lot
    /\ faults \in 0..MaxFaults

(* Req 5.4: a lot on record as notified has had its notice published, and  *)
(* each notice beyond that one is of a sweep that rolled back or is still  *)
(* open: sweeps that settled never notify again.                           *)
NoticesAccountedFor ==
    \A l \in Lot :
        /\ l \in noticed => notices[l] > 0
        /\ notices[l] <= aborted[l] + Cardinality({h \in Handler : l \in run[h].done})
                         + IF l \in noticed THEN 1 ELSE 0

(* While nothing has gone wrong no member's points expire unwarned,        *)
(* whatever the phase between the daily runs and the lot's end.            *)
WarnedUnlessTrouble == faults = 0 => unwarned = {}

(* A notice says what the lot holds at that moment, though redemptions     *)
(* draw on it meanwhile.                                                   *)
NoticeSaysWhatRemains ==
    [][\A l \in Lot : notices'[l] > notices[l] =>
          told'[l] = remaining[l] /\ remaining[l] > 0]_vars

(* Missed work is delayed, never lost: every lot expires in the end,       *)
(* however runs failed, and every notice published is sent.                *)
MissedWorkCatchesUp == <>[](\A l \in Lot : remaining[l] = 0 /\ mail[l] = 0)
=============================================================================
