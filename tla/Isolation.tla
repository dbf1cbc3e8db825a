------------------------------ MODULE Isolation ------------------------------
(***************************************************************************)
(* The transactions of Ledger cut into their statements, as PostgreSQL     *)
(* runs them at READ COMMITTED: a statement reads what is committed when   *)
(* it runs, a row that is locked is waited for and read again, and the     *)
(* writes of a transaction appear when it commits.  One member, whose row  *)
(* a redemption locks FOR UPDATE; an order and a reconciliation lock it    *)
(* for an update that leaves the key alone; inserting an entry takes a key *)
(* share of it, which only the former refuses.  The lots are locked by     *)
(* every debit and by the expiry scan.                                     *)
(***************************************************************************)
EXTENDS Tier, FiniteSets, FiniteSetsExt, Functions

CONSTANTS
    Txn,        \* transactions
    Kind,       \* what each one is
    Scenario,   \* the sets of transactions that may run in one behaviour
    Lot,        \* the lots, numbered by earned_at
    Original,   \* their original_points
    Dated,      \* the lots that have matured once now is 1
    OrderLot,   \* the lot of the order that clawbacks are about
    NewLot,     \* the lot an order paid in the meantime brings
    Cost,       \* of the reward redeemed; the key is the same for all
    Desired,    \* what each clawback asks for
    Spent,      \* lifetime spend at first, and after the order paid
    RetryLimit, \* the queue's, for the jobs among the transactions
    None        \* nobody

ASSUME IsolationConstants ==
    /\ Kind \in [Txn -> {"redeem", "clawback", "expire", "earn", "adjust", "reconcile"}]
    /\ Scenario \subseteq SUBSET Txn
    /\ Lot \subseteq Nat \ {0} /\ IsFiniteSet(Lot)
    /\ Original \in [Lot -> Nat \ {0}]
    /\ Dated \subseteq Lot
    /\ {OrderLot, NewLot} \subseteq Lot
    /\ \A i \in Lot \ {NewLot} : i < NewLot
    /\ Cost \in Nat \ {0}
    /\ Desired \in [Txn -> Nat \ {0}]
    /\ Spent \in [{"before", "after"} -> Nat]
    /\ Spent["before"] <= Spent["after"]
    /\ RetryLimit \in Nat
    /\ None \notin Txn \cup Lot

VARIABLES
    lots,       \* remaining_points of the lots there are
    debits,     \* the negative ledger entries
    spend,      \* customers.lifetime_spend_gbp
    tier,       \* customers.tier
    points,     \* customers.lifetime_points, which only reconciliations write
    now,        \* the database clock: 1 once the dated lots have matured
    step,       \* how far each transaction has come
    local,      \* what each has read
    begun,      \* how many transactions have begun
    attempts,   \* how often each has been tried
    rowLock,    \* who has locked the member's row for an update
    lotLock     \* who has locked each lot

tables == <<lots, debits, spend, tier, points>>
vars == <<tables, now, step, local, begun, attempts, rowLock, lotLock>>

Step == {"absent", "idle", "asked", "lock", "check", "read", "measure", "draw",
         "load", "balance", "lots", "debits", "row", "write", "commit", "ended"}

(* expire entries name their lot, the others none.  at is created_at, the  *)
(* time of BEGIN, and start its place among the entries of that time.      *)
Debit ==
    [by : Txn, type : {"spend", "clawback", "expire", "adjust"}, points : Nat \ {0},
     lot : Lot \cup {None}, at : 0..1, start : Nat]

SumOf(rows) == MapThenSumSet(LAMBDA d : d.points, rows)

SumLots(f, ids) == MapThenSumSet(LAMBDA i : f[i], ids)

Live(i, time) == i \notin Dated \/ time = 0

Consumable(time) == {i \in DOMAIN lots : lots[i] > 0 /\ Live(i, time)}

Clawed == {d \in debits : d.type = "clawback"}

(* Fault: a lot is asked for all that is still uncovered.                  *)
FifoTakeUncapped(f, ids, n, i) ==
    LET uncovered == n - SumLots(f, {j \in ids : j < i})
    IN  IF i \notin ids \/ uncovered <= 0 THEN 0 ELSE uncovered

(* planFifoConsumption: what n points take from lot i of the given ones.   *)
FifoTake(f, ids, n, i) ==
    LET uncovered == n - SumLots(f, {j \in ids : j < i})
    IN  IF i \notin ids \/ uncovered <= 0 THEN 0
        ELSE IF uncovered < f[i] THEN uncovered ELSE f[i]

Draw(f, ids, n) == [i \in DOMAIN f |-> f[i] - FifoTake(f, ids, n, i)]
-----------------------------------------------------------------------------
(* The reconciliation's replay of the debits over lots at their first size. *)

ReplayOne(f, d) ==
    IF d.type = "expire" /\ d.lot \in DOMAIN f
    THEN [f EXCEPT ![d.lot] = IF @ > d.points THEN @ - d.points ELSE 0]
    ELSE Draw(f, {i \in DOMAIN f : f[i] > 0 /\ Live(i, d.at)}, d.points)

InOrder(d, e) == \/ d.start < e.start
                 \/ d.start = e.start /\ None \notin {d.lot, e.lot} /\ d.lot < e.lot

(* The one that is replayed last.                                          *)
Latest(ds) == CHOOSE d \in ds : \A e \in ds \ {d} : InOrder(e, d)

Replay(ids, ds) ==
    MapThenFoldSet(LAMBDA d, f : ReplayOne(f, d), [i \in ids |-> Original[i]],
                   LAMBDA d : d, Latest, ds)
-----------------------------------------------------------------------------
(* Locks.                                                                  *)

(* The lots a statement of t is about to lock.                             *)
Wanted(t) ==
    CASE step[t] = "draw" -> Consumable(IF Kind[t] = "redeem" THEN local[t].asOf ELSE now)
      [] step[t] = "read" /\ Kind[t] = "expire" ->
            {i \in DOMAIN lots : lots[i] > 0 /\ ~Live(i, local[t].asOf)}
      [] step[t] = "write" -> {i \in DOMAIN local[t].seen : local[t].seen[i] # local[t].target[i]}
      [] OTHER -> {}

(* What takes a key share of the member's row with its entry, and no more. *)
Inserts == {"clawback", "expire", "adjust"}

RowRefusesShares == rowLock # None /\ Kind[rowLock] = "redeem"

(* Who has to end before t goes on.                                        *)
Blockers(t) ==
    LET onRow ==
          CASE step[t] = "lock" -> {rowLock}
            [] step[t] = "row" /\ local[t].drift -> {rowLock}
            [] step[t] = "commit" /\ Kind[t] \in Inserts /\ RowRefusesShares -> {rowLock}
            [] OTHER -> {}
    IN  (onRow \cup {lotLock[i] : i \in Wanted(t)}) \ {t, None}

Free(t) == Blockers(t) = {}

Goto(t, s) == step' = [step EXCEPT ![t] = s]

(* Fault: the member's row is read without FOR UPDATE.                     *)
LockNoRow(t) == UNCHANGED rowLock

LockRow(t) == rowLock' = t

LockLots(t) == lotLock' = [i \in Lot |-> IF i \in Wanted(t) THEN t ELSE lotLock[i]]

(* Fault: a transaction that throws keeps its connection and its locks.    *)
ReleaseNothing(t) == UNCHANGED <<rowLock, lotLock>>

Release(t) ==
    /\ rowLock' = IF rowLock = t THEN None ELSE rowLock
    /\ lotLock' = [i \in Lot |-> IF lotLock[i] = t THEN None ELSE lotLock[i]]

(* asOf and at are times, start the place in the order of BEGIN; the rest  *)
(* is what the statements have read.                                       *)
Blank == [asOf |-> 0, at |-> 0, start |-> 0, amount |-> 0, clawed |-> 0, spend |-> 0,
          points |-> 0, drift |-> FALSE, seen |-> <<>>, target |-> <<>>]

(* The end of a transaction that has nothing (more) to write.              *)
Finish(t) ==
    /\ Goto(t, "ended")
    /\ Release(t)
    /\ local' = [local EXCEPT ![t] = Blank]
    /\ UNCHANGED attempts

(* A throw rolls back; the queue tries its jobs again, up to its limit.    *)
Rollback(t) ==
    /\ Goto(t, IF Kind[t] \in {"clawback", "expire", "earn"} /\ attempts[t] < RetryLimit
               THEN "idle" ELSE "ended")
    /\ Release(t)
    /\ local' = [local EXCEPT ![t] = Blank]
    /\ attempts' = [attempts EXCEPT ![t] = @ + 1]
-----------------------------------------------------------------------------
(* Beginning.                                                              *)

(* redeem fixes asOf before it asks for a connection.                      *)
Ask(t) ==
    /\ step[t] = "idle"
    /\ Kind[t] = "redeem"
    /\ Goto(t, "asked")
    /\ local' = [local EXCEPT ![t].asOf = now]
    /\ UNCHANGED <<tables, now, begun, attempts, rowLock, lotLock>>

Begin(t) ==
    /\ \/ step[t] = "asked"
       \/ step[t] = "idle" /\ Kind[t] # "redeem"
    /\ begun' = begun + 1
    /\ local' = [local EXCEPT ![t].asOf = IF Kind[t] = "redeem" THEN @ ELSE now,
                              ![t].at = now, ![t].start = begun + 1]
    /\ Goto(t, CASE Kind[t] \in {"redeem", "earn"} -> "lock"
                 [] Kind[t] \in {"clawback", "expire"} -> "read"
                 [] Kind[t] = "adjust" -> "commit"
                 [] OTHER -> "load")
    /\ UNCHANGED <<tables, now, attempts, rowLock, lotLock>>

(* LOCK_CUSTOMER_SQL of a redemption, the upsert of an order.              *)
LockCustomer(t) ==
    /\ step[t] = "lock"
    /\ Free(t)
    /\ LockRow(t)
    /\ Goto(t, IF Kind[t] = "redeem" THEN "check" ELSE "commit")
    /\ UNCHANGED <<tables, now, local, begun, attempts, lotLock>>

NewDebit(t, type, n, lot) ==
    [by |-> t, type |-> type, points |-> n, lot |-> lot,
     at |-> local[t].at, start |-> local[t].start]
-----------------------------------------------------------------------------
(* Debits.                                                                 *)

(* The redemption under the key, then the spendable balance.               *)
CheckRedeem(t) ==
    /\ step[t] = "check"
    /\ IF \E d \in debits : d.type = "spend"
       THEN Finish(t)
       ELSE IF SumLots(lots, Consumable(local[t].asOf)) < Cost
       THEN Rollback(t)
       ELSE /\ Goto(t, "draw")
            /\ local' = [local EXCEPT ![t].amount = Cost]
            /\ UNCHANGED <<attempts, rowLock, lotLock>>
    /\ UNCHANGED <<tables, now, begun>>

(* Fault: what other refunds have taken back is not counted.               *)
HeadRoomOfEarnings == Original[OrderLot]

HeadRoom == Original[OrderLot] - SumOf(Clawed)

(* The look-ups of a clawback, which lock nothing.                         *)
ReadClawback(t) ==
    /\ step[t] = "read"
    /\ Kind[t] = "clawback"
    /\ IF HeadRoom <= 0 \/ \E d \in Clawed : d.by = t
       THEN Finish(t)
       ELSE /\ Goto(t, "measure")
            /\ local' = [local EXCEPT ![t].clawed = SumOf(Clawed),
                                      ![t].amount = IF Desired[t] < HeadRoom
                                                    THEN Desired[t] ELSE HeadRoom]
            /\ UNCHANGED <<attempts, rowLock, lotLock>>
    /\ UNCHANGED <<tables, now, begun>>

(* The clamp to the spendable balance.                                     *)
Measure(t) ==
    /\ step[t] = "measure"
    /\ LET spendable == SumLots(lots, Consumable(now))
       IN  IF spendable = 0
           THEN Finish(t)
           ELSE /\ Goto(t, "draw")
                /\ local' = [local EXCEPT ![t].amount = IF spendable < @ THEN spendable ELSE @]
                /\ UNCHANGED <<attempts, rowLock, lotLock>>
    /\ UNCHANGED <<tables, now, begun>>

(* consumeLotsFifo: SELECT ... FOR UPDATE, then a plan or a throw.         *)
SelectLots(t) ==
    /\ step[t] = "draw"
    /\ Free(t)
    /\ IF SumLots(lots, Wanted(t)) < local[t].amount
       THEN Rollback(t)
       ELSE /\ LockLots(t)
            /\ Goto(t, "commit")
            /\ local' = [local EXCEPT ![t].seen = Restrict(lots, Wanted(t))]
            /\ UNCHANGED <<attempts, rowLock>>
    /\ UNCHANGED <<tables, now, begun>>

(* The decrements by what was planned on the locked lots, the entry and    *)
(* the commit.                                                             *)
CommitDebit(t) ==
    /\ step[t] = "commit"
    /\ Kind[t] \in {"redeem", "clawback"}
    /\ Free(t)
    /\ LET seen == local[t].seen
       IN  lots' = [i \in DOMAIN lots |->
                      IF i \in DOMAIN seen
                      THEN lots[i] - FifoTake(seen, DOMAIN seen, local[t].amount, i)
                      ELSE lots[i]]
    /\ debits' = debits \cup {NewDebit(t, IF Kind[t] = "redeem" THEN "spend" ELSE "clawback",
                                       local[t].amount, None)}
    /\ Finish(t)
    /\ UNCHANGED <<spend, tier, points, now, begun>>

(* The scan selects and locks the matured lots that hold anything.         *)
SelectMatured(t) ==
    /\ step[t] = "read"
    /\ Kind[t] = "expire"
    /\ Free(t)
    /\ IF Wanted(t) = {}
       THEN Finish(t)
       ELSE /\ LockLots(t)
            /\ Goto(t, "commit")
            /\ local' = [local EXCEPT ![t].seen = Restrict(lots, Wanted(t))]
            /\ UNCHANGED <<attempts, rowLock>>
    /\ UNCHANGED <<tables, now, begun>>

CommitExpiry(t) ==
    /\ step[t] = "commit"
    /\ Kind[t] = "expire"
    /\ Free(t)
    /\ LET seen == local[t].seen
       IN  /\ lots' = [i \in DOMAIN lots |-> IF i \in DOMAIN seen THEN 0 ELSE lots[i]]
           /\ debits' = debits \cup {NewDebit(t, "expire", seen[i], i) : i \in DOMAIN seen}
    /\ Finish(t)
    /\ UNCHANGED <<spend, tier, points, now, begun>>

(* An operator's negative adjustment draws no lot.                         *)
CommitAdjustment(t) ==
    /\ step[t] = "commit"
    /\ Kind[t] = "adjust"
    /\ Free(t)
    /\ debits' = debits \cup {NewDebit(t, "adjust", Desired[t], None)}
    /\ Finish(t)
    /\ UNCHANGED <<lots, spend, tier, points, now, begun>>
-----------------------------------------------------------------------------
(* An order of the member's, under the lock of her row.                    *)
CommitOrder(t) ==
    /\ step[t] = "commit"
    /\ Kind[t] = "earn"
    /\ lots' = [i \in DOMAIN lots \cup {NewLot} |->
                  IF i \in DOMAIN lots THEN lots[i] ELSE Original[NewLot]]
    /\ spend' = Spent["after"]
    /\ tier' = AdvanceTier(tier, Spent["after"])
    /\ Finish(t)
    /\ UNCHANGED <<debits, points, now, begun>>
-----------------------------------------------------------------------------
(* reconcileCustomer.                                                      *)

Balance == SumLots(Original, DOMAIN lots) - SumOf(debits)

LoadCustomer(t) ==
    /\ step[t] = "load"
    /\ local' = [local EXCEPT ![t].spend = spend, ![t].points = points,
                              ![t].drift = DeriveTier(spend) # tier]
    /\ Goto(t, "balance")
    /\ UNCHANGED <<tables, now, begun, attempts, rowLock, lotLock>>

ComputeBalance(t) ==
    /\ step[t] = "balance"
    /\ local' = [local EXCEPT ![t].points = Balance, ![t].drift = @ \/ Balance # local[t].points]
    /\ Goto(t, "lots")
    /\ UNCHANGED <<tables, now, begun, attempts, rowLock, lotLock>>

LoadLots(t) ==
    /\ step[t] = "lots"
    /\ local' = [local EXCEPT ![t].seen = lots]
    /\ Goto(t, "debits")
    /\ UNCHANGED <<tables, now, begun, attempts, rowLock, lotLock>>

(* Fault: only what was there when the reconciliation began is replayed.   *)
DebitsBefore(t) == {d \in debits : d.start < local[t].start}

DebitsFound(t) == debits

LoadDebits(t) ==
    /\ step[t] = "debits"
    /\ local' = [local EXCEPT ![t].target = Replay(DOMAIN local[t].seen, DebitsFound(t))]
    /\ Goto(t, "row")
    /\ UNCHANGED <<tables, now, begun, attempts, rowLock, lotLock>>

(* UPDATE_CUSTOMER_CACHE_SQL, if the row differs from what was computed.   *)
UpdateRow(t) ==
    /\ step[t] = "row"
    /\ Free(t)
    /\ IF local[t].drift THEN LockRow(t) ELSE UNCHANGED rowLock
    /\ Goto(t, "write")
    /\ UNCHANGED <<tables, now, local, begun, attempts, lotLock>>

(* UPDATE_LOT_REMAINING_SQL for every lot that differs.                    *)
UpdateLots(t) ==
    /\ step[t] = "write"
    /\ Free(t)
    /\ LockLots(t)
    /\ Goto(t, "commit")
    /\ UNCHANGED <<tables, now, local, begun, attempts, rowLock>>

(* Fault: the tier is computed from the points.                            *)
RecomputedFromPoints(t) == DeriveTier(local[t].points)

RecomputedTier(t) == DeriveTier(local[t].spend)

Drifted(t) == {i \in DOMAIN local[t].seen : local[t].seen[i] # local[t].target[i]}

CommitReconcile(t) ==
    /\ step[t] = "commit"
    /\ Kind[t] = "reconcile"
    /\ lots' = [i \in DOMAIN lots |-> IF i \in Drifted(t) THEN local[t].target[i] ELSE lots[i]]
    /\ IF local[t].drift
       THEN tier' = RecomputedTier(t) /\ points' = local[t].points
       ELSE UNCHANGED <<tier, points>>
    /\ Finish(t)
    /\ UNCHANGED <<debits, spend, now, begun>>
-----------------------------------------------------------------------------
(* What ends a transaction from outside.                                   *)

(* SET LOCAL lock_timeout: a redemption waits five seconds and no more.    *)
LockTimeout(t) ==
    /\ Kind[t] = "redeem"
    /\ ~Free(t)
    /\ Rollback(t)
    /\ UNCHANGED <<tables, now, begun>>

(* PostgreSQL aborts one of two that wait for each other; longer cycles do *)
(* not occur, because only a redemption refuses key shares and it takes    *)
(* no lot before it has the row.                                           *)
DeadlockDetected(t) ==
    /\ \E u \in Blockers(t) : t \in Blockers(u)
    /\ Rollback(t)
    /\ UNCHANGED <<tables, now, begun>>

ConnectionLost(t) ==
    /\ step[t] \notin {"absent", "idle", "asked", "ended"}
    /\ Rollback(t)
    /\ UNCHANGED <<tables, now, begun>>

Tick ==
    /\ now = 0
    /\ now' = 1
    /\ UNCHANGED <<tables, step, local, begun, attempts, rowLock, lotLock>>
-----------------------------------------------------------------------------
Init ==
    /\ lots = [i \in Lot \ {NewLot} |-> Original[i]]
    /\ debits = {}
    /\ spend = Spent["before"]
    /\ tier = DeriveTier(Spent["before"])
    /\ points = SumLots(Original, Lot \ {NewLot})
    /\ now = 0
    /\ \E running \in Scenario :
          step = [t \in Txn |-> IF t \in running THEN "idle" ELSE "absent"]
    /\ local = [t \in Txn |-> Blank]
    /\ begun = 0
    /\ attempts = [t \in Txn |-> 0]
    /\ rowLock = None
    /\ lotLock = [i \in Lot |-> None]

Statement(t) ==
    \/ Ask(t) \/ Begin(t) \/ LockCustomer(t)
    \/ CheckRedeem(t) \/ ReadClawback(t) \/ Measure(t) \/ SelectLots(t) \/ CommitDebit(t)
    \/ SelectMatured(t) \/ CommitExpiry(t) \/ CommitAdjustment(t) \/ CommitOrder(t)
    \/ LoadCustomer(t) \/ ComputeBalance(t) \/ LoadLots(t) \/ LoadDebits(t)
    \/ UpdateRow(t) \/ UpdateLots(t) \/ CommitReconcile(t)

Next ==
    \/ \E t \in Txn : Statement(t) \/ LockTimeout(t) \/ DeadlockDetected(t) \/ ConnectionLost(t)
    \/ Tick

Spec == Init /\ [][Next]_vars

(* What can run runs, and PostgreSQL looks for deadlocks.                  *)
Fairness ==
    /\ WF_vars(\E t \in Txn : Statement(t))
    /\ WF_vars(\E t \in Txn : DeadlockDetected(t))

FairSpec == Spec /\ Fairness
-----------------------------------------------------------------------------
TypeOK ==
    /\ DOMAIN lots \subseteq Lot
    /\ \A i \in DOMAIN lots : lots[i] \in 0..Original[i]
    /\ debits \subseteq Debit
    /\ spend \in Nat /\ tier \in TierRank /\ points \in Int
    /\ now \in 0..1
    /\ step \in [Txn -> Step]
    /\ begun \in Nat /\ attempts \in [Txn -> Nat]
    /\ rowLock \in Txn \cup {None}
    /\ lotLock \in [Lot -> Txn \cup {None}]

(* How far the lots are from the ledger, negative adjustments apart.       *)
Drift ==
    SumLots(lots, DOMAIN lots) - (Balance + SumOf({d \in debits : d.type = "adjust"}))

CommitsReconcile(t) == Kind[t] = "reconcile" /\ step[t] = "commit" /\ step'[t] = "ended"

(* Req 3.7: requests with one key spend once.                              *)
OneSpend == Cardinality({d \in debits : d.type = "spend"}) <= 1

(* Property 8, as far as the code goes: an order gives back more than it   *)
(* earned only if another clawback of it committed after the look-up.      *)
ClawbackExceedsOnlyInRaces ==
    [][\A t \in Txn : Kind[t] = "clawback" /\ debits' # debits /\ step'[t] # step[t]
          => local[t].clawed # SumOf(Clawed) \/ SumOf(Clawed') <= Original[OrderLot]]_vars

(* A debit that races a reconciliation is not undone by it, because the    *)
(* lots are read before the entries; that takes two debits, one on either  *)
(* side of the second read (and no lot that matures: the replay dates a    *)
(* debit from its BEGIN, the live one from asOf).                          *)
SingleDebitSurvives ==
    [][\A t \in Txn : CommitsReconcile(t) /\ now = 0 /\ Cardinality(debits) <= 1
          => Drift' <= Drift]_vars

(* Req 7.3, as far as the code goes: nothing lowers the tier, except for a *)
(* reconciliation that has read the spend before an order was paid.        *)
TierLoweredOnlyByStaleReads ==
    [][tier' < tier => \E t \in Txn : CommitsReconcile(t) /\ local[t].spend # spend]_vars

(* Whatever locks are taken in whatever order, every transaction ends.     *)
EveryoneEnds == <>[](\A t \in Txn : step[t] \in {"absent", "ended"})
-----------------------------------------------------------------------------
(* What is said of the code and does not hold.                             *)

(* "No lot is ever expired twice" (runExpiryScan, Property 9).  A scan     *)
(* leaves a lot empty, but a reconciliation that read the lot before may   *)
(* write a remainder back, and the next scan expires that.                 *)
ExpiredOnce ==
    \A d, e \in debits : d.type = "expire" /\ e.type = "expire" /\ d.lot = e.lot => d = e
=============================================================================
