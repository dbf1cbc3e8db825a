------------------------------- MODULE Ledger -------------------------------
(***************************************************************************)
(* The points ledger: what every committed database transaction of the     *)
(* loyalty service does to the tables customers, ledger_entries,           *)
(* point_lots, redemptions and referrals.  One action is one transaction,  *)
(* with all the rows it reads and writes; a transaction that rolls back or *)
(* finds nothing to do is a stutter.  What a handler does before or after  *)
(* its transaction (queues, Shopify calls, retries) is the business of     *)
(* other modules, and so are the interleavings inside a transaction.       *)
(***************************************************************************)
EXTENDS Tier, FiniteSets, FiniteSetsExt, Functions

CONSTANTS
    Customer,       \* rows the customers table may hold
    Order,          \* Shopify orders
    OrderOwner,     \* the customer an orders/paid payload names
    OrderTotal,     \* post-discount total of an order, in pence
    Event,          \* webhook ids of refund and cancellation deliveries
    RefundAmount,   \* refunded line-item totals a refund may carry, in pence
    Key,            \* idempotency keys a customer redeems under
    RewardCost,     \* point costs of the reward catalogue
    Adjustment,     \* signed amounts an operator may post
    Legacy,         \* opening points and retained spend of migrated members
    LotLife,        \* lifetime of an expiring lot, in ticks of the clock
    AllowNegative,  \* ClawbackPolicy.allowNegative
    AllowDowngrade, \* ClawbackPolicy.allowTierDowngradeOnClawback
    MaxEntries,     \* bound on the number of ledger entries
    MaxIdleSpend,   \* bound on the spend that orders under a point add up to
    MaxNow,         \* bound on the clock
    None            \* SQL NULL

ASSUME LedgerConstants ==
    /\ OrderOwner \in [Order -> Customer]
    /\ OrderTotal \in [Order -> Nat]
    /\ RefundAmount \subseteq Nat
    /\ RewardCost \subseteq Nat \ {0}
    /\ Adjustment \subseteq Int \ {0}
    /\ DOMAIN Legacy \subseteq Customer /\ IsFiniteSet(DOMAIN Legacy)
    /\ \A c \in DOMAIN Legacy : Legacy[c] \in [points : Nat \ {0}, spend : Nat]
    /\ LotLife \in Nat \ {0}
    /\ AllowNegative \in BOOLEAN
    /\ AllowDowngrade \in BOOLEAN
    /\ MaxEntries \in Nat
    /\ MaxIdleSpend \in Nat
    /\ MaxNow \in Nat
    /\ None \notin Customer \cup Order \cup Event \cup Key

VARIABLES
    known,          \* customers with a row
    tier,           \* customers.tier
    spend,          \* customers.lifetime_spend_gbp, in pence
    ledger,         \* set of ledger_entries rows
    lots,           \* point_lots rows, by the id of the entry they back
    redemptions,    \* redemptions rows, by customer and idempotency key
    referrals,      \* referrals rows, by the referred customer
    serial,         \* the last ledger entry id handed out
    now             \* the database clock

vars == <<known, tier, spend, ledger, lots, redemptions, referrals, serial, now>>

SIGNUP_POINTS == 50
FIRST_PURCHASE_POINTS == 100
REFERRAL_SIGNUP_POINTS == 150
REFERRAL_PURCHASE_POINTS == 250

EarnType == {"earn_signup", "earn_order", "earn_first_purchase", "earn_referral"}
DebitType == {"spend", "clawback", "expire"}
EntryType == EarnType \cup DebitType \cup {"adjust", "migration"}

(* Only orders and first purchases carry an order reference, so these are  *)
(* the entries a clawback of that order can find.                          *)
OrderEarnType == {"earn_order", "earn_first_purchase"}

Points == Nat \ {0}

(* expires_at of a lot that never expires; a real expiry is never 0.       *)
NoExpiry == 0

Entry ==
    [id : Nat, customer : Customer, type : EntryType, points : Int \ {0},
     order : Order \cup {None}, event : Event \cup {None},
     key : Key \cup {None}, lot : Nat \cup {None},
     referred : Customer \cup {None}]

(* earnedAt is the start of the transaction that wrote the lot, told by the *)
(* ids handed out before it: the lots of one transaction share it.  place   *)
(* is the row's ctid, its place in the heap.                                *)
Lot ==
    [customer : Customer, original : Points, remaining : Nat,
     earnedAt : Nat, place : Nat, expiresAt : Nat]

Redemption ==
    [status : {"absent", "pending_code", "issued", "failed"}, cost : Nat]

Referral == [referrer : Customer \cup {None}, purchaseRewarded : BOOLEAN]
-----------------------------------------------------------------------------
(* Reading the tables.                                                     *)

EntriesOf(c) == {e \in ledger : e.customer = c}

SumPoints(entries) == MapThenSumSet(LAMBDA e : e.points, entries)

(* computeBalance: SUM(points).                                            *)
Balance(c) == SumPoints(EntriesOf(c))

LotsOf(c) == {i \in DOMAIN lots : lots[i].customer = c}

SumRemaining(ids) == MapThenSumSet(LAMBDA i : lots[i].remaining, ids)

Live(i) == lots[i].expiresAt = NoExpiry \/ lots[i].expiresAt > now

(* The lots a debit may draw on.                                           *)
Consumable(c) == {i \in LotsOf(c) : lots[i].remaining > 0 /\ Live(i)}

Spendable(c) == SumRemaining(Consumable(c))

(* Fault: drawing by ctid alone, which an update of a lot changes.         *)
BeforeByPlace(i, j) == lots[i].place < lots[j].place

(* The order in which the lots are drawn: earning date, then ctid.         *)
Before(i, j) ==
    \/ lots[i].earnedAt < lots[j].earnedAt
    \/ lots[i].earnedAt = lots[j].earnedAt /\ lots[i].place < lots[j].place

(* Fault: no lot is asked for less than what is still uncovered.           *)
FifoTakeUncapped(c, n, i) ==
    LET uncovered == n - SumRemaining({j \in Consumable(c) : Before(j, i)})
    IN  IF i \in Consumable(c) /\ uncovered > 0 THEN uncovered ELSE 0

(* What consumeLotsFifo takes from lot i when asked for n points of c: the *)
(* part of n that the lots before i leave uncovered, up to what i holds.   *)
FifoTake(c, n, i) ==
    LET uncovered == n - SumRemaining({j \in Consumable(c) : Before(j, i)})
    IN  IF i \notin Consumable(c) THEN 0
        ELSE IF uncovered \in 0..lots[i].remaining THEN uncovered
        ELSE IF uncovered > lots[i].remaining THEN lots[i].remaining
        ELSE 0

(* PostgreSQL writes a new row version for every update, in a free slot or *)
(* behind the rows already there: an updated lot may keep its place or     *)
(* move.                                                                   *)
ConsumeLotsFifo(c, n) ==
    \E moved \in BOOLEAN :
        lots' = [i \in DOMAIN lots |->
                   IF FifoTake(c, n, i) = 0 THEN lots[i]
                   ELSE [lots[i] EXCEPT !.remaining = @ - FifoTake(c, n, i),
                                        !.place = IF moved THEN serial + 1 ELSE @]]

OrderEarnings(o) == {e \in ledger : e.order = o /\ e.type \in OrderEarnType}
OrderClawbacks(o) == {e \in ledger : e.order = o /\ e.type = "clawback"}

(* Fault: the retry does not look for the reversal it has already posted.  *)
ReversalsForgotten(c, k) == {}

(* What reverseSpend's guard finds.                                        *)
Reversals(c, k) ==
    {e \in EntriesOf(c) : e.key = k /\ e.type = "adjust"}
-----------------------------------------------------------------------------
(* Writing the ledger.                                                     *)

NewEntry(id, c, type, points) ==
    [id |-> id, customer |-> c, type |-> type, points |-> points,
     order |-> None, event |-> None, key |-> None, lot |-> None,
     referred |-> None]

NewLot(id, c, points, expiresAt) ==
    [customer |-> c, original |-> points, remaining |-> points,
     earnedAt |-> serial, place |-> id, expiresAt |-> expiresAt]

(* Fault: a reversal restores the balance but not the lots.                *)
CreditBarringAdjustments(entries, expiresAt) ==
    /\ ledger' = ledger \cup entries
    /\ LET backed == {e \in entries : e.type # "adjust"}
       IN  lots' = [i \in DOMAIN lots \cup {e.id : e \in backed} |->
                      IF i \in DOMAIN lots
                      THEN lots[i]
                      ELSE LET e == CHOOSE x \in backed : x.id = i
                           IN  NewLot(i, e.customer, e.points, expiresAt)]

(* Append credits, each with its backing lot (createExpiringPointLot).     *)
Credit(entries, expiresAt) ==
    /\ ledger' = ledger \cup entries
    /\ lots' = [i \in DOMAIN lots \cup {e.id : e \in entries} |->
                  IF i \in DOMAIN lots
                  THEN lots[i]
                  ELSE LET e == CHOOSE x \in entries : x.id = i
                       IN  NewLot(i, e.customer, e.points, expiresAt)]

(* Hand out n more entry ids.                                              *)
TakeIds(n) ==
    /\ Cardinality(ledger) < MaxEntries
    /\ serial' = serial + n
-----------------------------------------------------------------------------
(* Enrolment and referrals.                                                *)

HasSignup(c) == \E e \in EntriesOf(c) : e.type = "earn_signup"
HasMigration(c) == \E e \in EntriesOf(c) : e.type = "migration"

HasOrder(c) == \E e \in EntriesOf(c) : e.type = "earn_order"

(* A row created by a read-path fallback: no award.                        *)
EnrolWithoutAward(c) ==
    /\ c \notin known
    /\ known' = known \cup {c}
    /\ UNCHANGED <<tier, spend, ledger, lots, redemptions, referrals, serial, now>>

(* customers/create: the row and, once in a lifetime and never on top of a *)
(* migrated balance, 50 points.                                            *)
EarnSignup(c) ==
    /\ ~HasSignup(c)
    /\ ~HasMigration(c)
    /\ TakeIds(1)
    /\ known' = known \cup {c}
    /\ Credit({NewEntry(serial + 1, c, "earn_signup", SIGNUP_POINTS)}, now + LotLife)
    /\ UNCHANGED <<tier, spend, redemptions, referrals, now>>

(* POST /v1/referral by c with r's code: one accepted referral per friend, *)
(* none to oneself.  That c has no paid order is looked up before the      *)
(* transaction, so an order may have been paid in between: not a guard.    *)
ClaimReferral(c, r) ==
    /\ {c, r} \subseteq known
    /\ r # c
    /\ referrals[c].referrer = None
    /\ TakeIds(1)
    /\ referrals' = [referrals EXCEPT ![c].referrer = r]
    /\ Credit({[NewEntry(serial + 1, r, "earn_referral", REFERRAL_SIGNUP_POINTS)
                  EXCEPT !.referred = c]}, now + LotLife)
    /\ UNCHANGED <<known, tier, spend, redemptions, now>>

(* runM1Backfill: every legacy member in one transaction.  A re-run posts  *)
(* no second entry but does write the exported tier and spend again; the   *)
(* transaction is given up unless each balance is the migrated one.        *)
Migrate ==
    LET fresh == {c \in DOMAIN Legacy : ~HasMigration(c)}
    IN  /\ \A c \in DOMAIN Legacy :
              Balance(c) = IF c \in fresh THEN 0 ELSE Legacy[c].points
        /\ TakeIds(Cardinality(fresh))
        /\ known' = known \cup DOMAIN Legacy
        /\ spend' = [c \in Customer |->
                       IF c \in DOMAIN Legacy THEN Legacy[c].spend ELSE spend[c]]
        /\ tier' = [c \in Customer |->
                      IF c \in DOMAIN Legacy THEN DeriveTier(Legacy[c].spend) ELSE tier[c]]
        /\ \E id \in Injection(fresh, (serial + 1)..(serial + Cardinality(fresh))) :
              Credit({NewEntry(id[c], c, "migration", Legacy[c].points) : c \in fresh},
                     NoExpiry)
        /\ UNCHANGED <<redemptions, referrals, now>>
-----------------------------------------------------------------------------
(* Orders.                                                                 *)

(* Fault: the bonus does not name its order, so no refund will find it.    *)
OrderCreditsBareBonus(o, points, first, rewarded) ==
    LET c == OrderOwner[o]
    IN  {[NewEntry(serial + 1, c, "earn_order", points) EXCEPT !.order = o]}
        \cup (IF first
              THEN {NewEntry(serial + 2, c, "earn_first_purchase", FIRST_PURCHASE_POINTS)}
              ELSE {})
        \cup (IF rewarded
              THEN {[NewEntry(serial + 3, referrals[c].referrer, "earn_referral",
                              REFERRAL_PURCHASE_POINTS) EXCEPT !.referred = c]}
              ELSE {})

(* The entries one paid order posts: the order's points; with the first    *)
(* earning order the bonus; and with it the referrer's second reward.      *)
OrderCredits(o, points, first, rewarded) ==
    LET c == OrderOwner[o]
        onOrder(id, type, p) == [NewEntry(id, c, type, p) EXCEPT !.order = o]
    IN  {onOrder(serial + 1, "earn_order", points)}
        \cup (IF first
              THEN {onOrder(serial + 2, "earn_first_purchase", FIRST_PURCHASE_POINTS)}
              ELSE {})
        \cup (IF rewarded
              THEN {[NewEntry(serial + 3, referrals[c].referrer, "earn_referral",
                              REFERRAL_PURCHASE_POINTS) EXCEPT !.referred = c]}
              ELSE {})

(* handleOrdersPaidJob.  An order of no value only enrols its customer; an *)
(* order worth less than a point posts nothing but still counts as spend.  *)
OrdersPaid(o) ==
    LET c == OrderOwner[o]
        tierAtTime == AdvanceTier(tier[c], spend[c])
        points == OrderPoints(OrderTotal[o], tierAtTime)
        first == points > 0 /\ ~HasOrder(c)
        rewarded == /\ first
                    /\ referrals[c].referrer # None
                    /\ ~referrals[c].purchaseRewarded
    IN  /\ OrderTotal[o] > 0
        /\ ~ \E e \in EntriesOf(c) : e.type = "earn_order" /\ e.order = o
        /\ known' = known \cup {c}
        /\ spend' = [spend EXCEPT ![c] = @ + OrderTotal[o]]
        /\ tier' = [tier EXCEPT ![c] = AdvanceTier(tierAtTime, spend'[c])]
        /\ IF points > 0
           THEN /\ TakeIds(3)
                /\ Credit(OrderCredits(o, points, first, rewarded), now + LotLife)
           ELSE /\ spend'[c] <= MaxIdleSpend
                /\ UNCHANGED <<ledger, lots, serial>>
        /\ referrals' = IF rewarded
                        THEN [referrals EXCEPT ![c].purchaseRewarded = TRUE]
                        ELSE referrals
        /\ UNCHANGED <<redemptions, now>>

EnrolByWorthlessOrder(o) ==
    /\ OrderTotal[o] = 0
    /\ EnrolWithoutAward(OrderOwner[o])

(* handleRefundJob and handleOrderCancelledJob: what is still owed on the  *)
(* order bounds the clawback, and so do the points left to take.           *)
Clawback(o, desired, moneyBack, ev) ==
    LET c == (CHOOSE e \in OrderEarnings(o) : TRUE).customer
        taken == IF desired <= Spendable(c) THEN desired ELSE Spendable(c)
        magnitude == IF AllowNegative THEN desired ELSE taken
        spendLeft == IF moneyBack >= spend[c] THEN 0 ELSE spend[c] - moneyBack
    IN  /\ OrderEarnings(o) # {}
        /\ ~ \E e \in OrderClawbacks(o) : e.event = ev
        /\ desired \in Points
        /\ magnitude \in Points
        /\ TakeIds(1)
        /\ ConsumeLotsFifo(c, taken)
        /\ ledger' = ledger \cup
                {[NewEntry(serial + 1, c, "clawback", -magnitude)
                    EXCEPT !.order = o, !.event = ev]}
        /\ IF AllowDowngrade /\ moneyBack > 0
           THEN /\ spend' = [spend EXCEPT ![c] = spendLeft]
                /\ tier' = [tier EXCEPT ![c] = DeriveTier(spendLeft)]
           ELSE UNCHANGED <<spend, tier>>
        /\ UNCHANGED <<known, redemptions, referrals, now>>

(* Fault: what was clawed back before is not counted.                      *)
HeadRoomOfEarnings(o) == SumPoints(OrderEarnings(o))

(* Head-room of Property 8: earned on the order and not yet clawed back.   *)
HeadRoom(o) == SumPoints(OrderEarnings(o)) + SumPoints(OrderClawbacks(o))

Cancel(o, ev) == Clawback(o, HeadRoom(o), 0, ev)

Refund(o, amount, ev) ==
    LET owed == RefundPoints(amount)
    IN  Clawback(o, IF owed <= HeadRoom(o) THEN owed ELSE HeadRoom(o), amount, ev)
-----------------------------------------------------------------------------
(* Redemptions.                                                            *)

Redeem(c, k, cost) ==
    /\ c \in known
    /\ redemptions[c][k].status = "absent"
    /\ Spendable(c) >= cost
    /\ TakeIds(1)
    /\ redemptions' = [redemptions EXCEPT
                         ![c][k] = [status |-> "pending_code", cost |-> cost]]
    /\ ledger' = ledger \cup
            {[NewEntry(serial + 1, c, "spend", -cost) EXCEPT !.key = k]}
    /\ ConsumeLotsFifo(c, cost)
    /\ UNCHANGED <<known, tier, spend, referrals, now>>

(* The code worker's success transaction.                                  *)
MarkIssued(c, k) ==
    /\ redemptions[c][k].status # "absent"
    /\ redemptions' = [redemptions EXCEPT ![c][k].status = "issued"]
    /\ UNCHANGED <<known, tier, spend, ledger, lots, referrals, serial, now>>

(* reverseSpend: the row is failed and, unless it was before, the cost is  *)
(* credited back in a lot that never expires.                              *)
ReverseSpend(c, k) ==
    /\ redemptions[c][k].status # "absent"
    /\ redemptions' = [redemptions EXCEPT ![c][k].status = "failed"]
    /\ IF Reversals(c, k) = {}
       THEN /\ TakeIds(1)
            /\ Credit({[NewEntry(serial + 1, c, "adjust", redemptions[c][k].cost)
                          EXCEPT !.key = k]}, NoExpiry)
       ELSE UNCHANGED <<ledger, lots, serial>>
    /\ UNCHANGED <<known, tier, spend, referrals, now>>
-----------------------------------------------------------------------------
(* Operators and time.                                                     *)

(* A positive adjustment is backed by a lot; a negative one draws none.    *)
Adjust(c, points) ==
    /\ c \in known
    /\ TakeIds(1)
    /\ LET e == NewEntry(serial + 1, c, "adjust", points)
       IN  IF points > 0
           THEN Credit({e}, now + LotLife)
           ELSE ledger' = ledger \cup {e} /\ UNCHANGED lots
    /\ UNCHANGED <<known, tier, spend, redemptions, referrals, now>>

Matured ==
    {i \in DOMAIN lots : /\ lots[i].expiresAt # NoExpiry
                         /\ lots[i].expiresAt <= now
                         /\ lots[i].remaining > 0}

(* The entry that takes what lot i still holds.                            *)
ExpireEntry(i) ==
    [NewEntry(serial + i, lots[i].customer, "expire", -lots[i].remaining)
        EXCEPT !.lot = i]

(* runExpiryScan: every matured lot at once, whoever owns it.              *)
ExpiryScan ==
    /\ Matured # {}
    /\ TakeIds(serial)
    /\ ledger' = ledger \cup {ExpireEntry(i) : i \in Matured}
    /\ lots' = [i \in DOMAIN lots |->
                  IF i \in Matured THEN [lots[i] EXCEPT !.remaining = 0] ELSE lots[i]]
    /\ UNCHANGED <<known, tier, spend, redemptions, referrals, now>>

Tick ==
    /\ now < MaxNow
    /\ now' = now + 1
    /\ UNCHANGED <<known, tier, spend, ledger, lots, redemptions, referrals, serial>>
-----------------------------------------------------------------------------
Init ==
    /\ known = {}
    /\ tier = [c \in Customer |-> 0]
    /\ spend = [c \in Customer |-> 0]
    /\ ledger = {}
    /\ lots = [i \in {} |-> 0]
    /\ redemptions = [c \in Customer |-> [k \in Key |-> [status |-> "absent", cost |-> 0]]]
    /\ referrals = [c \in Customer |-> [referrer |-> None, purchaseRewarded |-> FALSE]]
    /\ serial = 0
    /\ now = 0

Next ==
    \/ \E c \in Customer : EnrolWithoutAward(c)
    \/ \E c \in Customer : EarnSignup(c)
    \/ \E c, r \in Customer : ClaimReferral(c, r)
    \/ Migrate
    \/ \E o \in Order : OrdersPaid(o)
    \/ \E o \in Order : EnrolByWorthlessOrder(o)
    \/ \E o \in Order, ev \in Event : Cancel(o, ev)
    \/ \E o \in Order, a \in RefundAmount, ev \in Event : Refund(o, a, ev)
    \/ \E c \in Customer, k \in Key, p \in RewardCost : Redeem(c, k, p)
    \/ \E c \in Customer, k \in Key : MarkIssued(c, k)
    \/ \E c \in Customer, k \in Key : ReverseSpend(c, k)
    \/ \E c \in Customer, p \in Adjustment : Adjust(c, p)
    \/ ExpiryScan
    \/ Tick

Spec == Init /\ [][Next]_vars
-----------------------------------------------------------------------------
(* Type correctness: every row of every table has the columns and ranges   *)
(* the schema's CHECK constraints promise (no lot below zero or above its  *)
(* original size, no entry of zero points).                                *)
TypeOK ==
    /\ known \subseteq Customer
    /\ tier \in [Customer -> TierRank]
    /\ spend \in [Customer -> Nat]
    /\ ledger \subseteq Entry
    /\ DOMAIN lots \subseteq Nat
    /\ lots \in [DOMAIN lots -> Lot]
    /\ \A i \in DOMAIN lots : lots[i].remaining <= lots[i].original
    /\ redemptions \in [Customer -> [Key -> Redemption]]
    /\ referrals \in [Customer -> Referral]
    /\ serial \in Nat
    /\ now \in Nat

(* Every debit that is not an operator's draws lots for exactly its size,  *)
(* so the points in a customer's lots are her balance, operator debits     *)
(* left out: redemption, clawback, reversal and expiry never let the two   *)
(* drift apart.  Promised where the negative-balance policy is off.        *)
LotsBackBalance ==
    ~AllowNegative =>
        \A c \in Customer :
            SumRemaining(LotsOf(c)) =
                SumPoints({e \in EntriesOf(c) : ~(e.type = "adjust" /\ e.points < 0)})

(* Property 17: a credited point is never unspendable from the start; the  *)
(* entry has a lot of its own, of the same size and for the same customer. *)
CreditsBacked ==
    \A e \in ledger :
        e.points > 0 =>
            /\ e.id \in DOMAIN lots
            /\ lots[e.id].original = e.points
            /\ lots[e.id].customer = e.customer

(* Entries and lots, written by statements of different modules, agree:    *)
(* every credit has its lot, and the lots hold what they back, no less and *)
(* no more.                                                                *)
PointsBacked == CreditsBacked /\ LotsBackBalance

(* Property 8: over any sequence of refunds and cancellations, with the    *)
(* clamps they meet on the way, an order never gives back more points than *)
(* it earned.                                                              *)
ClawbackWithinEarnings ==
    \A o \in Order : SumPoints({e \in ledger : e.order = o}) >= 0

(* Property 9: a lot has at most one expire entry, for no more than the    *)
(* lot held at first, and holds nothing afterwards.                        *)
ExpiredOnce ==
    \A e \in ledger :
        e.type = "expire" =>
            /\ lots[e.lot].remaining = 0
            /\ -e.points <= lots[e.lot].original
            /\ \A f \in ledger : f.type = "expire" /\ f.lot = e.lot => f = e

(* Properties 4 and 5 and Req 3.9: one spend of the exact cost per         *)
(* redemption, and over any retries at most one reversal of that cost.     *)
RedeemedOnce ==
    \A c \in Customer, k \in Key :
        LET movements == {e \in EntriesOf(c) : e.key = k}
            spends == {e \in movements : e.type = "spend"}
            cost == redemptions[c][k].cost
        IN  IF redemptions[c][k].status = "absent"
            THEN movements = {}
            ELSE /\ \E e \in spends : spends = {e} /\ e.points = -cost
                 /\ \A e, f \in movements \ spends : e = f /\ e.points = cost
                 /\ redemptions[c][k].status = "failed" => movements # spends

(* What may be earned once is earned once: the signup, the migrated        *)
(* balance, the first purchase (on the customer's earliest earning order), *)
(* each order, and the two stages of a referral; and nobody is paid for    *)
(* referring herself.                                                      *)
EarnedOnce ==
    \A e, f \in ledger :
        /\ e.type = "earn_referral" => e.referred # e.customer
        /\ e.type = "earn_first_purchase" /\ f.type = "earn_order" /\ f.customer = e.customer
            => f.order = e.order \/ f.id > e.id
        /\ /\ e.type = f.type
           /\ \/ e.type \in {"earn_signup", "earn_first_purchase", "migration"}
                 /\ e.customer = f.customer
              \/ e.type = "earn_order" /\ e.order = f.order
              \/ e.type = "earn_referral" /\ e.referred = f.referred /\ e.points = f.points
           => e = f

(* Nothing that may happen once happens twice: neither a lot's expiry, nor *)
(* a redemption's spend or reversal, nor anything that is earned.          *)
NothingTwice == ExpiredOnce /\ RedeemedOnce /\ EarnedOnce

(* The cached tier is the tier the lifetime spend earns, whatever order    *)
(* orders and refunds arrive in, so reconciliation has nothing to lower.   *)
TierEarned == \A c \in Customer : tier[c] = DeriveTier(spend[c])

(* Req 5.6 and 2b: a lot shrinks only if it has not expired and every live *)
(* lot of that customer earned earlier is used up, or because the expiry   *)
(* scan takes all of it.                                                   *)
OldestLiveLotFirst ==
    \A i \in DOMAIN lots :
        lots'[i].remaining < lots[i].remaining =>
            LET unexpired(j) == lots[j].expiresAt \notin 1..now
            IN  IF unexpired(i)
                THEN \A j \in LotsOf(lots[i].customer) :
                        unexpired(j) /\ lots[j].earnedAt < lots[i].earnedAt
                            => lots'[j].remaining = 0
                ELSE lots'[i].remaining = 0

DrawsOldestLiveLots == [][OldestLiveLotFirst]_vars

(* What Account speaks of: the sum of a member's entries, what is left in  *)
(* her lots, what an order has earned and given back, what a redemption    *)
(* cost and whether it has been reversed.                                  *)
Balances == [c \in Customer |-> Balance(c)]
Purses == [c \in Customer |-> SumRemaining(LotsOf(c))]
EarnedOn == [o \in Order |-> SumPoints(OrderEarnings(o))]
ReturnedOn == [o \in Order |-> -SumPoints(OrderClawbacks(o))]
PaidFor ==
    [c \in Customer |-> [k \in Key |->
        IF redemptions[c][k].status = "absent" THEN 0 ELSE redemptions[c][k].cost]]
Repaid == [c \in Customer |-> [k \in Key |-> Reversals(c, k) # {}]]

Promise == INSTANCE Account WITH
    Member <- Customer,
    Payer <- OrderOwner,
    balance <- Balances,
    purse <- Purses,
    earned <- EarnedOn,
    returned <- ReturnedOn,
    paid <- PaidFor,
    repaid <- Repaid

(* The tables keep the promise of Account: every transaction moves exactly *)
(* the points it is about, of the members it is about, and the balance and *)
(* the lots alike unless it is an operator who takes the points.           *)
KeepsAccounts == Promise!Spec
-----------------------------------------------------------------------------
(* What the documents say and the code does not do; the subject of a run   *)
(* that TLC finds violated.                                                *)

(* Req 4.4 and the header of clawback.ts: a refund of an order's whole     *)
(* total takes back exactly what the order earned (here, whenever the      *)
(* customer's lots could cover it).                                        *)
FullRefundNetsZero ==
    [][\A o \in Order, ev \in Event :
          /\ Refund(o, OrderTotal[o], ev)
          /\ Spendable(OrderOwner[o]) >= HeadRoom(o)
          => SumPoints({e \in ledger' : e.order = o}) = 0]_vars
=============================================================================
