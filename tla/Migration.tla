----------------------------- MODULE Migration -----------------------------
(***************************************************************************)
(* The database side of the migration: operator scripts that backfill the  *)
(* opening balances of the exported cohort (m1Backfill.ts) or reverse that *)
(* backfill (m1Recovery.ts), each one transaction at READ COMMITTED, run   *)
(* while the service may be live and while another operator may be running *)
(* a script of their own.                                                  *)
(*                                                                         *)
(* A script is modelled statement by statement: each reads what is         *)
(* committed at that moment, and its own writes are seen by nobody until   *)
(* it commits.  A live transaction is one step.  An order or a redemption  *)
(* locks the member's row before it writes, so a script that holds the row *)
(* makes it wait.  An adjustment, a clawback or an expiry takes no more of *)
(* the row than the key share of its foreign keys, which only a deleted    *)
(* row refuses, so it commits beside a backfill that has upserted the row. *)
(* A tier is a function of the lifetime spend, so the spend stands for     *)
(* both.  Points are abstract units.                                       *)
(***************************************************************************)
EXTENDS Integers, Sequences, FiniteSets, FiniteSetsExt

CONSTANTS
  Member,     \* people the store knows
  Anchor,     \* the enrolled cohort, in the order of the export file
  Opening,    \* the opening balance the export resolves to
  Exported,   \* the lifetime spend the export recorded
  Operator,   \* people who run the migration scripts
  MaxRuns,    \* bound: script runs
  MaxLive     \* bound: transactions of the live service

Cohort == {Anchor[i] : i \in 1..Len(Anchor)}

None == "none"

ASSUME MigrationAssumption ==
  /\ None \notin Operator
  /\ Anchor \in Seq(Member) /\ Cardinality(Cohort) = Len(Anchor) /\ Cohort # {}
  /\ Opening \in Nat \ {0} /\ Exported \in Nat
  /\ MaxRuns \in Nat /\ MaxLive \in Nat

Absent == -1

VARIABLES
  spend,      \* customers: a member's lifetime spend, Absent when there is no row
  entries,    \* ledger_entries, by member
  lots,       \* point_lots, by member
  lock,       \* who holds a member's customers row
  op,         \* what each operator's transaction has done and seen
  live,       \* entries the live service ever committed
  issued, runs

vars == <<spend, entries, lots, lock, op, live, issued, runs>>
tables == <<spend, entries, lots>>

Idle == [at |-> "idle", k |-> 1, execute |-> FALSE, added |-> {}, census |-> <<>>,
         saw |-> {}, summed |-> {}, plan |-> {}, refused |-> FALSE]

Init ==
  /\ spend = [m \in Member |-> Absent]
  /\ entries = [m \in Member |-> {}] /\ lots = [m \in Member |-> {}]
  /\ lock = [m \in Member |-> None]
  /\ op = [o \in Operator |-> Idle]
  /\ live = {} /\ issued = 0 /\ runs = 0

Total(es) == MapThenSumSet(LAMBDA e : e.points, es)
Balance(m) == Total(entries[m])
Migrations(es) == {e \in es : e.kind = "migration"}

\* Fault: the upsert does nothing on conflict, and so locks nothing it finds.
FreeAlways(o, m) == TRUE

\* A write to a member's row, an upsert that finds it included, waits for its holder.
Free(o, m) == lock[m] \in {None, o}

Held(o) == [m \in Member |-> IF lock[m] = o THEN None ELSE lock[m]]
Mine(o) == Anchor[op[o].k]

Goto(o, at, k) == [op[o] EXCEPT !.at = at, !.k = k]
NextMember(o, rec, at, then) ==
  IF rec.k < Len(Anchor) THEN [rec EXCEPT !.at = at, !.k = @ + 1]
                         ELSE [rec EXCEPT !.at = then, !.k = 1]

\* The transaction ends with nothing written: a refusal, a dry run, an error, a
\* lost connection, or PostgreSQL choosing it as a deadlock's victim.
Rollback(o) ==
  /\ op' = [op EXCEPT ![o] = Idle]
  /\ lock' = Held(o)
  /\ UNCHANGED <<spend, entries, lots, live, issued, runs>>

---------------------------------------------------------------------------
\* The live service.

Fund(m, e) == lots' = [lots EXCEPT ![m] =
  @ \cup {[entry |-> e.id, original |-> e.points, remaining |-> e.points]}]

Draw(m, l, n) == lots' = [lots EXCEPT ![m] = (@ \ {l}) \cup {[l EXCEPT !.remaining = @ - n]}]

\* The lot the FIFO draws from first.
Oldest(m, l) == l \in lots[m] /\ l.remaining > 0
                /\ \A x \in lots[m] : x.remaining > 0 => l.entry <= x.entry

New(kind, points) == [id |-> issued + 1, kind |-> kind, points |-> points]

Commit(m, e) ==
  /\ Cardinality(live) < MaxLive
  /\ entries' = [entries EXCEPT ![m] = @ \cup {e}]
  /\ live' = live \cup {<<m, e>>}
  /\ issued' = e.id
  /\ UNCHANGED <<lock, op, runs>>

\* A paid order: the row is created or locked, then the entry and its lot.
Earn(m) ==
  /\ lock[m] = None
  /\ Commit(m, New("earn", 1)) /\ Fund(m, New("earn", 1))
  /\ spend' = [spend EXCEPT ![m] = IF @ = Absent THEN 1 ELSE @ + 1]

\* The members whose lot an uncommitted reversal has deleted, and so still locks.
LotsDeleted(o) ==
  CASE op[o].at = "deleteLots" -> {Anchor[i] : i \in 1..(op[o].k - 1)}
    [] op[o].at \in {"deleteEntries", "deleteCustomers", "reverted"} -> Cohort
    [] OTHER -> {}
LotsFree(m) == \A o \in Operator : m \notin LotsDeleted(o)

\* A redemption: the row and the lots are locked, the oldest points are spent.
Redeem(m) ==
  /\ lock[m] = None /\ spend[m] # Absent /\ Balance(m) >= 1 /\ LotsFree(m)
  /\ \E l \in lots[m] : Oldest(m, l) /\ Draw(m, l, 1)
  /\ Commit(m, New("spend", -1))
  /\ UNCHANGED spend

\* Every entry takes a key share of its member's row.  The upsert's lock lets it by: it
\* changes no key.  A reversal that has deleted the row makes it wait.
RefusesShares(m) == \E o \in Operator :
  lock[m] = o /\ op[o].at \in {"deleteCustomers", "reverted"}
Sharing(m) == spend[m] # Absent /\ ~RefusesShares(m) /\ UNCHANGED spend

\* An administrator's adjustment: a credit has its lot, a debit draws on none.
Adjust(m) ==
  /\ Sharing(m)
  /\ \/ Commit(m, New("adjust", 1)) /\ Fund(m, New("adjust", 1))
     \/ Commit(m, New("adjust", -1)) /\ UNCHANGED lots

OfKind(m, kind) == {e \in entries[m] : e.kind = kind}

\* A refund takes back what an order earned, from the oldest points.
Clawback(m) ==
  /\ Sharing(m) /\ LotsFree(m)
  /\ Cardinality(OfKind(m, "clawback")) < Cardinality(OfKind(m, "earn"))
  /\ \E l \in lots[m] : Oldest(m, l) /\ Draw(m, l, 1)
  /\ Commit(m, New("clawback", -1))

\* The scan expires a matured lot.  Migrated points never mature.
Expire(m) ==
  /\ Sharing(m)
  /\ \E l \in lots[m] :
       /\ l.remaining > 0 /\ \E e \in entries[m] : e.id = l.entry /\ e.kind # "migration"
       /\ Draw(m, l, l.remaining) /\ Commit(m, New("expire", -l.remaining))

---------------------------------------------------------------------------
\* runM1Backfill: a script run by one operator.

StartBackfill(o) ==
  /\ op[o].at = "idle" /\ runs < MaxRuns
  /\ runs' = runs + 1
  /\ op' = [op EXCEPT ![o] = [Idle EXCEPT !.at = "upsert"]]
  /\ UNCHANGED <<tables, lock, live, issued>>

\* (1b) The upsert takes the member's row and sets the exported tier and spend.
Upsert(o) ==
  /\ op[o].at = "upsert" /\ Free(o, Mine(o))
  /\ lock' = [lock EXCEPT ![Mine(o)] = o]
  /\ op' = [op EXCEPT ![o] = Goto(o, "check", @.k)]
  /\ UNCHANGED <<tables, live, issued, runs>>

\* (1c, 1d) A member who has a migration entry is skipped, another gets one and its lot.
Check(o) ==
  /\ op[o].at = "check"
  /\ LET rec == IF Migrations(entries[Mine(o)]) # {} THEN op[o]
                ELSE [op[o] EXCEPT !.added = @ \cup {Mine(o)}]
     IN op' = [op EXCEPT ![o] = NextMember(o, rec, "upsert", "reconcile")]
  /\ UNCHANGED <<tables, lock, live, issued, runs>>

\* Fault: only the members this run created are reconciled.
ReconcilesCreated(o, m) == m \in op[o].added => Balance(m) = 0

\* (2) A member of the cohort must sum to the migrated points.
Reconciles(o, m) == Balance(m) + (IF m \in op[o].added THEN Opening ELSE 0) = Opening

\* One statement for each member; one mismatch is enough to refuse the run.
Reconcile(o) ==
  /\ op[o].at = "reconcile"
  /\ LET m == Mine(o)
         rec == [op[o] EXCEPT !.refused = @ \/ ~Reconciles(o, m),
                              !.summed = @ \cup {<<m, e>> : e \in entries[m]}]
     IN op' = [op EXCEPT ![o] = NextMember(o, rec, "reconcile", "backfilled")]
  /\ UNCHANGED <<tables, lock, live, issued, runs>>

RefuseBackfill(o) == op[o].at = "backfilled" /\ op[o].refused /\ Rollback(o)

\* The ids of the rows a backfill inserts.
EntryId(m) == issued + CHOOSE i \in 1..Len(Anchor) : Anchor[i] = m

CommitBackfill(o) ==
  /\ op[o].at = "backfilled" /\ ~op[o].refused
  /\ spend' = [m \in Member |-> IF m \in Cohort THEN Exported ELSE spend[m]]
  /\ entries' = [m \in Member |-> IF m \in op[o].added
       THEN entries[m] \cup {[id |-> EntryId(m), kind |-> "migration", points |-> Opening]}
       ELSE entries[m]]
  /\ lots' = [m \in Member |-> IF m \in op[o].added
       THEN lots[m] \cup {[entry |-> EntryId(m), original |-> Opening, remaining |-> Opening]}
       ELSE lots[m]]
  /\ issued' = issued + (IF op[o].added = {} THEN 0 ELSE Len(Anchor))
  /\ op' = [op EXCEPT ![o] = Idle]
  /\ lock' = Held(o)
  /\ UNCHANGED <<live, runs>>

---------------------------------------------------------------------------
\* runM1Recovery, once its preflight has passed: the reversal of the backfill.

StartRecovery(o) ==
  /\ op[o].at = "idle" /\ runs < MaxRuns
  /\ runs' = runs + 1
  /\ \E execute \in BOOLEAN :
       op' = [op EXCEPT ![o] = [Idle EXCEPT !.at = "count", !.execute = execute]]
  /\ UNCHANGED <<tables, lock, live, issued>>

Known == {m \in Member : spend[m] # Absent}
Rows(table) == MapThenSumSet(LAMBDA m : Cardinality(table[m]), Member)

\* (1) The census of the three tables, one statement each: all that is asked of a count is
\* whether it is the cohort's.
Count(o) ==
  /\ op[o].at = "count"
  /\ LET n == Len(op[o].census)
         counted == CASE n = 0 -> Cardinality(Known)
                      [] n = 1 -> Rows(entries)
                      [] OTHER -> Rows(lots)
     IN op' = [op EXCEPT ![o] = [op[o] EXCEPT !.census = Append(@, counted = Len(Anchor)),
                                              !.at = IF n = 2 THEN "find" ELSE "count"]]
  /\ UNCHANGED <<tables, lock, live, issued, runs>>

\* The member's row, looked up by Shopify id: a missing one refuses the run.
Find(o) ==
  /\ op[o].at = "find"
  /\ op' = [op EXCEPT ![o] =
       NextMember(o, [op[o] EXCEPT !.refused = @ \/ spend[Mine(o)] = Absent], "find", "total")]
  /\ UNCHANGED <<tables, lock, live, issued, runs>>

\* (2) and (3): all migration entries of the ledger, and the members that were found.
TotalAgrees ==
  LET all == UNION {{<<m, e>> : e \in Migrations(entries[m])} : m \in Member} IN
  /\ Cardinality(all) = Len(Anchor)
  /\ MapThenSumSet(LAMBDA x : x[2].points, all) = Opening * Len(Anchor)

CheckTotal(o) ==
  /\ op[o].at = "total"
  /\ IF op[o].refused \/ ~TotalAgrees
     THEN Rollback(o)
     ELSE /\ op' = [op EXCEPT ![o] = Goto(o, "ledger", 1)]
          /\ UNCHANGED <<tables, lock, live, issued, runs>>

\* (4) One member's entries, then, in a later statement, their lots.
ReadLedger(o) ==
  /\ op[o].at = "ledger"
  /\ op' = [op EXCEPT ![o] = [Goto(o, "lots", @.k) EXCEPT !.saw = entries[Mine(o)]]]
  /\ UNCHANGED <<tables, lock, live, issued, runs>>

\* (4, 5) Only the single row the backfill wrote, and its one lot with nothing spent.
AsWritten(o, e, l) ==
  /\ op[o].saw = {e} /\ e.kind = "migration" /\ e.points = Opening
  /\ lots[Mine(o)] = {l} /\ l.entry = e.id
  /\ l.original = e.points /\ l.remaining = e.points

ReadLots(o) ==
  /\ op[o].at = "lots"
  /\ LET found == {[member |-> Mine(o), entry |-> e, lot |-> l] : e \in op[o].saw, l \in lots[Mine(o)]}
         plan == {p \in found : AsWritten(o, p.entry, p.lot)}
     IN op' = [op EXCEPT ![o] =
          NextMember(o, [op[o] EXCEPT !.plan = @ \cup plan, !.refused = @ \/ plan = {}, !.saw = {}],
                     "ledger", "decide")]
  /\ UNCHANGED <<tables, lock, live, issued, runs>>

\* (5b, 4b, 6, 7) Anything unexpected refuses, and a dry run stops here.
Decide(o) ==
  /\ op[o].at = "decide"
  /\ IF op[o].refused \/ ~op[o].execute \/ \E i \in 1..3 : ~op[o].census[i]
     THEN Rollback(o)
     ELSE /\ op' = [op EXCEPT ![o] = Goto(o, "deleteLots", 1)]
          /\ UNCHANGED <<tables, lock, live, issued, runs>>

Planned(o) == CHOOSE p \in op[o].plan : p.member = Mine(o)

\* (8) Every delete is by id and must find its one row, whatever else the row now says.
Delete(o, at, found, then) ==
  /\ op[o].at = at
  /\ IF found
     THEN /\ op' = [op EXCEPT ![o] = NextMember(o, @, at, then)]
          /\ UNCHANGED <<tables, lock, live, issued, runs>>
     ELSE Rollback(o)

\* Another reversal that holds the lot makes this one wait.
DeleteLot(o) ==
  /\ \A q \in Operator \ {o} : Mine(o) \notin LotsDeleted(q)
  /\ Delete(o, "deleteLots",
            \E l \in lots[Mine(o)] : l.entry = Planned(o).entry.id, "deleteEntries")

DeleteEntry(o) ==
  Delete(o, "deleteEntries", Planned(o).entry \in entries[Mine(o)], "deleteCustomers")

\* Fault: the foreign keys are dropped, or cascade.
ReferencedNever(o) == FALSE

\* The foreign keys on customers: a row that other rows still point at cannot go.
Referenced(o) ==
  \/ entries[Mine(o)] \ {Planned(o).entry} # {}
  \/ \E l \in lots[Mine(o)] : l.entry # Planned(o).entry.id

DeleteCustomer(o) ==
  /\ op[o].at = "deleteCustomers" /\ Free(o, Mine(o))
  /\ IF spend[Mine(o)] # Absent /\ ~Referenced(o)
     THEN /\ lock' = [lock EXCEPT ![Mine(o)] = o]
          /\ op' = [op EXCEPT ![o] = NextMember(o, @, "deleteCustomers", "reverted")]
          /\ UNCHANGED <<tables, live, issued, runs>>
     ELSE Rollback(o)

CommitRecovery(o) ==
  /\ op[o].at = "reverted"
  /\ spend' = [m \in Member |-> IF m \in Cohort THEN Absent ELSE spend[m]]
  /\ entries' = [m \in Member |-> entries[m] \ {p.entry : p \in op[o].plan}]
  /\ lots' = [m \in Member |-> {l \in lots[m] : \A p \in op[o].plan : l.entry # p.entry.id}]
  /\ op' = [op EXCEPT ![o] = Idle]
  /\ lock' = Held(o)
  /\ UNCHANGED <<live, issued, runs>>

---------------------------------------------------------------------------
Backfill(o) ==
  \/ StartBackfill(o) \/ Upsert(o) \/ Check(o) \/ Reconcile(o) \/ RefuseBackfill(o)
  \/ CommitBackfill(o)
Recovery(o) ==
  \/ StartRecovery(o) \/ Count(o) \/ Find(o) \/ CheckTotal(o) \/ ReadLedger(o) \/ ReadLots(o)
  \/ Decide(o) \/ DeleteLot(o) \/ DeleteEntry(o) \/ DeleteCustomer(o) \/ CommitRecovery(o)

\* The script, its connection or its machine fails, or a deadlock is broken at its cost.
Crash(o) == op[o].at # "idle" /\ Rollback(o)

Next ==
  \/ \E m \in Member : Earn(m) \/ Redeem(m) \/ Adjust(m) \/ Clawback(m) \/ Expire(m)
  \/ \E o \in Operator : Backfill(o) \/ Recovery(o) \/ Crash(o)

Spec == Init /\ [][Next]_vars

---------------------------------------------------------------------------
Shares == {"adjust", "clawback", "expire"}
Entry == [id : Nat, kind : {"migration", "earn", "spend"} \cup Shares, points : Int]
Lot == [entry : Nat, original : Nat, remaining : Nat]
At == {"idle", "upsert", "check", "reconcile", "backfilled", "count", "find", "total", "ledger",
       "lots", "decide", "deleteLots", "deleteEntries", "deleteCustomers", "reverted"}

\* Type invariant.  A lot never holds less than nothing or more than it began with, only a
\* known member has entries, and the row of a member is held by at most one script.
TypeOK ==
  /\ spend \in [Member -> Nat \cup {Absent}]
  /\ \A m \in Member :
       /\ entries[m] \subseteq Entry /\ lots[m] \subseteq Lot
       /\ \A l \in lots[m] : l.remaining <= l.original
       /\ spend[m] = Absent => entries[m] = {} /\ lots[m] = {}
  /\ lock \in [Member -> Operator \cup {None}]
  /\ \A o \in Operator :
       /\ op[o].at \in At /\ op[o].k \in 1..Len(Anchor) /\ op[o].added \subseteq Cohort
       /\ \A p \in op[o].plan : p.member \in Cohort /\ p.entry \in Entry
  /\ issued \in Nat /\ runs \in 0..MaxRuns

\* What lots stand behind: an administrator's debit draws on none.
Backed(es) == {e \in es : ~(e.kind = "adjust" /\ e.points < 0)}

\* A reversal never destroys what members did: every entry of the live service that was
\* ever committed is still in the ledger, and every member's lots add up to the entries
\* they stand behind, even when one commits between the reversal's inspection and its
\* deletes (m1Recovery.ts: deleting would "destroy the basis of balances").
ActivityKept ==
  /\ \A x \in live : x[2] \in entries[x[1]]
  /\ \A m \in Member :
       MapThenSumSet(LAMBDA l : l.remaining, lots[m]) = Total(Backed(entries[m]))

\* "Exactly one migration entry" (Req 14.4) survives crashes, re-runs, and two operators
\* who start the backfill together: the check is made under the member's row lock.
OneMigrationEntry == \A m \in Member : Cardinality(Migrations(entries[m])) <= 1

\* What only a key share was needed for, and was not there when this run took the sum.
Late(o, m) == {e \in entries'[m] : e.kind \in Shares /\ <<m, e>> \notin op[o].summed}

\* A backfill that reports success leaves every member of the cohort with exactly the
\* migrated points, but for the adjustments, clawbacks and expiries committed after the
\* run took that member's sum.  No order, no redemption and no other script slips in
\* between the sum and the commit: they wait for the row the upsert holds.
BackfilledIsTrue ==
  [][\A o \in Operator : CommitBackfill(o) =>
       \A m \in Cohort : Total(entries'[m] \ Late(o, m)) = Opening]_vars
=============================================================================
