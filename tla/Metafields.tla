----------------------------- MODULE Metafields -----------------------------
(***************************************************************************)
(* The display cache of one member: the loyalty.* metafields in Shopify.   *)
(* A change of balance commits, then enqueues a refresh; the worker reads  *)
(* the ledger in three statements and writes what it read, trying again    *)
(* for a while.  Reconciliations write the same metafields.  What a value  *)
(* shows is the set of the changes it takes account of.                    *)
(***************************************************************************)
EXTENDS Naturals, FiniteSets

CONSTANTS
    Change,      \* commits that move the member's balance
    Silent,      \* of these, those of the expiry scan, which enqueues nothing
    Worker,      \* consumers of writeMetafieldCache: one per instance
    Reconciler,  \* reconciliations: the daily job, an administrator's
    MaxAttempts, \* METAFIELD_BACKOFF.maxAttempts
    MaxFaults    \* bound: what goes wrong in a behaviour

ASSUME MetafieldConstants ==
    /\ Silent \subseteq Change
    /\ Worker \cap Reconciler = {}
    /\ MaxAttempts \in Nat \ {0}
    /\ MaxFaults \in Nat

Writer == Worker \cup Reconciler

VARIABLES
    committed,  \* changes in the ledger
    owing,      \* of these, the ones whose refresh is still to be enqueued
    pending,    \* refresh jobs waiting
    writer,     \* how far each writer has come
    shown,      \* the metafields
    overlapped, \* two writers have been at work at once
    faults      \* what has gone wrong

ledger == <<committed, owing>>
vars == <<ledger, pending, writer, shown, overlapped, faults>>

Field == {"row", "balance", "lots"}

Blank == [f \in Field |-> {}]

Idle == [pc |-> "idle", snapshot |-> Blank, unread |-> {}, attempt |-> 0]

Fault == faults < MaxFaults /\ faults' = faults + 1

AtWork == {w \in Writer : writer[w].pc # "idle"}
-----------------------------------------------------------------------------
Enqueues(c) == c \notin Silent

(* A transaction that moves the balance commits.                           *)
Commit(c) ==
    /\ c \notin committed
    /\ committed' = committed \cup {c}
    /\ owing' = IF Enqueues(c) THEN owing \cup {c} ELSE owing
    /\ UNCHANGED <<pending, writer, shown, overlapped, faults>>

(* Fault: the singletonKey holds while a refresh is being made, too.       *)
CollapsesWithActive ==
    pending > 0 \/ \E w \in Worker : writer[w].pc # "idle"

(* singletonKey: one pending refresh per member.                           *)
Collapses == pending > 0

(* enqueueMetafieldCache, after the commit.                                *)
Enqueue(c) ==
    /\ c \in owing
    /\ owing' = owing \ {c}
    /\ \/ ~Collapses /\ pending' = pending + 1
       \/ Collapses /\ UNCHANGED pending
    /\ UNCHANGED <<committed, writer, shown, overlapped, faults>>

(* boss.send fails (an adjustment or a reversal then fails for its caller, *)
(* the others report it), or the process dies first: the commit stays.     *)
EnqueueFails(c) ==
    /\ Fault
    /\ c \in owing
    /\ owing' = owing \ {c}
    /\ UNCHANGED <<committed, pending, writer, shown, overlapped>>
-----------------------------------------------------------------------------
Begin(w) ==
    /\ writer[w].pc = "idle"
    /\ writer' = [writer EXCEPT ![w] = [Idle EXCEPT !.pc = "row"]]
    /\ overlapped' = (overlapped \/ AtWork # {})

(* A refresh job is delivered.                                             *)
Deliver(w) ==
    /\ w \in Worker
    /\ pending > 0
    /\ pending' = pending - 1
    /\ Begin(w)
    /\ UNCHANGED <<ledger, shown, faults>>

(* Fault: no refresh for a member whose tables match the ledger, as here.  *)
RefreshesIfRepaired(w) == FALSE

(* Reconciled, a member is refreshed whether or not a cache had drifted.   *)
Refreshes(w) == TRUE

(* reconcileCustomer comes to its refresh, after its transaction.          *)
Reconcile(w) ==
    /\ w \in Reconciler
    /\ Refreshes(w)
    /\ Begin(w)
    /\ UNCHANGED <<ledger, pending, shown, faults>>

(* deriveCacheSnapshot: the customer's row, ...                            *)
ReadRow(w) ==
    /\ writer[w].pc = "row"
    /\ writer' = [writer EXCEPT ![w].pc = "sums", ![w].snapshot["row"] = committed,
                                ![w].unread = {"balance", "lots"}]
    /\ UNCHANGED <<ledger, pending, shown, overlapped, faults>>

(* ... then both sums, on connections of their own.                        *)
ReadSum(w, f) ==
    /\ writer[w].pc = "sums"
    /\ f \in writer[w].unread
    /\ writer' = [writer EXCEPT ![w].snapshot[f] = committed, ![w].unread = @ \ {f},
                                ![w].pc = IF writer[w].unread = {f} THEN "write" ELSE "sums",
                                ![w].attempt = 1]
    /\ UNCHANGED <<ledger, pending, shown, overlapped, faults>>

(* metafieldsSet succeeds.                                                 *)
Write(w) ==
    /\ writer[w].pc = "write"
    /\ shown' = writer[w].snapshot
    /\ writer' = [writer EXCEPT ![w] = Idle]
    /\ UNCHANGED <<ledger, pending, overlapped, faults>>

(* Fault: it tries for ever.                                               *)
NeverExhausted(w) == FALSE

Exhausted(w) == writer[w].attempt = MaxAttempts

(* An attempt fails, though Shopify may have set the metafields; the next  *)
(* one writes the same snapshot.  The last that fails leaves it at that.   *)
AttemptFails(w) ==
    /\ writer[w].pc = "write"
    /\ shown' \in {shown, writer[w].snapshot}
    /\ IF writer[w].attempt = MaxAttempts THEN Fault ELSE UNCHANGED faults
    /\ writer' = [writer EXCEPT ![w] =
                    IF Exhausted(w) THEN Idle ELSE [writer[w] EXCEPT !.attempt = @ + 1]]
    /\ UNCHANGED <<ledger, pending, overlapped>>

(* A read fails, or the process ends: the queue delivers a job again, a    *)
(* reconciliation is over.                                                 *)
Interrupted(w) ==
    /\ Fault
    /\ writer[w].pc # "idle"
    /\ pending' = IF w \in Worker THEN pending + 1 ELSE pending
    /\ writer' = [writer EXCEPT ![w] = Idle]
    /\ UNCHANGED <<ledger, shown, overlapped>>

Init ==
    /\ committed = {} /\ owing = {}
    /\ pending = 0
    /\ writer = [w \in Writer |-> Idle]
    /\ shown = Blank
    /\ overlapped = FALSE
    /\ faults = 0

Step(w) ==
    \/ Deliver(w) \/ Reconcile(w) \/ ReadRow(w) \/ Write(w)
    \/ \E f \in Field : ReadSum(w, f)

Next ==
    \/ \E c \in Change : Commit(c) \/ Enqueue(c) \/ EnqueueFails(c)
    \/ \E w \in Writer : Step(w) \/ AttemptFails(w) \/ Interrupted(w)

Spec == Init /\ [][Next]_vars

(* Every writer goes on, and the reconciliation comes round again.         *)
FairSpec == Spec /\ \A w \in Writer : WF_vars(Step(w))
-----------------------------------------------------------------------------
TypeOK ==
    /\ owing \subseteq committed /\ committed \subseteq Change
    /\ pending \in Nat
    /\ \A w \in Writer :
        /\ DOMAIN writer[w] = DOMAIN Idle
        /\ writer[w].pc \in {"idle", "row", "sums", "write"}
        /\ writer[w].snapshot \in [Field -> SUBSET committed]
        /\ writer[w].unread \subseteq Field \ {"row"}
        /\ writer[w].attempt \in 0..MaxAttempts
    /\ shown \in [Field -> SUBSET committed]
    /\ overlapped \in BOOLEAN
    /\ faults \in 0..MaxFaults

Quiet == owing = {} /\ pending = 0 /\ AtWork = {}

(* Refreshes that collapse lose nothing: once all is quiet the storefront  *)
(* shows every change that asks for a refresh, in all fields alike,        *)
(* retries included, unless a step failed for good or two writers were at  *)
(* work at once.                                                           *)
QuietMeansCurrent ==
    Quiet /\ faults = 0 /\ ~overlapped =>
        \A f \in Field : {c \in committed : Enqueues(c)} \subseteq shown[f]

(* Whatever failed or raced, reconciliations bring the storefront back to  *)
(* the ledger, the changes that asked for no refresh among them.           *)
CacheConverges == <>[](\A f \in Field : shown[f] = committed)
=============================================================================
