------------------------------- MODULE Booking -------------------------------
(***************************************************************************)
(* A member books a benefit and staff act on the booking.                  *)
(*                                                                         *)
(* The member's side is the HTTP requests that carry one idempotency key   *)
(* to POST /v1/benefits/:key/request: the gate of plugins/idempotency.ts   *)
(* over the windowed store of idempotency/store.ts, and the insert of      *)
(* benefits/entitlementResolver.ts, which has no key of its own.  The      *)
(* staff's side is admin/benefitRequests.ts: a read on the pool, then one  *)
(* transaction with a guarded update and the audit record.                 *)
(*                                                                         *)
(* The tier, channel and enabled gates of a booking only read, so they are *)
(* a choice between a refusal and the insert.  Time is counted in units of *)
(* which Window are the 24 hours of the store.                             *)
(***************************************************************************)
EXTENDS Integers, Sequences, SequencesExt

CONSTANTS
  Http,       \* HTTP requests with the key
  Staff,      \* operators, each with one transition under way at most
  Window,     \* how long a stored response is replayed
  MaxTime,    \* bound: the clock
  MaxCalls    \* bound: transitions asked for

ASSUME BookingAssumption == Window \in Nat \ {0} /\ MaxTime \in Nat /\ MaxCalls \in Nat

VARIABLES
  now,        \* the clock
  http,       \* how far each HTTP request has come
  stored,     \* when the row of idempotency_keys was inserted, Never if there is none
  rows,       \* benefit_requests: the status of each booking, in the order of the inserts
  call,       \* each operator's transition
  audit,      \* admin_audit_log, its benefit_request records
  moves,      \* the changes of status that were committed, as they happened
  calls,      \* transitions asked for so far
  excused     \* why a repeat may book again: requests overlapped, an answer was not
              \* kept, or the window had passed

memberVars == <<now, http, stored, excused>>
staffVars == <<call, audit, moves, calls>>
vars == <<memberVars, rows, staffVars>>

Never == -1
Transition == {"confirmed", "fulfilled", "declined", "cancelled"}
Status == Transition \cup {"requested"}
Terminal == {"fulfilled", "declined", "cancelled"}

AllowedFrom(to) == IF to = "confirmed" THEN {"requested"} ELSE {"requested", "confirmed"}

NoCall == [at |-> "idle", row |-> 0, to |-> "confirmed", seen |-> "requested", audited |-> FALSE]

Init ==
  /\ now = 0 /\ stored = Never /\ excused = FALSE
  /\ http = [h \in Http |-> "new"]
  /\ rows = <<>> /\ audit = <<>> /\ moves = <<>> /\ calls = 0
  /\ call = [s \in Staff |-> NoCall]

-----------------------------------------------------------------------------
\* The member.

\* Fault: the cutoff is computed on the wrong side of now.
IsLiveLater == stored > now + Window

\* SELECT ... WHERE created_at > now - 24h.
IsLive == stored # Never /\ stored > now - Window

InHandler == {h \in Http : http[h] \in {"running", "booked"}}

\* preHandler: a live response is replayed and the handler never runs.
Arrive(h) ==
  /\ http[h] = "new"
  /\ http' = [http EXCEPT ![h] = IF IsLive THEN "answered" ELSE "running"]
  /\ excused' = (excused \/ InHandler # {} \/ (stored # Never /\ stored + Window <= now))
  /\ UNCHANGED <<now, stored, rows, staffVars>>

\* Fault: the row keeps when it expires instead of when it was inserted.
AnswerUntil(h) ==
  /\ stored' = IF stored = Never THEN now + Window ELSE stored
  /\ http' = [http EXCEPT ![h] = "answered"]
  /\ UNCHANGED <<now, excused, staffVars>>

\* onSend: INSERT ... ON CONFLICT DO NOTHING, whatever the age of the row that is there.
Answer(h) ==
  /\ stored' = IF stored = Never THEN now ELSE stored
  /\ http' = [http EXCEPT ![h] = "answered"]
  /\ UNCHANGED <<now, excused, staffVars>>

\* The tier does not qualify, the benefit is disabled, or the channel is wrong: a 4xx, kept.
Refuse(h) == http[h] = "running" /\ Answer(h) /\ UNCHANGED rows

Book(h) ==
  /\ http[h] = "running"
  /\ rows' = Append(rows, "requested")
  /\ http' = [http EXCEPT ![h] = "booked"]
  /\ UNCHANGED <<now, stored, excused, staffVars>>

Respond(h) == http[h] = "booked" /\ Answer(h) /\ UNCHANGED rows

\* A 5xx, a failed insert of the response, or a crash: nothing is kept under the key.
Fail(h) ==
  /\ http[h] \in {"running", "booked"}
  /\ http' = [http EXCEPT ![h] = "failed"]
  /\ excused' = (excused \/ http[h] = "booked")
  /\ UNCHANGED <<now, stored, rows, staffVars>>

Tick ==
  /\ now < MaxTime
  /\ now' = now + 1
  /\ UNCHANGED <<http, stored, excused, rows, staffVars>>

-----------------------------------------------------------------------------
\* The staff: BenefitRequestService.transition.

Ask(s) ==
  /\ call[s].at = "idle" /\ calls < MaxCalls
  /\ \E r \in 1..Len(rows), to \in Transition :
       call' = [call EXCEPT ![s] = [NoCall EXCEPT !.at = "read", !.row = r, !.to = to]]
  /\ calls' = calls + 1
  /\ UNCHANGED <<memberVars, rows, audit, moves>>

\* The read on the pool chooses the response: nothing to do, refused, or try.
Read(s) ==
  /\ call[s].at = "read"
  /\ LET is == rows[call[s].row] IN
     call' = [call EXCEPT ![s] =
       IF is # call[s].to /\ is \in AllowedFrom(call[s].to)
       THEN [@ EXCEPT !.at = "update", !.seen = is] ELSE NoCall]
  /\ UNCHANGED <<memberVars, rows, audit, moves, calls>>

\* An uncommitted update holds the booking's row.
RowFree(s) ==
  \A q \in Staff \ {s} : ~(call[q].at \in {"audit", "commit"} /\ call[q].row = call[s].row)

\* Fault: the update trusts the status that was read.
GuardHoldsAsRead(s) == call[s].seen \in AllowedFrom(call[s].to)

\* UPDATE ... WHERE status = ANY(allowed from).
GuardHolds(s) == rows[call[s].row] \in AllowedFrom(call[s].to)

\* No row changed: read again in the transaction and answered from the truth.
Update(s) ==
  /\ call[s].at = "update" /\ RowFree(s)
  /\ call' = [call EXCEPT ![s] = IF GuardHolds(s) THEN [@ EXCEPT !.at = "audit"] ELSE NoCall]
  /\ UNCHANGED <<memberVars, rows, audit, moves, calls>>

RecordAudit(s) ==
  /\ call[s].at = "audit"
  /\ call' = [call EXCEPT ![s].at = "commit", ![s].audited = TRUE]
  /\ UNCHANGED <<memberVars, rows, audit, moves, calls>>

\* Fault: a failed audit insert is swallowed and the transaction goes on.
AfterErrorGoOn(s) == IF call[s].at = "audit" THEN [call[s] EXCEPT !.at = "commit"] ELSE NoCall

\* An error in the transaction rolls all of it back.
AfterError(s) == NoCall

\* A failed statement, a lost connection or a crash before the commit.
Abort(s) ==
  /\ call[s].at # "idle"
  /\ call' = [call EXCEPT ![s] = AfterError(s)]
  /\ UNCHANGED <<memberVars, rows, audit, moves, calls>>

Commit(s) ==
  /\ call[s].at = "commit"
  /\ LET r == call[s].row  to == call[s].to IN
     /\ rows' = [rows EXCEPT ![r] = to]
     /\ moves' = Append(moves, [row |-> r, from |-> rows[r], to |-> to, by |-> s])
     /\ audit' = IF call[s].audited
                 THEN Append(audit, [row |-> r, from |-> call[s].seen, to |-> to, by |-> s])
                 ELSE audit
  /\ call' = [call EXCEPT ![s] = NoCall]
  /\ UNCHANGED <<memberVars, calls>>

-----------------------------------------------------------------------------
Next ==
  \/ \E h \in Http : Arrive(h) \/ Refuse(h) \/ Book(h) \/ Respond(h) \/ Fail(h)
  \/ Tick
  \/ \E s \in Staff : Ask(s) \/ Read(s) \/ Update(s) \/ RecordAudit(s) \/ Abort(s) \/ Commit(s)

Spec == Init /\ [][Next]_vars

-----------------------------------------------------------------------------
Move == [row : 1..Len(rows), from : Status, to : Transition, by : Staff]

\* Type invariant.
TypeOK ==
  /\ now \in 0..MaxTime /\ stored \in {Never} \cup 0..now /\ excused \in BOOLEAN
  /\ http \in [Http -> {"new", "running", "booked", "answered", "failed"}]
  /\ rows \in Seq(Status) /\ calls \in 0..MaxCalls
  /\ \A s \in Staff :
       /\ call[s].at \in {"idle", "read", "update", "audit", "commit"}
       /\ call[s].at # "idle" => call[s].row \in 1..Len(rows) /\ call[s].to \in Transition
       /\ call[s].at \in {"update", "audit", "commit"} => call[s].seen \in AllowedFrom(call[s].to)
  /\ ToSet(audit) \subseteq Move /\ ToSet(moves) \subseteq Move

\* A repeated key books again only for a reason the gate declares out of its scope:
\* requests that overlap, a response that could not be kept, or a key used again after its
\* window (idempotency/store.ts: "within a 24-hour deduplication window ... without
\* performing any additional state change", for sequential retries).
BookedOnceUnlessExcused == Len(rows) > 1 => excused

\* "Two concurrent operators cannot both win": whatever each of them read first, a booking
\* once fulfilled, declined or cancelled stays so.
DecisionsStand ==
  [][\A r \in 1..Len(rows) : rows[r] \in Terminal => rows'[r] = rows[r]]_vars

\* "A transition can never exist unattributed": across crashes and failed statements the
\* audit trail holds one record for each change, in order, with its author and its target.
EveryMoveAttributed ==
  /\ Len(audit) = Len(moves)
  /\ \A i \in 1..Len(audit) : /\ audit[i].row = moves[i].row
                               /\ audit[i].to = moves[i].to /\ audit[i].by = moves[i].by
=============================================================================
