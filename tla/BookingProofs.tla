---------------------------- MODULE BookingProofs ----------------------------
(***************************************************************************)
(* Proofs about a booking, for any number of requests that carry its key,  *)
(* any operators, any window and any bounds on the clock and the calls.    *)
(***************************************************************************)
EXTENDS Booking, TLAPS

-----------------------------------------------------------------------------
\* The inductive invariant.

CallState ==
  [at : {"idle", "read", "update", "audit", "commit"}, row : Nat, to : Transition,
   seen : Status, audited : BOOLEAN]

Record == [row : Nat, from : Status, to : Transition, by : Staff]

\* The operators' local variables are records and the logs are sequences of them.
Shapes ==
  /\ call \in [Staff -> CallState]
  /\ audit \in Seq(Record) /\ moves \in Seq(Record)

\* The update holds the booking's row, so its guard is still true at the commit.
InTransaction(s) == call[s].at \in {"audit", "commit"}

Guarded == \A s \in Staff : InTransaction(s) => GuardHolds(s)

Exclusive ==
  \A s, q \in Staff :
    InTransaction(s) /\ InTransaction(q) /\ call[s].row = call[q].row => s = q

\* No transaction comes to its commit without its record.
Recorded == \A s \in Staff : call[s].at = "commit" => call[s].audited

\* Without an excuse one request is in the handler at a time, none once an answer is
\* kept, and the one that is has made the only booking.
OneAtATime ==
  ~excused =>
    /\ \A g, h \in InHandler : g = h
    /\ stored # Never => InHandler = {}
    /\ stored = Never /\ rows # <<>> => \E h \in Http : http[h] = "booked"
    /\ Len(rows) <= 1

Inv ==
  /\ TypeOK /\ Shapes /\ Guarded /\ Exclusive /\ Recorded
  /\ OneAtATime /\ EveryMoveAttributed

-----------------------------------------------------------------------------
\* What the steps have in common.

\* The type invariant has a part for each side.
MemberTypes ==
  /\ now \in 0..MaxTime /\ stored \in {Never} \cup 0..now /\ excused \in BOOLEAN
  /\ http \in [Http -> {"new", "running", "booked", "answered", "failed"}]

StaffTypes ==
  /\ rows \in Seq(Status) /\ calls \in 0..MaxCalls
  /\ \A s \in Staff :
       /\ call[s].at \in {"idle", "read", "update", "audit", "commit"}
       /\ call[s].at # "idle" => call[s].row \in 1..Len(rows) /\ call[s].to \in Transition
       /\ call[s].at \in {"update", "audit", "commit"} => call[s].seen \in AllowedFrom(call[s].to)
  /\ ToSet(audit) \subseteq Move /\ ToSet(moves) \subseteq Move

LEMMA TypesAre == TypeOK <=> MemberTypes /\ StaffTypes
BY DEF TypeOK, MemberTypes, StaffTypes

\* What the staff's side keeps.
StaffInv == StaffTypes /\ Shapes /\ Guarded /\ Exclusive /\ Recorded /\ EveryMoveAttributed

LEMMA InvIs == Inv <=> MemberTypes /\ OneAtATime /\ StaffInv
BY TypesAre DEF Inv, StaffInv

LEMMA InvNext ==
  ASSUME MemberTypes', OneAtATime', StaffInv'
  PROVE  Inv'
BY DEF Inv, StaffInv, TypeOK, MemberTypes, StaffTypes

LEMMA ToSetIs ==
  ASSUME NEW S, NEW seq \in Seq(S), NEW e \in S
  PROVE  ToSet(Append(seq, e)) = ToSet(seq) \cup {e}
<1>1. /\ DOMAIN Append(seq, e) = 1..(Len(seq) + 1) /\ DOMAIN seq = 1..Len(seq)
      /\ \A i \in 1..Len(seq) : Append(seq, e)[i] = seq[i]
      /\ Append(seq, e)[Len(seq) + 1] = e
      /\ Len(seq) \in Nat
  OBVIOUS
<1>2. \A i \in 1..(Len(seq) + 1) : i \in 1..Len(seq) \/ i = Len(seq) + 1
  BY <1>1
<1>3. ToSet(seq) \cup {e} \subseteq ToSet(Append(seq, e))
  <2>1. 1..Len(seq) \subseteq 1..(Len(seq) + 1) /\ Len(seq) + 1 \in 1..(Len(seq) + 1)
    BY <1>1
  <2> QED  BY <1>1, <2>1, Zenon DEF ToSet
<1>4. ToSet(Append(seq, e)) \subseteq ToSet(seq) \cup {e}
  BY <1>1, <1>2, Zenon DEF ToSet
<1> QED  BY <1>3, <1>4

\* The first bookings keep their places when one is added.
LEMMA MoveGrows ==
  ASSUME rows \in Seq(Status), rows' \in Seq(Status), Len(rows) <= Len(rows')
  PROVE  Move \subseteq Move'
BY DEF Move

\* A step of the member's side leaves what the staff sees as it was.
LEMMA StaffWaits ==
  ASSUME StaffInv, UNCHANGED staffVars, UNCHANGED rows \/ rows' = Append(rows, "requested")
  PROVE  StaffInv'
<1> USE DEF StaffInv, staffVars
<1>1. /\ rows' \in Seq(Status) /\ Len(rows) \in Nat /\ Len(rows') \in Nat
      /\ Len(rows) <= Len(rows')
      /\ \A r \in 1..Len(rows) : rows'[r] = rows[r]
  BY DEF StaffTypes, Status
<1>2. StaffTypes'
  <2>1. Move \subseteq Move'
    BY <1>1, MoveGrows DEF StaffTypes
  <2> QED  BY <1>1, <2>1 DEF StaffTypes, ToSet
<1>3. Guarded'
  BY <1>1 DEF Guarded, GuardHolds, InTransaction, StaffTypes
<1>4. Shapes' /\ Exclusive' /\ Recorded' /\ EveryMoveAttributed'
  BY DEF Shapes, Exclusive, InTransaction, Recorded, EveryMoveAttributed
<1> QED  BY <1>2, <1>3, <1>4

-----------------------------------------------------------------------------
\* The member.

LEMMA InHandlerIs ==
  ASSUME NEW h \in Http
  PROVE  h \in InHandler <=> http[h] = "running" \/ http[h] = "booked"
BY DEF InHandler

LEMMA ArriveKeeps ==
  ASSUME Inv, NEW h \in Http, Arrive(h)
  PROVE  Inv'
<1> USE DEF memberVars
<1>1. StaffInv'
  BY InvIs, StaffWaits DEF Arrive
<1>2. MemberTypes'
  BY InvIs DEF Arrive, MemberTypes
<1>3. OneAtATime'
  <2> SUFFICES ASSUME ~excused'
               PROVE  OneAtATime'
    BY DEF OneAtATime
  <2>1. ~excused /\ InHandler = {} /\ (stored = Never \/ stored + Window > now)
    <3>1. ~(excused \/ InHandler # {} \/ (stored # Never /\ stored + Window <= now))
      BY Zenon DEF Arrive
    <3>2. now \in Int /\ stored \in Int
      BY InvIs, BookingAssumption DEF MemberTypes, Never
    <3> QED  BY <3>1, <3>2, BookingAssumption
  <2>2. stored # Never => IsLive
    BY <2>1, InvIs, BookingAssumption DEF IsLive, MemberTypes, Never
  <2>3. /\ \A g \in Http : g # h => http'[g] = http[g]
        /\ http'[h] = IF IsLive THEN "answered" ELSE "running"
        /\ UNCHANGED <<stored, rows>>
    BY InvIs DEF Arrive, MemberTypes
  <2>4. \A g \in InHandler' : g = h /\ ~IsLive
    BY <2>1, <2>3 DEF InHandler
  <2>5. stored = Never => rows = <<>>
    BY <2>1, InHandlerIs, InvIs DEF OneAtATime
  <2> QED  BY <2>1, <2>2, <2>3, <2>4, <2>5, InvIs DEF OneAtATime
<1> QED  BY <1>1, <1>2, <1>3, InvNext

LEMMA AnswerKeeps ==
  ASSUME Inv, NEW h \in Http, h \in InHandler, Answer(h), UNCHANGED rows
  PROVE  Inv'
<1>1. StaffInv'
  BY InvIs, StaffWaits DEF Answer
<1>2. /\ http' = [http EXCEPT ![h] = "answered"] /\ UNCHANGED <<now, excused, rows>>
      /\ stored' = IF stored = Never THEN now ELSE stored
  BY DEF Answer
<1>3. MemberTypes'
  BY <1>2, InvIs DEF MemberTypes
<1>4. OneAtATime'
  <2> SUFFICES ASSUME ~excused
               PROVE  OneAtATime'
    BY <1>2 DEF OneAtATime
  <2>1. \A g \in InHandler : g = h
    BY InvIs DEF OneAtATime
  <2>2. InHandler' = {}
    BY <1>2, <2>1, InvIs DEF InHandler, MemberTypes
  <2>3. stored' # Never
    BY <1>2, InvIs DEF MemberTypes, Never
  <2> QED  BY <1>2, <2>2, <2>3, InvIs DEF OneAtATime
<1> QED  BY <1>1, <1>3, <1>4, InvNext

LEMMA BookKeeps ==
  ASSUME Inv, NEW h \in Http, Book(h)
  PROVE  Inv'
<1>1. StaffInv'
  BY InvIs, StaffWaits DEF Book
<1>2. /\ http[h] = "running" /\ http' = [http EXCEPT ![h] = "booked"]
      /\ rows' = Append(rows, "requested") /\ UNCHANGED <<now, stored, excused>>
  BY DEF Book
<1>3. MemberTypes'
  BY <1>2, InvIs DEF MemberTypes
<1>4. OneAtATime'
  <2> SUFFICES ASSUME ~excused
               PROVE  OneAtATime'
    BY <1>2 DEF OneAtATime
  <2>1. h \in InHandler /\ \A g \in InHandler : g = h
    BY <1>2, InvIs, InHandlerIs DEF OneAtATime
  <2>2. stored = Never /\ \A g \in Http : http[g] # "booked"
    BY <1>2, <2>1, InvIs, InHandlerIs DEF OneAtATime
  <2>3. rows = <<>>
    BY <2>2, InvIs DEF OneAtATime
  <2>4. Len(rows') = 1
    BY <1>2, <2>3
  <2>5. http'[h] = "booked" /\ \A g \in InHandler' : g = h
    BY <1>2, <2>1, InvIs DEF InHandler, MemberTypes
  <2> QED  BY <1>2, <2>2, <2>4, <2>5 DEF OneAtATime
<1> QED  BY <1>1, <1>3, <1>4, InvNext

LEMMA FailKeeps ==
  ASSUME Inv, NEW h \in Http, Fail(h)
  PROVE  Inv'
<1>1. StaffInv'
  BY InvIs, StaffWaits DEF Fail
<1>2. /\ http[h] \in {"running", "booked"} /\ http' = [http EXCEPT ![h] = "failed"]
      /\ excused' = (excused \/ http[h] = "booked") /\ UNCHANGED <<now, stored, rows>>
  BY DEF Fail
<1>3. MemberTypes'
  BY <1>2, InvIs DEF MemberTypes
<1>4. OneAtATime'
  <2> SUFFICES ASSUME ~excused, http[h] = "running"
               PROVE  OneAtATime'
    BY <1>2 DEF OneAtATime
  <2>1. \A g \in Http : g # h => http'[g] = http[g]
    BY <1>2, InvIs DEF MemberTypes
  <2>2. InHandler' \subseteq InHandler /\ http'[h] = "failed"
    BY <1>2, <2>1, InvIs DEF InHandler, MemberTypes
  <2>3. \A g \in Http : http[g] = "booked" => http'[g] = "booked"
    BY <2>1
  <2> QED  BY <1>2, <2>2, <2>3, InvIs DEF OneAtATime
<1> QED  BY <1>1, <1>3, <1>4, InvNext

LEMMA TickKeeps ==
  ASSUME Inv, Tick
  PROVE  Inv'
<1>1. StaffInv'
  BY InvIs, StaffWaits DEF Tick
<1>2. now < MaxTime /\ now' = now + 1 /\ UNCHANGED <<http, stored, excused, rows>>
  BY DEF Tick
<1>3. MemberTypes'
  BY <1>2, InvIs, BookingAssumption DEF MemberTypes
<1>4. OneAtATime'
  BY <1>2, InvIs DEF OneAtATime, InHandler
<1> QED  BY <1>1, <1>3, <1>4, InvNext

-----------------------------------------------------------------------------
\* The staff.

LEMMA NoCallIs == NoCall \in CallState /\ NoCall.at = "idle"
BY DEF NoCall, CallState, Transition, Status

\* A step of the staff's side leaves what the member sees as it was: of the bookings only
\* their number matters there.
LEMMA MemberWaits ==
  ASSUME Inv, UNCHANGED memberVars, Len(rows') = Len(rows), rows' \in Seq(Status)
  PROVE  MemberTypes' /\ OneAtATime'
<1>1. MemberTypes'
  BY InvIs DEF MemberTypes, memberVars
<1>2. rows' = <<>> <=> rows = <<>>
  BY InvIs DEF StaffInv, StaffTypes
<1>3. OneAtATime'
  BY <1>2, InvIs DEF OneAtATime, InHandler, memberVars
<1> QED  BY <1>1, <1>3

\* An operator that changes its own state only keeps the invariant, if it enters the
\* transaction with the row free and the guard true, and its commit with its record.
LEMMA CallMoves ==
  ASSUME Inv, NEW s \in Staff, NEW c \in CallState, call' = [call EXCEPT ![s] = c],
         UNCHANGED <<memberVars, rows, audit, moves>>, calls' \in 0..MaxCalls,
         c.at # "idle" => c.row \in 1..Len(rows),
         c.at \in {"update", "audit", "commit"} => c.seen \in AllowedFrom(c.to),
         c.at \in {"audit", "commit"} =>
           /\ rows[c.row] \in AllowedFrom(c.to)
           /\ c.row = call[s].row /\ (InTransaction(s) \/ RowFree(s)),
         c.at = "commit" => c.audited
  PROVE  Inv'
<1> USE InvIs DEF StaffInv
<1>1. /\ call' \in [Staff -> CallState] /\ call'[s] = c
      /\ \A q \in Staff : q # s => call'[q] = call[q]
  BY DEF Shapes
<1>2. MemberTypes' /\ OneAtATime'
  BY MemberWaits DEF StaffTypes
<1>3. StaffTypes'
  <2>1. \A q \in Staff :
          /\ call'[q].at \in {"idle", "read", "update", "audit", "commit"}
          /\ call'[q].at # "idle" =>
               call'[q].row \in 1..Len(rows) /\ call'[q].to \in Transition
          /\ call'[q].at \in {"update", "audit", "commit"} =>
               call'[q].seen \in AllowedFrom(call'[q].to)
    BY <1>1 DEF StaffTypes, CallState
  <2> QED  BY <2>1 DEF StaffTypes, Move
<1>4. Guarded' /\ Recorded'
  BY <1>1 DEF Guarded, GuardHolds, InTransaction, Recorded
<1>5. Exclusive'
  <2>1. \A q \in Staff : q # s /\ InTransaction(q) /\ c.at \in {"audit", "commit"}
                          => call[q].row # c.row
    BY DEF Exclusive, InTransaction, RowFree
  <2> QED  BY <1>1, <2>1 DEF Exclusive, InTransaction
<1>6. Shapes' /\ EveryMoveAttributed'
  BY <1>1 DEF Shapes, EveryMoveAttributed
<1> QED  BY <1>2, <1>3, <1>4, <1>5, <1>6, InvNext

LEMMA AskKeeps ==
  ASSUME Inv, NEW s \in Staff, Ask(s)
  PROVE  Inv'
<1>1. PICK r \in 1..Len(rows), to \in Transition :
        call' = [call EXCEPT ![s] = [NoCall EXCEPT !.at = "read", !.row = r, !.to = to]]
  BY DEF Ask
<1> DEFINE c == [NoCall EXCEPT !.at = "read", !.row = r, !.to = to]
<1>2. r \in Nat
  BY InvIs DEF StaffInv, StaffTypes
<1>3. c \in CallState /\ c.at = "read" /\ c.row = r
  BY <1>2, NoCallIs DEF CallState
<1>4. calls' \in 0..MaxCalls /\ UNCHANGED <<memberVars, rows, audit, moves>>
  BY InvIs, BookingAssumption DEF Ask, StaffInv, StaffTypes
<1> HIDE DEF c
<1> QED  BY <1>1, <1>3, <1>4, CallMoves DEF c

LEMMA ReadKeeps ==
  ASSUME Inv, NEW s \in Staff, Read(s)
  PROVE  Inv'
<1> DEFINE is == rows[call[s].row]
           try == [call[s] EXCEPT !.at = "update", !.seen = is]
           c == IF is # call[s].to /\ is \in AllowedFrom(call[s].to) THEN try ELSE NoCall
<1>1. /\ call[s] \in CallState /\ call[s].at = "read" /\ call[s].row \in 1..Len(rows)
      /\ is \in Status /\ calls' \in 0..MaxCalls
      /\ UNCHANGED <<memberVars, rows, audit, moves>> /\ call' = [call EXCEPT ![s] = c]
  BY InvIs DEF Read, StaffInv, StaffTypes, Shapes
<1>2. /\ try \in CallState /\ try.at = "update" /\ try.row = call[s].row
      /\ try.seen = is /\ try.to = call[s].to
  BY <1>1 DEF CallState
<1>3. c \in CallState /\ c.at \in {"idle", "update"} /\ (c.at = "update" => c = try)
  BY <1>2, NoCallIs
<1>4. c.at = "update" => is \in AllowedFrom(call[s].to)
  BY NoCallIs
<1> HIDE DEF c, try, is
<1> QED  BY <1>1, <1>2, <1>3, <1>4, CallMoves

LEMMA UpdateKeeps ==
  ASSUME Inv, NEW s \in Staff, Update(s)
  PROVE  Inv'
<1> DEFINE go == [call[s] EXCEPT !.at = "audit"]
           c == IF GuardHolds(s) THEN go ELSE NoCall
<1>1. /\ call[s] \in CallState /\ call[s].at = "update" /\ RowFree(s)
      /\ call[s].row \in 1..Len(rows) /\ call[s].seen \in AllowedFrom(call[s].to)
      /\ calls' \in 0..MaxCalls
      /\ UNCHANGED <<memberVars, rows, audit, moves>> /\ call' = [call EXCEPT ![s] = c]
  BY InvIs DEF Update, StaffInv, StaffTypes, Shapes
<1>2. /\ go \in CallState /\ go.at = "audit" /\ go.row = call[s].row
      /\ go.seen = call[s].seen /\ go.to = call[s].to
  BY <1>1 DEF CallState
<1>3. c \in CallState /\ c.at \in {"idle", "audit"}
      /\ (c.at = "audit" => c = go /\ rows[call[s].row] \in AllowedFrom(call[s].to))
  BY <1>2, NoCallIs DEF GuardHolds
<1> HIDE DEF c, go
<1> QED  BY <1>1, <1>2, <1>3, CallMoves

LEMMA RecordAuditKeeps ==
  ASSUME Inv, NEW s \in Staff, RecordAudit(s)
  PROVE  Inv'
<1> DEFINE c == [call[s] EXCEPT !.at = "commit", !.audited = TRUE]
<1>1. /\ call \in [Staff -> CallState] /\ call[s].at = "audit"
      /\ call[s].row \in 1..Len(rows) /\ call[s].seen \in AllowedFrom(call[s].to)
      /\ InTransaction(s) /\ rows[call[s].row] \in AllowedFrom(call[s].to)
      /\ calls' \in 0..MaxCalls /\ UNCHANGED <<memberVars, rows, audit, moves>>
      /\ call' = [call EXCEPT ![s].at = "commit", ![s].audited = TRUE]
  BY InvIs DEF RecordAudit, StaffInv, StaffTypes, Shapes, Guarded, GuardHolds, InTransaction
<1>2. /\ c \in CallState /\ c.at = "commit" /\ c.row = call[s].row /\ c.audited
      /\ c.seen = call[s].seen /\ c.to = call[s].to
  BY <1>1 DEF CallState
<1>3. call' = [call EXCEPT ![s] = c]
  BY <1>1 DEF CallState
<1> HIDE DEF c
<1> QED  BY <1>1, <1>2, <1>3, CallMoves

LEMMA AbortKeeps ==
  ASSUME Inv, NEW s \in Staff, Abort(s)
  PROVE  Inv'
<1>1. /\ call' = [call EXCEPT ![s] = NoCall] /\ calls' \in 0..MaxCalls
      /\ UNCHANGED <<memberVars, rows, audit, moves>>
  BY InvIs DEF Abort, AfterError, StaffInv, StaffTypes
<1> QED  BY <1>1, NoCallIs, CallMoves

\* The commit writes the status, the record and the move together; no other operator is
\* in a transaction over the row.
LEMMA CommitKeeps ==
  ASSUME Inv, NEW s \in Staff, Commit(s)
  PROVE  Inv'
<1> USE InvIs DEF StaffInv
<1> DEFINE r == call[s].row
           to == call[s].to
           move == [row |-> r, from |-> rows[r], to |-> to, by |-> s]
           record == [row |-> r, from |-> call[s].seen, to |-> to, by |-> s]
<1>1. /\ call[s].at = "commit" /\ rows' = [rows EXCEPT ![r] = to]
      /\ moves' = Append(moves, move) /\ audit' = Append(audit, record)
      /\ call' = [call EXCEPT ![s] = NoCall] /\ UNCHANGED <<memberVars, calls>>
  BY DEF Commit, Recorded
<1>2. /\ r \in 1..Len(rows) /\ to \in Transition /\ rows[r] \in Status
      /\ call[s].seen \in Status /\ rows \in Seq(Status)
  BY <1>1 DEF StaffTypes, Shapes, CallState
<1>3. /\ rows' \in Seq(Status) /\ Len(rows') = Len(rows)
      /\ \A q \in 1..Len(rows) : q # r => rows'[q] = rows[q]
  BY <1>1, <1>2 DEF Status
<1>4. /\ call' \in [Staff -> CallState] /\ call'[s].at = "idle"
      /\ \A q \in Staff : q # s => call'[q] = call[q]
  BY <1>1, NoCallIs DEF Shapes
<1>5. /\ move \in Record /\ record \in Record /\ move \in Move /\ record \in Move
      /\ Move' = Move
  BY <1>2, <1>3 DEF Record, Move
<1>6. MemberTypes' /\ OneAtATime'
  BY <1>1, <1>3, MemberWaits
<1>7. StaffTypes'
  <2>1. \A q \in Staff :
          /\ call'[q].at \in {"idle", "read", "update", "audit", "commit"}
          /\ call'[q].at # "idle" =>
               call'[q].row \in 1..Len(rows) /\ call'[q].to \in Transition
          /\ call'[q].at \in {"update", "audit", "commit"} =>
               call'[q].seen \in AllowedFrom(call'[q].to)
    BY <1>4 DEF StaffTypes
  <2>2. ToSet(audit') = ToSet(audit) \cup {record} /\ ToSet(moves') = ToSet(moves) \cup {move}
    BY <1>1, <1>5, ToSetIs DEF Shapes
  <2> QED  BY <1>1, <1>3, <1>5, <2>1, <2>2 DEF StaffTypes
<1>8. Shapes' /\ Recorded'
  BY <1>1, <1>4, <1>5 DEF Shapes, Recorded
<1>9. Guarded' /\ Exclusive'
  <2>1. \A q \in Staff : q # s /\ InTransaction(q) => call[q].row # r
    BY <1>1 DEF Exclusive, InTransaction
  <2>2. \A q \in Staff : InTransaction(q)' => q # s /\ InTransaction(q) /\ call'[q] = call[q]
    BY <1>4 DEF InTransaction
  <2>3. \A q \in Staff : InTransaction(q) => call[q].row \in 1..Len(rows)
    BY DEF InTransaction, StaffTypes
  <2> QED  BY <1>3, <2>1, <2>2, <2>3 DEF Guarded, GuardHolds, Exclusive
<1>10. EveryMoveAttributed'
  BY <1>1, <1>5 DEF EveryMoveAttributed, Shapes
<1> QED  BY <1>6, <1>7, <1>8, <1>9, <1>10, InvNext

-----------------------------------------------------------------------------
\* The specification.

LEMMA InitInv == Init => Inv
<1> SUFFICES ASSUME Init PROVE Inv
  OBVIOUS
<1> USE DEF Init
<1>1. MemberTypes
  <2>1. now \in 0..MaxTime /\ stored \in {Never} \cup 0..now
    BY BookingAssumption
  <2>2. excused \in BOOLEAN
    BY Zenon
  <2>3. http \in [Http -> {"new", "running", "booked", "answered", "failed"}]
    OBVIOUS
  <2> QED  BY <2>1, <2>2, <2>3 DEF MemberTypes
<1>2. StaffTypes
  <2>1. ToSet(<<>>) = {}
    BY DEF ToSet
  <2>2. \A s \in Staff : call[s].at = "idle"
    BY NoCallIs
  <2> QED  BY <2>1, <2>2, BookingAssumption DEF StaffTypes
<1>3. OneAtATime
  <2>1. InHandler = {} /\ rows = <<>> /\ stored = Never /\ Len(rows) = 0
    BY DEF InHandler
  <2> QED  BY <2>1 DEF OneAtATime
<1>4. Shapes /\ Guarded /\ Exclusive /\ Recorded /\ EveryMoveAttributed
  BY NoCallIs DEF Shapes, Guarded, Exclusive, InTransaction, Recorded, EveryMoveAttributed
<1> QED  BY <1>1, <1>2, <1>3, <1>4, InvIs DEF StaffInv

LEMMA StutterKeeps ==
  ASSUME Inv, UNCHANGED vars
  PROVE  Inv'
<1>1. StaffInv'
  BY InvIs, StaffWaits DEF vars
<1>2. MemberTypes' /\ OneAtATime'
  BY InvIs DEF MemberTypes, OneAtATime, InHandler, vars, memberVars
<1> QED  BY <1>1, <1>2, InvNext

LEMMA StepInv == Inv /\ [Next]_vars => Inv'
<1> SUFFICES ASSUME Inv, Next PROVE Inv'
  BY StutterKeeps
<1>1. CASE \E h \in Http : Arrive(h) \/ Refuse(h) \/ Book(h) \/ Respond(h) \/ Fail(h)
  <2>1. \A h \in Http : Refuse(h) \/ Respond(h) => h \in InHandler /\ Answer(h) /\ UNCHANGED rows
    BY DEF Refuse, Respond, InHandler
  <2> QED  BY <1>1, <2>1, ArriveKeeps, AnswerKeeps, BookKeeps, FailKeeps
<1>2. CASE Tick
  BY <1>2, TickKeeps
<1>3. CASE \E s \in Staff : Ask(s) \/ Read(s) \/ Update(s) \/ RecordAudit(s) \/ Abort(s) \/ Commit(s)
  BY <1>3, AskKeeps, ReadKeeps, UpdateKeeps, RecordAuditKeeps, AbortKeeps, CommitKeeps
<1> QED  BY <1>1, <1>2, <1>3 DEF Next

\* Every state of the bookings satisfies the invariant.
THEOREM Invariance == Spec => []Inv
BY InitInv, StepInv, PTL DEF Spec

\* The clock, the requests, the bookings, the operators and the logs have their types: an
\* operator past its read acts on a booking that exists, from a status that allows it.
THEOREM TypeCorrect == Spec => []TypeOK
<1>1. Inv => TypeOK
  BY DEF Inv
<1> QED  BY <1>1, Invariance, PTL

\* Requests with one key that follow each other within the window book once, however many
\* there are and wherever they fail.
THEOREM BooksOnce == Spec => []BookedOnceUnlessExcused
<1>1. Inv => BookedOnceUnlessExcused
  BY DEF Inv, TypeOK, OneAtATime, BookedOnceUnlessExcused
<1> QED  BY <1>1, Invariance, PTL

\* Every change of a booking's status has its record in the audit trail, in order, with its
\* author and its target.
THEOREM AttributesEveryMove == Spec => []EveryMoveAttributed
<1>1. Inv => EveryMoveAttributed
  BY DEF Inv
<1> QED  BY <1>1, Invariance, PTL

\* No operator moves a booking on from a final status, whatever it has read before.
LEMMA DecisionStands ==
  Inv /\ [Next]_vars => (\A r \in 1..Len(rows) : rows[r] \in Terminal => rows'[r] = rows[r])
<1> SUFFICES ASSUME Inv, [Next]_vars, NEW r \in 1..Len(rows), rows[r] \in Terminal
             PROVE  rows'[r] = rows[r]
  OBVIOUS
<1> USE InvIs DEF StaffInv, StaffTypes
<1>1. CASE UNCHANGED rows
  BY <1>1
<1>2. CASE rows' = Append(rows, "requested")
  BY <1>2
<1>3. ASSUME NEW s \in Staff, Commit(s)
      PROVE  rows'[r] = rows[r]
  <2>1. rows' = [rows EXCEPT ![call[s].row] = call[s].to] /\ InTransaction(s)
    BY <1>3 DEF Commit, InTransaction
  <2>2. rows[call[s].row] \in {"requested", "confirmed"}
    BY <2>1 DEF Guarded, GuardHolds, AllowedFrom
  <2>3. r # call[s].row
    BY <2>2 DEF Terminal
  <2> QED  BY <2>1, <2>3
<1>4. UNCHANGED rows \/ rows' = Append(rows, "requested") \/ \E s \in Staff : Commit(s)
  BY DEF Next, vars, staffVars, Arrive, Refuse, Answer, Book, Respond, Fail, Tick,
         Ask, Read, Update, RecordAudit, Abort
<1> QED  BY <1>1, <1>2, <1>3, <1>4

\* "Two concurrent operators cannot both win", for any number of operators: what the guarded
\* update decides is final.
THEOREM DecidesOnce == Spec => DecisionsStand
BY DecisionStands, Invariance, PTL DEF Spec, DecisionsStand

=============================================================================
