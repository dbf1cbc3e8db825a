----------------------------- MODULE DueWorkProofs -----------------------------
(***************************************************************************)
(* Proofs about the recurring jobs and the pre-expiry notices, for any     *)
(* jobs, passes, lots, window and interval, any number of handlers and     *)
(* whatever goes wrong.                                                    *)
(***************************************************************************)
EXTENDS DueWork, FiniteSetTheorems, TLAPS

-----------------------------------------------------------------------------
(* The inductive invariant, first part: locks and notices.                 *)

Amounts == UNION {[S -> Nat] : S \in SUBSET Lot}

RunState ==
    [pc : {"idle", "scan", "select", "lock", "notify"}, retries : 0..RetryLimit,
     owned : BOOLEAN, matured : SUBSET Lot, within : SUBSET Lot, amounts : Amounts,
     done : SUBSET Lot]

(* A sweep holds lots only while it notifies, and knows how much is theirs. *)
Sound(r) ==
    /\ r.pc # "notify" => DOMAIN r.amounts = {}
    /\ r.done \subseteq DOMAIN r.amounts
    /\ \A l \in DOMAIN r.amounts : l \in Lot /\ r.amounts[l] \in 1..Points[l]

SchedulingTyped ==
    /\ power \in {"asleep", "booting", "awake"}
    /\ age \in [Job -> {Absent, Never} \cup 0..Interval]
    /\ claimed \in [Pass -> SUBSET Job]

QueueTyped == ready \in [0..RetryLimit -> Nat]

HandlersTyped == run \in [Handler -> RunState] /\ \A h \in Handler : Sound(run[h])

LotsTyped ==
    /\ left \in [Lot -> Nat] /\ remaining \in [Lot -> Nat] /\ unwarned \subseteq Lot
    /\ \A l \in Lot : left[l] <= Life[l] /\ remaining[l] <= Points[l]

NoticesTyped ==
    /\ noticed \subseteq Lot
    /\ notices \in [Lot -> Nat] /\ mail \in [Lot -> Nat]
    /\ told \in [Lot -> Nat] /\ aborted \in [Lot -> Nat]
    /\ \A l \in Lot : told[l] <= Points[l] /\ mail[l] <= notices[l]

FaultsTyped == faults \in 0..MaxFaults

Typed ==
    /\ SchedulingTyped /\ QueueTyped /\ HandlersTyped
    /\ LotsTyped /\ NoticesTyped /\ FaultsTyped

(* A lot is locked by one sweep at most, and until that sweep ends it has  *)
(* the points the sweep found in it.                                       *)
Held ==
    /\ \A g, h \in Handler :
          (\E l \in Lot : l \in DOMAIN run[g].amounts /\ l \in DOMAIN run[h].amounts) => g = h
    /\ \A h \in Handler : \A l \in DOMAIN run[h].amounts : run[h].amounts[l] = remaining[l]

(* What an open sweep has notified is not on record, and was published.    *)
Unsettled ==
    \A h \in Handler : \A l \in run[h].done : l \notin noticed /\ notices[l] > 0

Inv == Typed /\ Held /\ Unsettled /\ NoticesAccountedFor

-----------------------------------------------------------------------------
(* What the steps have in common.                                          *)

LEMMA IdleIsSound == Idle \in RunState /\ Sound(Idle)
<1>1. <<>> \in [{} -> Nat]
  OBVIOUS
<1>2. <<>> \in Amounts
  BY <1>1 DEF Amounts
<1>3. Idle \in RunState
  BY <1>2, DueWorkConstants DEF Idle, RunState
<1> QED  BY <1>3 DEF Idle, Sound

(* A handler whose state changes alone.                                    *)
LEMMA RunMoves ==
    ASSUME HandlersTyped, NEW h \in Handler, NEW r \in RunState, Sound(r),
           run' = [run EXCEPT ![h] = r]
    PROVE  /\ HandlersTyped'
           /\ run'[h] = r
           /\ \A g \in Handler \ {h} : run'[g] = run[g]
BY DEF HandlersTyped

LEMMA RedeliveredTyped ==
    ASSUME Inv, NEW h \in Handler
    PROVE  Redelivered(h) \in [0..RetryLimit -> Nat]
<1>1. run[h].retries \in 0..RetryLimit /\ ready \in [0..RetryLimit -> Nat]
  BY DEF Inv, Typed, HandlersTyped, QueueTyped, RunState
<1>2. CASE run[h].owned /\ run[h].retries < RetryLimit
  <2>1. run[h].retries + 1 \in 0..RetryLimit
    BY <1>1, <1>2, DueWorkConstants
  <2>2. Redelivered(h) = [ready EXCEPT ![run[h].retries + 1] = @ + 1]
    BY <1>2 DEF Redelivered
  <2>3. ready[run[h].retries + 1] + 1 \in Nat
    BY <1>1, <2>1
  <2> QED  BY <1>1, <2>1, <2>2, <2>3
<1>3. CASE ~(run[h].owned /\ run[h].retries < RetryLimit)
  BY <1>1, <1>3 DEF Redelivered
<1> QED  BY <1>2, <1>3

(* The sweeps that have notified a lot and not settled.                    *)
Open(l) == {h \in Handler : l \in run[h].done}

LEMMA OpenIsFinite ==
    \A l : IsFiniteSet(Open(l)) /\ Cardinality(Open(l)) \in Nat
<1> TAKE l
<1>1. Open(l) \subseteq Handler
  BY DEF Open
<1> QED  BY <1>1, DueWorkConstants, FS_Subset, FS_CardinalityType

(* One sweep fewer.                                                        *)
LEMMA OneCloses ==
    ASSUME NEW l, NEW h \in Open(l), Open(l)' = Open(l) \ {h}
    PROVE  Cardinality(Open(l)') = Cardinality(Open(l)) - 1
BY OpenIsFinite, FS_RemoveElement

(* One sweep more.                                                         *)
LEMMA OneOpens ==
    ASSUME NEW l, NEW h, h \notin Open(l), Open(l)' = Open(l) \cup {h}
    PROVE  Cardinality(Open(l)') = Cardinality(Open(l)) + 1
BY OpenIsFinite, FS_AddElement

(* The account of one lot's notices.                                       *)
Accounted(l) ==
    /\ l \in noticed => notices[l] > 0
    /\ notices[l] <= aborted[l] + Cardinality(Open(l)) + IF l \in noticed THEN 1 ELSE 0

LEMMA AccountOf == NoticesAccountedFor <=> \A l \in Lot : Accounted(l)
BY DEF NoticesAccountedFor, Accounted, Open

LEMMA AccountOfNext == NoticesAccountedFor' <=> \A l \in Lot : Accounted(l)'
BY DEF NoticesAccountedFor, Accounted, Open

(* A handler moves on and settles, notifies and locks nothing.             *)
LEMMA NothingSettles ==
    ASSUME Inv, NEW h \in Handler, NEW r \in RunState, Sound(r),
           run' = [run EXCEPT ![h] = r],
           r.amounts = run[h].amounts, r.done = run[h].done,
           UNCHANGED <<remaining, noticed, notices, aborted>>
    PROVE  HandlersTyped' /\ Held' /\ Unsettled' /\ NoticesAccountedFor'
<1>1. /\ HandlersTyped'
      /\ \A g \in Handler : /\ run'[g].amounts = run[g].amounts
                            /\ run'[g].done = run[g].done
  BY RunMoves DEF Inv, Typed
<1>2. Held' /\ Unsettled'
  BY <1>1 DEF Inv, Held, Unsettled
<1>3. \A l : Open(l)' = Open(l)
  BY <1>1 DEF Open
<1>4. NoticesAccountedFor'
  BY <1>3, AccountOf, AccountOfNext DEF Inv, Accounted
<1> QED  BY <1>1, <1>2, <1>4

(* The transaction of a sweep is rolled back: its locks go, and what it    *)
(* had notified is put down to it.                                         *)
LEMMA RolledBack ==
    ASSUME Inv, NEW h \in Handler, run' = [run EXCEPT ![h] = Idle],
           UNCHANGED <<remaining, noticed>>,
           notices' \in [Lot -> Nat], \A l \in Lot : notices'[l] >= notices[l],
           NEW D \in SUBSET Lot,
           aborted' = [l \in Lot |-> aborted[l] + IF l \in D THEN 1 ELSE 0],
           \A l \in Lot : l \in run[h].done => l \in D /\ notices'[l] = notices[l],
           \A l \in Lot : notices'[l] <= notices[l] + IF l \in D THEN 1 ELSE 0
    PROVE  HandlersTyped' /\ Held' /\ Unsettled' /\ NoticesAccountedFor'
<1>1. /\ HandlersTyped' /\ run'[h] = Idle
      /\ \A g \in Handler \ {h} : run'[g] = run[g]
  BY RunMoves, IdleIsSound DEF Inv, Typed
<1>2. DOMAIN Idle.amounts = {} /\ Idle.done = {}
  BY DEF Idle
<1>3. Held'
  BY <1>1, <1>2 DEF Inv, Held
<1>4. Unsettled'
  <2> SUFFICES ASSUME NEW g \in Handler, NEW l \in run'[g].done
               PROVE  l \notin noticed /\ notices'[l] > 0
    BY DEF Unsettled
  <2>1. g # h /\ l \in run[g].done
    BY <1>1, <1>2
  <2>2. l \in Lot
    BY <2>1 DEF Inv, Typed, HandlersTyped, RunState
  <2>3. l \notin noticed /\ notices[l] > 0
    BY <2>1 DEF Inv, Unsettled
  <2> QED  BY <2>2, <2>3 DEF Inv, Typed, NoticesTyped
<1>5. \A l \in Lot : Accounted(l)'
  <2> TAKE l \in Lot
  <2>1. /\ l \in noticed => notices[l] > 0
        /\ notices[l] <= aborted[l] + Cardinality(Open(l)) + IF l \in noticed THEN 1 ELSE 0
    BY AccountOf DEF Inv, Accounted
  <2>2. /\ notices[l] \in Nat /\ aborted[l] \in Nat /\ notices'[l] \in Nat
        /\ Cardinality(Open(l)) \in Nat
    BY OpenIsFinite DEF Inv, Typed, NoticesTyped
  <2>3. aborted'[l] = aborted[l] + IF l \in D THEN 1 ELSE 0
    OBVIOUS
  <2>4. CASE l \in run[h].done
    <3>1. Open(l)' = Open(l) \ {h} /\ h \in Open(l)
      BY <1>1, <1>2, <2>4 DEF Open
    <3>2. Cardinality(Open(l)') = Cardinality(Open(l)) - 1
      BY <3>1, OneCloses
    <3> QED  BY <2>1, <2>2, <2>3, <2>4, <3>2 DEF Accounted
  <2>5. CASE l \notin run[h].done
    <3>1. Open(l)' = Open(l)
      BY <1>1, <1>2, <2>5 DEF Open
    <3> QED  BY <2>1, <2>2, <2>3, <3>1 DEF Accounted
  <2> QED  BY <2>4, <2>5
<1> QED  BY <1>1, <1>3, <1>4, <1>5, AccountOfNext

-----------------------------------------------------------------------------
(* Scheduling, and the beginning of a run.                                 *)

LEMMA InitInv == Init => Inv
<1> SUFFICES ASSUME Init
             PROVE  Inv
  OBVIOUS
<1>1. \A h \in Handler : run[h] = Idle /\ DOMAIN run[h].amounts = {} /\ run[h].done = {}
  BY DEF Init, Idle
<1>2. HandlersTyped
  BY <1>1, IdleIsSound DEF Init, HandlersTyped
<1>3. SchedulingTyped /\ QueueTyped /\ FaultsTyped
  BY DueWorkConstants DEF Init, SchedulingTyped, QueueTyped, FaultsTyped
<1>4. LotsTyped
  BY DueWorkConstants DEF Init, LotsTyped
<1>5. NoticesTyped
  BY DueWorkConstants DEF Init, NoticesTyped
<1>6. Held /\ Unsettled
  BY <1>1 DEF Held, Unsettled
<1>7. NoticesAccountedFor
  <2>1. \A l \in Lot : notices[l] = 0 /\ aborted[l] = 0 /\ l \notin noticed
    BY DEF Init
  <2> QED  BY <2>1, OpenIsFinite, AccountOf DEF Accounted
<1> QED  BY <1>2, <1>3, <1>4, <1>5, <1>6, <1>7 DEF Inv, Typed

(* What moves neither handler nor lot nor notice.                          *)
LEMMA OnlyScheduling ==
    ASSUME Inv, UNCHANGED <<run, lotState, noticeState>>,
           SchedulingTyped', QueueTyped', FaultsTyped'
    PROVE  Inv'
<1>1. UNCHANGED <<run, left, remaining, unwarned, noticed, notices, mail, told, aborted>>
  BY DEF lotState, noticeState
<1>2. HandlersTyped' /\ LotsTyped' /\ NoticesTyped'
  BY <1>1 DEF Inv, Typed, HandlersTyped, LotsTyped, NoticesTyped
<1>3. Held' /\ Unsettled' /\ NoticesAccountedFor'
  BY <1>1 DEF Inv, Held, Unsettled, NoticesAccountedFor
<1> QED  BY <1>2, <1>3 DEF Inv, Typed

LEMMA FaultTyped == ASSUME Inv, Fault PROVE FaultsTyped'
BY DueWorkConstants DEF Inv, Typed, FaultsTyped, Fault

LEMMA PassesKeep ==
    ASSUME Inv, Scheduling \/ ClaimFails \/ \E p \in Pass : PublishFails(p)
    PROVE  Inv'
<1> USE DEF Inv, Typed
<1>1. CASE Boot
  <2>1. SchedulingTyped'
    BY <1>1 DEF Boot, SchedulingTyped, Registered, Absent, Never
  <2> QED  BY <1>1, <2>1, OnlyScheduling DEF Boot, QueueTyped, FaultsTyped
<1>2. CASE Listen
  <2>1. SchedulingTyped'
    BY <1>2 DEF Listen, SchedulingTyped
  <2> QED  BY <1>2, <2>1, OnlyScheduling DEF Listen, QueueTyped, FaultsTyped
<1>3. ASSUME NEW p \in Pass, Claim(p)
      PROVE  Inv'
  <2>1. Due \in SUBSET Job /\ 0 \in 0..Interval
    BY DueWorkConstants DEF Due
  <2>2. SchedulingTyped'
    BY <1>3, <2>1 DEF Claim, SchedulingTyped
  <2> QED  BY <1>3, <2>2, OnlyScheduling DEF Claim, QueueTyped, FaultsTyped
<1>4. ASSUME NEW p \in Pass, NEW j \in Job, Publish(p, j)
      PROVE  Inv'
  <2>1. SchedulingTyped'
    BY <1>4 DEF Publish, SchedulingTyped
  <2>2. QueueTyped'
    BY <1>4, DueWorkConstants DEF Publish, QueueTyped
  <2> QED  BY <1>4, <2>1, <2>2, OnlyScheduling DEF Publish, FaultsTyped
<1>5. CASE ClaimFails
  <2>1. SchedulingTyped'
    BY <1>5 DEF ClaimFails, SchedulingTyped
  <2>2. FaultsTyped'
    BY <1>5, FaultTyped DEF ClaimFails
  <2> QED  BY <1>5, <2>1, <2>2, OnlyScheduling DEF ClaimFails, QueueTyped
<1>6. ASSUME NEW p \in Pass, PublishFails(p)
      PROVE  Inv'
  <2>1. SchedulingTyped'
    BY <1>6 DEF PublishFails, SchedulingTyped
  <2>2. FaultsTyped'
    BY <1>6, FaultTyped DEF PublishFails
  <2> QED  BY <1>6, <2>1, <2>2, OnlyScheduling DEF PublishFails, QueueTyped
<1> QED  BY <1>1, <1>2, <1>3, <1>4, <1>5, <1>6 DEF Scheduling

(* Time passes for the lots, and touches nothing they hold.                *)
LEMMA TickKeeps ==
    ASSUME Inv, Tick
    PROVE  Inv'
<1>1. UNCHANGED <<power, claimed, ready, run, remaining, unwarned,
                  noticed, notices, mail, told, aborted>>
  BY DEF Tick, noticeState
<1>2. SchedulingTyped'
  <2> SUFFICES ASSUME NEW j \in Job
               PROVE  IF age[j] = Never THEN TRUE
                      ELSE (IF age[j] < Interval THEN age[j] + 1 ELSE Interval) \in 0..Interval
    BY <1>1 DEF Tick, Inv, Typed, SchedulingTyped
  <2>1. age[j] \in {Absent, Never} \cup 0..Interval /\ age[j] # Absent
    BY DEF Tick, Inv, Typed, SchedulingTyped
  <2> QED  BY <2>1, DueWorkConstants
<1>3. LotsTyped'
  <2>1. \A l \in Lot : left[l] \in Nat /\ left[l] <= Life[l] /\ Life[l] \in Nat
    BY DueWorkConstants DEF Inv, Typed, LotsTyped
  <2>2. left' = [l \in Lot |-> IF left[l] > 0 THEN left[l] - 1 ELSE 0]
    BY DEF Tick
  <2>3. left' \in [Lot -> Nat] /\ \A l \in Lot : left'[l] <= Life[l]
    BY <2>1, <2>2
  <2> QED  BY <1>1, <2>3 DEF Inv, Typed, LotsTyped
<1>4. FaultsTyped'
  <2>1. CASE Fault
    BY <2>1, FaultTyped
  <2>2. CASE UNCHANGED faults
    BY <2>2 DEF Inv, Typed, FaultsTyped
  <2> QED  BY <2>1, <2>2 DEF Tick
<1>5. QueueTyped' /\ HandlersTyped' /\ NoticesTyped'
  BY <1>1 DEF Inv, Typed, QueueTyped, HandlersTyped, NoticesTyped
<1>6. Held' /\ Unsettled' /\ NoticesAccountedFor'
  BY <1>1 DEF Inv, Held, Unsettled, NoticesAccountedFor
<1> QED  BY <1>2, <1>3, <1>4, <1>5, <1>6 DEF Inv, Typed

-----------------------------------------------------------------------------
(* The handlers.                                                           *)

LEMMA DeliverKeeps ==
    ASSUME Inv, NEW h \in Handler, NEW n \in 0..RetryLimit, Deliver(h, n)
    PROVE  Inv'
<1> DEFINE r == [Idle EXCEPT !.pc = "scan", !.retries = n, !.owned = TRUE,
                             !.matured = {l \in Lot : left[l] = 0},
                             !.within = {l \in Lot : Within(l)}]
<1>1. /\ r \in RunState /\ r.pc = "scan"
      /\ r.amounts = Idle.amounts /\ r.done = Idle.done
  BY IdleIsSound DEF RunState
<1>2. Sound(r)
  BY <1>1, IdleIsSound DEF Sound, Idle
<1>3. run' = [run EXCEPT ![h] = r]
  BY DEF Deliver
<1> HIDE DEF r
<1>4. UNCHANGED <<power, age, claimed, left, remaining, unwarned, noticed, notices, mail,
                  told, aborted, faults>>
  BY DEF Deliver, scheduling, lotState, noticeState
<1>5. run[h] \in RunState /\ Sound(run[h]) /\ run[h].pc = "idle"
  BY DEF Deliver, Inv, Typed, HandlersTyped
<1>6. QueueTyped'
  BY DueWorkConstants DEF Deliver, Inv, Typed, QueueTyped
<1>7. SchedulingTyped' /\ LotsTyped' /\ NoticesTyped' /\ FaultsTyped'
  BY <1>4 DEF Inv, Typed, SchedulingTyped, LotsTyped, NoticesTyped, FaultsTyped
<1>8. /\ HandlersTyped' /\ run'[h] = r
      /\ \A g \in Handler \ {h} : run'[g] = run[g]
  BY <1>1, <1>2, <1>3, RunMoves DEF Inv, Typed
<1>9. /\ DOMAIN r.amounts = {} /\ r.done = {}
      /\ DOMAIN run[h].amounts = {} /\ run[h].done = {}
  BY <1>1, <1>2, <1>5 DEF Sound
<1>10. Held' /\ Unsettled'
  BY <1>4, <1>8, <1>9 DEF Inv, Held, Unsettled
<1>11. \A l : Open(l)' = Open(l)
  BY <1>8, <1>9 DEF Open
<1>12. NoticesAccountedFor'
  BY <1>4, <1>11, AccountOf, AccountOfNext DEF Inv, Accounted
<1> QED  BY <1>6, <1>7, <1>8, <1>10, <1>12 DEF Inv, Typed

LEMMA TimeOutKeeps ==
    ASSUME Inv, NEW h \in Handler, TimeOut(h)
    PROVE  Inv'
<1> DEFINE r == [run[h] EXCEPT !.owned = FALSE]
<1>1. run[h] \in RunState /\ Sound(run[h])
  BY DEF Inv, Typed, HandlersTyped
<1>2. /\ r \in RunState /\ r.pc = run[h].pc
      /\ r.amounts = run[h].amounts /\ r.done = run[h].done
  BY <1>1 DEF RunState
<1>3. Sound(r)
  BY <1>1, <1>2 DEF Sound
<1>4. run' = [run EXCEPT ![h] = r]
  BY <1>1 DEF TimeOut, RunState, Inv, Typed, HandlersTyped
<1> HIDE DEF r
<1>5. UNCHANGED <<power, age, claimed, left, remaining, unwarned, noticed, notices, mail,
                  told, aborted>>
  BY DEF TimeOut, scheduling, lotState, noticeState
<1>6. HandlersTyped' /\ Held' /\ Unsettled' /\ NoticesAccountedFor'
  BY <1>2, <1>3, <1>4, <1>5, NothingSettles
<1>7. QueueTyped'
  BY RedeliveredTyped DEF TimeOut, QueueTyped
<1>8. FaultsTyped'
  BY FaultTyped DEF TimeOut
<1>9. SchedulingTyped' /\ LotsTyped' /\ NoticesTyped'
  BY <1>5 DEF Inv, Typed, SchedulingTyped, LotsTyped, NoticesTyped
<1> QED  BY <1>6, <1>7, <1>8, <1>9 DEF Inv, Typed

LEMMA HandlerFailsKeeps ==
    ASSUME Inv, NEW h \in Handler, HandlerFails(h)
    PROVE  Inv'
<1>1. /\ UNCHANGED <<power, age, claimed, left, remaining, unwarned, noticed, notices, mail,
                     told>>
      /\ run' = [run EXCEPT ![h] = Idle]
      /\ aborted' = [l \in Lot |-> aborted[l] + IF l \in run[h].done THEN 1 ELSE 0]
      /\ ready' = Redelivered(h)
      /\ Fault
  BY DEF HandlerFails, Abort, scheduling, lotState
<1>2. run[h].done \in SUBSET Lot
  BY DEF Inv, Typed, HandlersTyped, RunState
<1>3. notices \in [Lot -> Nat] /\ aborted \in [Lot -> Nat]
  BY DEF Inv, Typed, NoticesTyped
<1>4. \A l \in Lot : /\ notices'[l] >= notices[l] /\ notices'[l] = notices[l]
                     /\ notices'[l] <= notices[l] + IF l \in run[h].done THEN 1 ELSE 0
  BY <1>1, <1>3
<1>5. HandlersTyped' /\ Held' /\ Unsettled' /\ NoticesAccountedFor'
  BY <1>1, <1>2, <1>3, <1>4, RolledBack
<1>6. QueueTyped' /\ FaultsTyped'
  BY <1>1, RedeliveredTyped, FaultTyped DEF QueueTyped
<1>7. aborted' \in [Lot -> Nat]
  BY <1>1, <1>3
<1>8. SchedulingTyped' /\ LotsTyped' /\ NoticesTyped'
  BY <1>1, <1>7 DEF Inv, Typed, SchedulingTyped, LotsTyped, NoticesTyped
<1> QED  BY <1>5, <1>6, <1>8 DEF Inv, Typed

(* The expiry scan takes no lot that a sweep holds.                        *)
LEMMA ScanKeeps ==
    ASSUME Inv, NEW h \in Handler, Scan(h)
    PROVE  Inv'
<1> DEFINE taken == {l \in run[h].matured : remaining[l] > 0}
           r == [run[h] EXCEPT !.pc = "select"]
<1>1. /\ run[h] \in RunState /\ Sound(run[h])
      /\ run[h].pc = "scan" /\ taken \subseteq Lot
  BY DEF Inv, Typed, HandlersTyped, Scan, RunState
<1>2. /\ r \in RunState /\ r.pc = "select"
      /\ r.amounts = run[h].amounts /\ r.done = run[h].done
  BY <1>1 DEF RunState
<1>3. Sound(r)
  BY <1>1, <1>2 DEF Sound
<1>4. run' = [run EXCEPT ![h] = r]
  BY <1>1 DEF Scan, RunState, Inv, Typed, HandlersTyped
<1>5. /\ \A l \in taken : ~Locked(l)
      /\ remaining' = [l \in Lot |-> IF l \in taken THEN 0 ELSE remaining[l]]
      /\ unwarned' = unwarned \cup (taken \ noticed)
      /\ UNCHANGED <<power, age, claimed, ready, left, noticed, notices, mail, told,
                     aborted, faults>>
  BY DEF Scan, scheduling, noticeState
<1> HIDE DEF r, taken
<1>6. /\ HandlersTyped' /\ run'[h] = r
      /\ \A g \in Handler : /\ run'[g].amounts = run[g].amounts
                            /\ run'[g].done = run[g].done
  BY <1>2, <1>3, <1>4, RunMoves DEF Inv, Typed
<1>7. \A g \in Handler : \A l \in DOMAIN run[g].amounts : remaining'[l] = remaining[l]
  BY <1>5 DEF Locked, Inv, Typed, HandlersTyped, Sound
<1>8. Held' /\ Unsettled'
  BY <1>5, <1>6, <1>7 DEF Inv, Held, Unsettled
<1>9. \A l : Open(l)' = Open(l)
  BY <1>6 DEF Open
<1>10. NoticesAccountedFor'
  BY <1>5, <1>9, AccountOf, AccountOfNext DEF Inv, Accounted
<1>11. LotsTyped'
  <2>1. \A l \in Lot : remaining[l] \in Nat /\ remaining[l] <= Points[l] /\ Points[l] \in Nat
    BY DueWorkConstants DEF Inv, Typed, LotsTyped
  <2>2. remaining' \in [Lot -> Nat] /\ \A l \in Lot : remaining'[l] <= Points[l]
    BY <1>5, <2>1
  <2>3. unwarned' \subseteq Lot
    BY <1>1, <1>5 DEF Inv, Typed, LotsTyped
  <2> QED  BY <1>5, <2>2, <2>3 DEF Inv, Typed, LotsTyped
<1>12. SchedulingTyped' /\ QueueTyped' /\ NoticesTyped' /\ FaultsTyped'
  BY <1>5 DEF Inv, Typed, SchedulingTyped, QueueTyped, NoticesTyped, FaultsTyped
<1> QED  BY <1>6, <1>8, <1>10, <1>11, <1>12 DEF Inv, Typed

LEMMA SelectKeeps ==
    ASSUME Inv, NEW h \in Handler, Select(h)
    PROVE  Inv'
<1> DEFINE W == {l \in run[h].within : remaining[l] > 0 /\ l \notin noticed}
           r == [run[h] EXCEPT !.pc = "lock", !.within = W]
<1>1. /\ run[h] \in RunState /\ Sound(run[h])
      /\ run[h].pc = "select" /\ W \subseteq Lot
  BY DEF Inv, Typed, HandlersTyped, Select, RunState
<1>2. /\ r \in RunState /\ r.pc = "lock"
      /\ r.amounts = run[h].amounts /\ r.done = run[h].done
  BY <1>1 DEF RunState
<1>3. Sound(r)
  BY <1>1, <1>2 DEF Sound
<1>4. run' = [run EXCEPT ![h] = r]
  BY <1>1 DEF Select, RunState, Inv, Typed, HandlersTyped
<1>5. UNCHANGED <<power, age, claimed, ready, left, remaining, unwarned, noticed, notices,
                  mail, told, aborted, faults>>
  BY DEF Select, scheduling, lotState, noticeState
<1> HIDE DEF r, W
<1>6. HandlersTyped' /\ Held' /\ Unsettled' /\ NoticesAccountedFor'
  BY <1>2, <1>3, <1>4, <1>5, NothingSettles
<1>7. SchedulingTyped' /\ QueueTyped' /\ LotsTyped' /\ NoticesTyped' /\ FaultsTyped'
  BY <1>5 DEF Inv, Typed, SchedulingTyped, QueueTyped, LotsTyped, NoticesTyped, FaultsTyped
<1> QED  BY <1>6, <1>7 DEF Inv, Typed

(* The rows it waited for are no sweep's.                                  *)
LEMMA LockSelectedKeeps ==
    ASSUME Inv, NEW h \in Handler, LockSelected(h)
    PROVE  Inv'
<1> DEFINE a == [l \in Rows(h) |-> remaining[l]]
           r == [run[h] EXCEPT !.pc = "notify", !.amounts = a]
<1>1. /\ run[h] \in RunState /\ Sound(run[h]) /\ run[h].pc = "lock"
      /\ run[h].within \subseteq Lot
      /\ remaining \in [Lot -> Nat]
      /\ \A l \in Lot : remaining[l] <= Points[l]
  BY DEF Inv, Typed, HandlersTyped, LotsTyped, LockSelected, RunState
<1>2. /\ Rows(h) \subseteq Lot /\ Rows(h) \subseteq run[h].within
      /\ \A l \in Rows(h) : remaining[l] > 0
  BY <1>1 DEF Rows
<1>3. a \in Amounts
  <2>1. a \in [Rows(h) -> Nat]
    BY <1>1, <1>2
  <2> QED  BY <1>2, <2>1 DEF Amounts
<1>4. DOMAIN a = Rows(h) /\ \A l \in Rows(h) : a[l] = remaining[l]
  OBVIOUS
<1> HIDE DEF a
<1>5. DOMAIN run[h].amounts = {} /\ run[h].done = {}
  BY <1>1 DEF Sound
<1>6. /\ r \in RunState /\ r.pc = "notify"
      /\ r.amounts = a /\ r.done = {}
  BY <1>1, <1>3, <1>5 DEF RunState
<1>7. Sound(r)
  BY <1>1, <1>2, <1>4, <1>6, DueWorkConstants DEF Sound
<1>8. run' = [run EXCEPT ![h] = r]
  BY <1>1 DEF LockSelected, RunState, Inv, Typed, HandlersTyped, a
<1> HIDE DEF r
<1>9. /\ \A l \in run[h].within : ~Locked(l)
      /\ UNCHANGED <<power, age, claimed, ready, left, remaining, unwarned, noticed, notices,
                     mail, told, aborted, faults>>
  BY DEF LockSelected, scheduling, lotState, noticeState
<1>10. /\ HandlersTyped' /\ run'[h] = r
       /\ \A g \in Handler \ {h} : run'[g] = run[g]
  BY <1>6, <1>7, <1>8, RunMoves DEF Inv, Typed
<1>11. \A g \in Handler : \A l \in Rows(h) : l \notin DOMAIN run[g].amounts
  BY <1>2, <1>9 DEF Locked
<1>12. Held'
  <2>1. \A f, g \in Handler :
          (\E l \in Lot : l \in DOMAIN run'[f].amounts /\ l \in DOMAIN run'[g].amounts)
             => f = g
    BY <1>4, <1>6, <1>10, <1>11 DEF Inv, Held
  <2>2. \A g \in Handler : \A l \in DOMAIN run'[g].amounts : run'[g].amounts[l] = remaining[l]
    BY <1>4, <1>6, <1>10 DEF Inv, Held
  <2> QED  BY <1>9, <2>1, <2>2 DEF Held
<1>13. Unsettled'
  BY <1>6, <1>9, <1>10 DEF Inv, Unsettled
<1>14. \A l : Open(l)' = Open(l)
  BY <1>5, <1>6, <1>10 DEF Open
<1>15. NoticesAccountedFor'
  BY <1>9, <1>14, AccountOf, AccountOfNext DEF Inv, Accounted
<1>16. SchedulingTyped' /\ QueueTyped' /\ LotsTyped' /\ NoticesTyped' /\ FaultsTyped'
  BY <1>9 DEF Inv, Typed, SchedulingTyped, QueueTyped, LotsTyped, NoticesTyped, FaultsTyped
<1> QED  BY <1>10, <1>12, <1>13, <1>15, <1>16 DEF Inv, Typed

-----------------------------------------------------------------------------
(* Notices.                                                                *)

(* What a notice does to the numbers, whether it is published or collapses *)
(* with one that is still to be sent.                                      *)
LEMMA Published ==
    ASSUME Inv, NEW h \in Handler, NEW l \in Lot, Notify(h, l)
    PROVE  /\ l \in DOMAIN run[h].amounts /\ l \notin run[h].done
           /\ run[h].pc = "notify"
           /\ notices' \in [Lot -> Nat] /\ mail' \in [Lot -> Nat] /\ told' \in [Lot -> Nat]
           /\ \A m \in Lot : mail'[m] <= notices'[m] /\ told'[m] <= Points[m]
           /\ \A m \in Lot \ {l} : notices'[m] = notices[m]
           /\ notices'[l] >= notices[l] /\ notices'[l] <= notices[l] + 1 /\ notices'[l] > 0
<1>1. /\ run[h].pc = "notify" /\ l \in DOMAIN run[h].amounts /\ l \notin run[h].done
      /\ run[h].amounts[l] \in 1..Points[l]
  BY DEF Notify, Inv, Typed, HandlersTyped, Sound
<1>2. /\ notices \in [Lot -> Nat] /\ mail \in [Lot -> Nat] /\ told \in [Lot -> Nat]
      /\ \A m \in Lot : mail[m] <= notices[m] /\ told[m] <= Points[m] /\ Points[m] \in Nat
  BY DueWorkConstants DEF Inv, Typed, NoticesTyped
<1>3. CASE /\ notices' = [notices EXCEPT ![l] = @ + 1]
           /\ mail' = [mail EXCEPT ![l] = @ + 1]
           /\ told' = [told EXCEPT ![l] = run[h].amounts[l]]
  <2>1. notices' \in [Lot -> Nat] /\ mail' \in [Lot -> Nat] /\ told' \in [Lot -> Nat]
    BY <1>1, <1>2, <1>3
  <2>2. \A m \in Lot \ {l} : /\ notices'[m] = notices[m] /\ mail'[m] = mail[m]
                             /\ told'[m] = told[m]
    BY <1>2, <1>3
  <2>3. notices'[l] = notices[l] + 1 /\ mail'[l] = mail[l] + 1 /\ told'[l] = run[h].amounts[l]
    BY <1>2, <1>3
  <2>4. \A m \in Lot : mail'[m] <= notices'[m] /\ told'[m] <= Points[m]
    BY <1>1, <1>2, <2>2, <2>3
  <2> QED  BY <1>1, <1>2, <2>1, <2>2, <2>3, <2>4
<1>4. CASE mail[l] > 0 /\ UNCHANGED <<notices, mail, told>>
  BY <1>1, <1>2, <1>4
<1> QED  BY <1>3, <1>4 DEF Notify

LEMMA NotifyKeeps ==
    ASSUME Inv, NEW h \in Handler, NEW l \in Lot, Notify(h, l)
    PROVE  Inv'
<1>1. /\ l \in DOMAIN run[h].amounts /\ l \notin run[h].done
      /\ run[h].pc = "notify"
      /\ notices' \in [Lot -> Nat] /\ mail' \in [Lot -> Nat] /\ told' \in [Lot -> Nat]
      /\ \A m \in Lot : mail'[m] <= notices'[m] /\ told'[m] <= Points[m]
      /\ \A m \in Lot \ {l} : notices'[m] = notices[m]
      /\ notices'[l] >= notices[l] /\ notices'[l] <= notices[l] + 1 /\ notices'[l] > 0
  BY Published
<1>2. /\ UNCHANGED <<power, age, claimed, left, remaining, unwarned, noticed, faults>>
  BY DEF Notify, scheduling, lotState
<1>3. /\ run[h] \in RunState /\ Sound(run[h]) /\ run[h].done \subseteq Lot
      /\ notices \in [Lot -> Nat] /\ aborted \in [Lot -> Nat] /\ noticed \subseteq Lot
  BY DEF Inv, Typed, HandlersTyped, NoticesTyped, RunState
<1>4. SchedulingTyped' /\ LotsTyped' /\ FaultsTyped'
  BY <1>2 DEF Inv, Typed, SchedulingTyped, LotsTyped, FaultsTyped
<1>5. CASE Conflicts(l)
  <2> DEFINE D == run[h].done \cup {l}
  <2>1. /\ ready' = Redelivered(h)
        /\ run' = [run EXCEPT ![h] = Idle]
        /\ aborted' = [m \in Lot |-> aborted[m] + IF m \in D THEN 1 ELSE 0]
    BY <1>5 DEF Notify
  <2>2. /\ D \in SUBSET Lot
        /\ \A m \in Lot : m \in run[h].done => m \in D /\ notices'[m] = notices[m]
    BY <1>1, <1>3
  <2>3. \A m \in Lot : notices'[m] >= notices[m]
    BY <1>1, <1>3
  <2>4. \A m \in Lot : notices'[m] <= notices[m] + IF m \in D THEN 1 ELSE 0
    BY <1>1, <1>3
  <2> HIDE DEF D
  <2>5. HandlersTyped' /\ Held' /\ Unsettled' /\ NoticesAccountedFor'
    BY <1>1, <1>2, <2>1, <2>2, <2>3, <2>4, RolledBack
  <2>6. aborted' \in [Lot -> Nat]
    BY <1>3, <2>1
  <2>7. NoticesTyped'
    BY <1>1, <1>2, <1>3, <2>6 DEF NoticesTyped
  <2>8. QueueTyped'
    BY <2>1, RedeliveredTyped DEF QueueTyped
  <2> QED  BY <1>4, <2>5, <2>7, <2>8 DEF Inv, Typed
<1>6. CASE ~Conflicts(l)
  <2> DEFINE r == [run[h] EXCEPT !.done = @ \cup {l}]
  <2>1. /\ r \in RunState /\ r.pc = "notify"
        /\ r.amounts = run[h].amounts /\ r.done = run[h].done \cup {l}
    BY <1>1, <1>3 DEF RunState
  <2>2. Sound(r)
    BY <1>1, <1>3, <2>1 DEF Sound
  <2>3. run' = [run EXCEPT ![h] = r] /\ UNCHANGED <<ready, aborted>> /\ l \notin noticed
    BY <1>3, <1>6 DEF Notify, Conflicts, RunState, Inv, Typed, HandlersTyped
  <2> HIDE DEF r
  <2>4. /\ HandlersTyped' /\ run'[h] = r
        /\ \A g \in Handler \ {h} : run'[g] = run[g]
    BY <2>1, <2>2, <2>3, RunMoves DEF Inv, Typed
  <2>5. \A g \in Handler : run'[g].amounts = run[g].amounts
    BY <2>1, <2>4
  <2>6. Held'
    BY <1>2, <2>5 DEF Inv, Held
  <2>7. Unsettled'
    <3> SUFFICES ASSUME NEW g \in Handler, NEW m \in run'[g].done
                 PROVE  m \notin noticed /\ notices'[m] > 0
      BY <1>2 DEF Unsettled
    <3>1. CASE m = l
      BY <1>1, <2>3, <3>1
    <3>2. CASE m # l
      <4>1. m \in run[g].done /\ m \in Lot
        BY <2>1, <2>4, <3>2 DEF Inv, Typed, HandlersTyped, RunState
      <4> QED  BY <1>1, <3>2, <4>1 DEF Inv, Unsettled
    <3> QED  BY <3>1, <3>2
  <2>8. \A m \in Lot : Accounted(m)'
    <3> TAKE m \in Lot
    <3>1. Accounted(m)
      BY AccountOf DEF Inv
    <3>2. /\ notices[m] \in Nat /\ aborted[m] \in Nat /\ notices'[m] \in Nat
          /\ Cardinality(Open(m)) \in Nat
      BY <1>1, <1>3, OpenIsFinite
    <3>3. CASE m = l
      <4>1. Open(m)' = Open(m) \cup {h} /\ h \notin Open(m)
        BY <1>1, <2>1, <2>4, <3>3 DEF Open
      <4>2. Cardinality(Open(m)') = Cardinality(Open(m)) + 1
        BY <4>1, OneOpens
      <4> QED  BY <1>1, <1>2, <2>3, <3>1, <3>2, <3>3, <4>2 DEF Accounted
    <3>4. CASE m # l
      <4>1. Open(m)' = Open(m)
        BY <2>1, <2>4, <3>4 DEF Open
      <4>2. notices'[m] = notices[m]
        BY <1>1, <3>4
      <4> QED  BY <1>2, <2>3, <3>1, <4>1, <4>2 DEF Accounted
    <3> QED  BY <3>3, <3>4
  <2>9. NoticesAccountedFor'
    BY <2>8, AccountOfNext
  <2>10. QueueTyped' /\ NoticesTyped'
    BY <1>1, <1>2, <1>3, <2>3 DEF Inv, Typed, QueueTyped, NoticesTyped
  <2> QED  BY <1>4, <2>4, <2>6, <2>7, <2>9, <2>10 DEF Inv, Typed
<1> QED  BY <1>5, <1>6

(* A sweep that settles: what it did is on record, and not open any more.  *)
LEMMA FinishKeeps ==
    ASSUME Inv, NEW h \in Handler, Finish(h)
    PROVE  Inv'
<1>1. /\ run' = [run EXCEPT ![h] = Idle]
      /\ noticed' = noticed \cup run[h].done
      /\ run[h].done = DOMAIN run[h].amounts
      /\ UNCHANGED <<power, age, claimed, ready, left, remaining, unwarned, notices, mail,
                     told, aborted, faults>>
  BY DEF Finish, scheduling, lotState
<1>2. /\ run[h] \in RunState /\ run[h].done \subseteq Lot
      /\ notices \in [Lot -> Nat] /\ aborted \in [Lot -> Nat] /\ noticed \subseteq Lot
  BY DEF Inv, Typed, HandlersTyped, NoticesTyped, RunState
<1>3. /\ HandlersTyped' /\ run'[h] = Idle
      /\ \A g \in Handler \ {h} : run'[g] = run[g]
  BY <1>1, RunMoves, IdleIsSound DEF Inv, Typed
<1>4. DOMAIN Idle.amounts = {} /\ Idle.done = {}
  BY DEF Idle
<1>5. Held'
  BY <1>1, <1>3, <1>4 DEF Inv, Held
<1>6. \A g \in Handler \ {h} : run[g].done \cap run[h].done = {}
  <2> SUFFICES ASSUME NEW g \in Handler \ {h}, NEW l \in run[g].done, l \in run[h].done
               PROVE  FALSE
    OBVIOUS
  <2>1. l \in DOMAIN run[g].amounts /\ l \in DOMAIN run[h].amounts /\ l \in Lot
    BY <1>1, <1>2 DEF Inv, Typed, HandlersTyped, Sound
  <2> QED  BY <2>1 DEF Inv, Held
<1>7. Unsettled'
  BY <1>1, <1>3, <1>4, <1>6 DEF Inv, Unsettled
<1>8. \A l \in Lot : Accounted(l)'
  <2> TAKE l \in Lot
  <2>1. Accounted(l)
    BY AccountOf DEF Inv
  <2>2. notices[l] \in Nat /\ aborted[l] \in Nat /\ Cardinality(Open(l)) \in Nat
    BY <1>2, OpenIsFinite
  <2>3. CASE l \in run[h].done
    <3>1. Open(l)' = Open(l) \ {h} /\ h \in Open(l)
      BY <1>3, <1>4, <2>3 DEF Open
    <3>2. Cardinality(Open(l)') = Cardinality(Open(l)) - 1
      BY <3>1, OneCloses
    <3>3. l \notin noticed /\ l \in noticed' /\ notices[l] > 0
      BY <1>1, <2>3 DEF Inv, Unsettled
    <3> QED  BY <1>1, <2>1, <2>2, <3>2, <3>3 DEF Accounted
  <2>4. CASE l \notin run[h].done
    <3>1. Open(l)' = Open(l)
      BY <1>3, <1>4, <2>4 DEF Open
    <3>2. l \in noticed' <=> l \in noticed
      BY <1>1, <2>4
    <3> QED  BY <1>1, <2>1, <3>1, <3>2 DEF Accounted
  <2> QED  BY <2>3, <2>4
<1>9. NoticesAccountedFor'
  BY <1>8, AccountOfNext
<1>10. NoticesTyped'
  BY <1>1, <1>2 DEF Inv, Typed, NoticesTyped
<1>11. SchedulingTyped' /\ QueueTyped' /\ LotsTyped' /\ FaultsTyped'
  BY <1>1 DEF Inv, Typed, SchedulingTyped, QueueTyped, LotsTyped, FaultsTyped
<1> QED  BY <1>3, <1>5, <1>7, <1>9, <1>10, <1>11 DEF Inv, Typed

LEMMA SendKeeps ==
    ASSUME Inv, NEW l \in Lot, SendPreExpiryEmail(l)
    PROVE  Inv'
<1>1. UNCHANGED <<power, age, claimed, ready, run, left, remaining, unwarned, noticed,
                  notices, told, aborted, faults>>
  BY DEF SendPreExpiryEmail, scheduling, lotState
<1>2. mail' \in [Lot -> Nat] /\ \A m \in Lot : mail'[m] <= notices[m]
  <2>1. /\ mail \in [Lot -> Nat] /\ mail[l] > 0 /\ mail' = [mail EXCEPT ![l] = @ - 1]
        /\ \A m \in Lot : notices[m] \in Nat /\ mail[m] <= notices[m]
    BY DEF SendPreExpiryEmail, Inv, Typed, NoticesTyped
  <2>2. mail[l] - 1 \in Nat
    BY <2>1
  <2> QED  BY <2>1, <2>2
<1>3. NoticesTyped'
  BY <1>1, <1>2 DEF Inv, Typed, NoticesTyped
<1>4. SchedulingTyped' /\ QueueTyped' /\ HandlersTyped' /\ LotsTyped' /\ FaultsTyped'
  BY <1>1 DEF Inv, Typed, SchedulingTyped, QueueTyped, HandlersTyped, LotsTyped, FaultsTyped
<1>5. Held' /\ Unsettled' /\ NoticesAccountedFor'
  BY <1>1 DEF Inv, Held, Unsettled, NoticesAccountedFor
<1> QED  BY <1>3, <1>4, <1>5 DEF Inv, Typed

LEMMA SpendKeeps ==
    ASSUME Inv, NEW l \in Lot, Spend(l)
    PROVE  Inv'
<1>1. UNCHANGED <<power, age, claimed, ready, run, left, unwarned, noticed,
                  notices, mail, told, aborted, faults>>
  BY DEF Spend, scheduling, noticeState
<1>2. /\ remaining \in [Lot -> Nat] /\ remaining[l] > 0 /\ ~Locked(l)
      /\ remaining' = [remaining EXCEPT ![l] = @ - 1]
      /\ \A m \in Lot : remaining[m] <= Points[m] /\ Points[m] \in Nat
  BY DueWorkConstants DEF Spend, Inv, Typed, LotsTyped
<1>3. remaining[l] - 1 \in Nat
  BY <1>2
<1>4. remaining' \in [Lot -> Nat] /\ \A m \in Lot : remaining'[m] <= Points[m]
  BY <1>2, <1>3
<1>5. LotsTyped'
  BY <1>1, <1>4 DEF Inv, Typed, LotsTyped
<1>6. SchedulingTyped' /\ QueueTyped' /\ HandlersTyped' /\ NoticesTyped' /\ FaultsTyped'
  BY <1>1 DEF Inv, Typed, SchedulingTyped, QueueTyped, HandlersTyped, NoticesTyped, FaultsTyped
<1>7. \A h \in Handler : \A m \in DOMAIN run[h].amounts : remaining'[m] = remaining[m]
  BY <1>2 DEF Locked, Inv, Typed, HandlersTyped, Sound
<1>8. Held'
  BY <1>1, <1>7 DEF Inv, Held
<1>9. Unsettled' /\ NoticesAccountedFor'
  BY <1>1 DEF Inv, Unsettled, NoticesAccountedFor
<1> QED  BY <1>5, <1>6, <1>8, <1>9 DEF Inv, Typed

(* All that was open is rolled back at once.                               *)
LEMMA SleepKeeps ==
    ASSUME Inv, Sleep
    PROVE  Inv'
<1>1. /\ UNCHANGED <<age, left, remaining, unwarned, noticed, notices, mail, told>>
      /\ power' = "asleep" /\ claimed' = [p \in Pass |-> {}]
      /\ run' = [h \in Handler |-> Idle]
      /\ aborted' = [l \in Lot |-> aborted[l] + Cardinality(Open(l))]
      /\ Fault
  BY DEF Sleep, lotState, Open
<1>2. /\ HandlersTyped'
      /\ \A h \in Handler : DOMAIN run'[h].amounts = {} /\ run'[h].done = {}
  BY <1>1, IdleIsSound DEF HandlersTyped, Idle
<1>3. QueueTyped'
  <2> DEFINE back(n) == IF n = 0 THEN 0
                        ELSE Cardinality({h \in Handler : run[h].owned /\ run[h].retries = n - 1})
  <2>1. \A n \in 0..RetryLimit : back(n) \in Nat
    <3> TAKE n \in 0..RetryLimit
    <3>1. IsFiniteSet({h \in Handler : run[h].owned /\ run[h].retries = n - 1})
      BY DueWorkConstants, FS_Subset
    <3> QED  BY <3>1, FS_CardinalityType
  <2>2. ready' = [n \in 0..RetryLimit |-> ready[n] + back(n)]
    BY DEF Sleep
  <2> HIDE DEF back
  <2> QED  BY <2>1, <2>2 DEF Inv, Typed, QueueTyped
<1>4. aborted \in [Lot -> Nat] /\ aborted' \in [Lot -> Nat]
  BY <1>1, OpenIsFinite DEF Inv, Typed, NoticesTyped
<1>5. SchedulingTyped' /\ LotsTyped' /\ NoticesTyped'
  BY <1>1, <1>4 DEF Inv, Typed, SchedulingTyped, LotsTyped, NoticesTyped
<1>6. FaultsTyped'
  BY <1>1, FaultTyped
<1>7. Held' /\ Unsettled'
  BY <1>2 DEF Held, Unsettled
<1>8. \A l \in Lot : Accounted(l)'
  <2> TAKE l \in Lot
  <2>1. Accounted(l) /\ notices[l] \in Nat /\ Cardinality(Open(l)) \in Nat
    BY AccountOf, OpenIsFinite DEF Inv, Typed, NoticesTyped
  <2>2. Open(l)' = {}
    BY <1>2 DEF Open
  <2>3. Cardinality(Open(l)') = 0 /\ aborted'[l] = aborted[l] + Cardinality(Open(l))
    BY <1>1, <2>2, FS_EmptySet
  <2> QED  BY <1>1, <1>4, <2>1, <2>3 DEF Accounted
<1>9. NoticesAccountedFor'
  BY <1>8, AccountOfNext
<1> QED  BY <1>2, <1>3, <1>5, <1>6, <1>7, <1>9 DEF Inv, Typed

LEMMA StepInv == Inv /\ [Next]_vars => Inv'
<1> SUFFICES ASSUME Inv, [Next]_vars
             PROVE  Inv'
  OBVIOUS
<1>1. CASE Scheduling \/ ClaimFails \/ \E p \in Pass : PublishFails(p)
  BY <1>1, PassesKeep
<1>2. ASSUME NEW h \in Handler, Handling(h)
      PROVE  Inv'
  <2>1. CASE \E n \in 0..RetryLimit : Deliver(h, n)
    BY <2>1, DeliverKeeps
  <2>2. CASE \E l \in Lot : Notify(h, l)
    BY <2>2, NotifyKeeps
  <2> QED
    BY <1>2, <2>1, <2>2, ScanKeeps, SelectKeeps, LockSelectedKeeps, FinishKeeps DEF Handling
<1>3. CASE \E h \in Handler : TimeOut(h) \/ HandlerFails(h)
  BY <1>3, TimeOutKeeps, HandlerFailsKeeps
<1>4. CASE \E l \in Lot : SendPreExpiryEmail(l) \/ Spend(l)
  BY <1>4, SendKeeps, SpendKeeps
<1>5. CASE Sleep \/ Tick
  BY <1>5, SleepKeeps, TickKeeps
<1>6. CASE UNCHANGED vars
  <2>1. UNCHANGED <<run, lotState, noticeState, power, age, claimed, ready, faults>>
    BY <1>6 DEF vars, scheduling
  <2>2. SchedulingTyped' /\ QueueTyped' /\ FaultsTyped'
    BY <2>1 DEF Inv, Typed, SchedulingTyped, QueueTyped, FaultsTyped
  <2> QED  BY <2>1, <2>2, OnlyScheduling
<1> QED  BY <1>1, <1>2, <1>3, <1>4, <1>5, <1>6 DEF Next, Service, Trouble

-----------------------------------------------------------------------------
(* The inductive invariant, second part: as long as nothing goes wrong no  *)
(* time passes over an expiry run, from its claim to its end, and the time *)
(* between two is short of the window.                                     *)

Claimed(p) == ExpiryJob \in claimed[p]

Working(h) == run[h].pc # "idle"

(* An expiry run is claimed, waits or is at work.                          *)
Underway == (\E p \in Pass : Claimed(p)) \/ ready[0] > 0 \/ \E h \in Handler : Working(h)

OneRun ==
    /\ \A n \in 1..RetryLimit : ready[n] = 0
    /\ ready[0] <= 1
    /\ \A p, q \in Pass : Claimed(p) /\ Claimed(q) => p = q
    /\ \A g, h \in Handler : Working(g) /\ Working(h) => g = h
    /\ ready[0] > 0 => (\A p \in Pass : ~Claimed(p)) /\ \A h \in Handler : ~Working(h)
    /\ \A p \in Pass : Claimed(p) => \A h \in Handler : ~Working(h)

(* A lot that has points and no notice on record.                          *)
Owed(l) == remaining[l] > 0 /\ l \notin noticed

(* What the run has still in view: every such lot within the window.       *)
InView(h) ==
    /\ run[h].pc = "scan" => \A l \in run[h].matured : left[l] = 0
    /\ run[h].pc \in {"scan", "select"} => \A l \in Lot : Within(l) => l \in run[h].within
    /\ run[h].pc = "lock" =>
          /\ \A l \in Lot : Within(l) /\ Owed(l) => l \in run[h].within
          /\ \A l \in run[h].within : l \notin noticed
    /\ run[h].pc = "notify" =>
          /\ \A l \in Lot : Within(l) /\ Owed(l) => l \in DOMAIN run[h].amounts
          /\ \A l \in DOMAIN run[h].amounts : l \notin noticed

OnSchedule ==
    /\ power = "asleep" <=> age[ExpiryJob] = Absent
    /\ Underway => age[ExpiryJob] = 0
    /\ OneRun
    /\ \A h \in Handler : InView(h)
    /\ \A l \in Lot : Owed(l) => left[l] > 0
    /\ ~Underway /\ age[ExpiryJob] >= 0 =>
          \A l \in Lot : Owed(l) => left[l] > Window - age[ExpiryJob]
    /\ unwarned = {}

Timely == faults = 0 => OnSchedule

LEMMA InitTimely == Init => Timely
<1> SUFFICES ASSUME Init
             PROVE  OnSchedule
  BY DEF Timely
<1>1. /\ \A p \in Pass : ~Claimed(p)
      /\ \A n \in 0..RetryLimit : ready[n] = 0
      /\ \A h \in Handler : run[h].pc = "idle"
  BY DEF Init, Claimed, Idle
<1>2. 0 \in 0..RetryLimit /\ 1..RetryLimit \subseteq 0..RetryLimit
  BY DueWorkConstants
<1>3. ~Underway /\ OneRun
  BY <1>1, <1>2 DEF Underway, OneRun, Working
<1>4. \A h \in Handler : InView(h)
  BY <1>1 DEF InView
<1>5. power = "asleep" /\ age[ExpiryJob] = Absent /\ unwarned = {} /\ Absent = -2
  BY DueWorkConstants DEF Init, Absent
<1>6. \A l \in Lot : left[l] > 0
  BY DueWorkConstants DEF Init
<1> QED  BY <1>3, <1>4, <1>5, <1>6 DEF OnSchedule

(* A step by which no run comes or goes on.                                *)
LEMMA NoRunMoves ==
    ASSUME OnSchedule, power' = "asleep" <=> power = "asleep",
           UNCHANGED <<age, claimed, ready, run, left, unwarned, noticed>>,
           \A l \in Lot : remaining'[l] > 0 => remaining[l] > 0
    PROVE  OnSchedule'
<1>1. \A l \in Lot : Owed(l)' => Owed(l)
  BY DEF Owed
<1>2. /\ Underway' <=> Underway
      /\ OneRun'
  BY DEF OnSchedule, Underway, OneRun, Claimed, Working
<1>3. \A h \in Handler : InView(h)'
  BY <1>1 DEF OnSchedule, InView, Within
<1> QED  BY <1>1, <1>2, <1>3 DEF OnSchedule

(* A step of the run that is at work.                                      *)
LEMMA RunGoesOn ==
    ASSUME OnSchedule, NEW h \in Handler, Working(h), Working(h)', InView(h)',
           \A g \in Handler \ {h} : run'[g] = run[g],
           UNCHANGED <<power, age, claimed, ready, left, noticed>>,
           unwarned' = {}, \A l \in Lot : remaining'[l] > 0 => remaining[l] > 0
    PROVE  OnSchedule'
<1>1. \A l \in Lot : Owed(l)' => Owed(l)
  BY DEF Owed
<1>2. \A g \in Handler : Working(g)' <=> Working(g)
  BY DEF Working
<1>3. Underway /\ Underway' /\ OneRun'
  BY <1>2 DEF OnSchedule, Underway, OneRun, Claimed
<1>4. \A g \in Handler : InView(g)'
  BY <1>1 DEF OnSchedule, InView, Within
<1> QED  BY <1>1, <1>3, <1>4 DEF OnSchedule

LEMMA BootOnSchedule ==
    ASSUME Inv, OnSchedule, Boot
    PROVE  OnSchedule'
<1>1. /\ power = "asleep" /\ power' = "booting" /\ age' = [j \in Job |-> Registered(j)]
      /\ UNCHANGED <<claimed, ready, run, left, remaining, unwarned, noticed>>
  BY DEF Boot, lotState, noticeState
<1>2. age'[ExpiryJob] = Never /\ Never = -1 /\ Absent = -2 /\ age[ExpiryJob] = Absent
  BY <1>1, DueWorkConstants DEF OnSchedule, Registered, Never, Absent
<1>3. ~Underway
  BY <1>2 DEF OnSchedule
<1>4. ~Underway' /\ OneRun'
  BY <1>1, <1>3 DEF OnSchedule, Underway, OneRun, Claimed, Working
<1>5. \A h \in Handler : InView(h)'
  BY <1>1 DEF OnSchedule, InView, Within, Owed
<1> QED  BY <1>1, <1>2, <1>4, <1>5 DEF OnSchedule, Owed

(* A job that is due is not under way, and once claimed it is not due.     *)
LEMMA ClaimOnSchedule ==
    ASSUME Inv, OnSchedule, NEW p \in Pass, Claim(p)
    PROVE  OnSchedule'
<1>1. /\ power # "asleep" /\ claimed[p] = {}
      /\ claimed' = [claimed EXCEPT ![p] = Due]
      /\ age' = [j \in Job |-> IF j \in Due THEN 0 ELSE age[j]]
      /\ UNCHANGED <<power, ready, run, left, remaining, unwarned, noticed>>
      /\ claimed \in [Pass -> SUBSET Job]
  BY DEF Claim, lotState, noticeState, Inv, Typed, SchedulingTyped
<1>2. Never = -1 /\ Absent = -2 /\ Interval \in Nat \ {0} /\ ExpiryJob \in Job
  BY DueWorkConstants DEF Never, Absent
<1>3. \A h \in Handler : InView(h)'
  BY <1>1 DEF OnSchedule, InView, Within, Owed
<1>4. \A l \in Lot : Owed(l)' <=> Owed(l)
  BY <1>1 DEF Owed
<1>5. CASE ExpiryJob \in Due
  <2>1. ~Underway
    BY <1>2, <1>5 DEF OnSchedule, Due
  <2>2. age'[ExpiryJob] = 0 /\ age[ExpiryJob] # Absent
    BY <1>1, <1>2, <1>5 DEF OnSchedule
  <2>3. Claimed(p)' /\ \A q \in Pass \ {p} : ~Claimed(q)'
    BY <1>1, <1>5, <2>1 DEF Underway, Claimed
  <2>4. Underway' /\ OneRun'
    BY <1>1, <2>1, <2>3 DEF OnSchedule, Underway, OneRun, Working
  <2> QED  BY <1>1, <1>2, <1>3, <1>4, <2>2, <2>4 DEF OnSchedule
<1>6. CASE ExpiryJob \notin Due
  <2>1. age'[ExpiryJob] = age[ExpiryJob] /\ \A q \in Pass : Claimed(q)' <=> Claimed(q)
    BY <1>1, <1>2, <1>6 DEF Claimed
  <2>2. (Underway' <=> Underway) /\ OneRun'
    BY <1>1, <2>1 DEF OnSchedule, Underway, OneRun, Working
  <2> QED  BY <1>1, <1>3, <1>4, <2>1, <2>2 DEF OnSchedule
<1> QED  BY <1>5, <1>6

LEMMA PublishOnSchedule ==
    ASSUME Inv, OnSchedule, NEW p \in Pass, NEW j \in Job, Publish(p, j)
    PROVE  OnSchedule'
<1>1. /\ j \in claimed[p]
      /\ claimed' = [claimed EXCEPT ![p] = @ \ {j}]
      /\ ready' = IF j = ExpiryJob THEN [ready EXCEPT ![0] = @ + 1] ELSE ready
      /\ UNCHANGED <<power, age, run, left, remaining, unwarned, noticed>>
      /\ claimed \in [Pass -> SUBSET Job] /\ ready \in [0..RetryLimit -> Nat]
      /\ 0 \in 0..RetryLimit
  BY DueWorkConstants
     DEF Publish, lotState, noticeState, Inv, Typed, SchedulingTyped, QueueTyped
<1>2. \A h \in Handler : InView(h)'
  BY <1>1 DEF OnSchedule, InView, Within, Owed
<1>3. \A l \in Lot : Owed(l)' <=> Owed(l)
  BY <1>1 DEF Owed
<1>4. CASE j = ExpiryJob
  <2>1. Claimed(p) /\ Underway
    BY <1>1, <1>4 DEF Claimed, Underway
  <2>2. \A q \in Pass : ~Claimed(q)'
    BY <1>1, <1>4, <2>1 DEF OnSchedule, OneRun, Claimed
  <2>3. ready[0] = 0 /\ ready'[0] = 1 /\ \A n \in 1..RetryLimit : ready'[n] = 0
    BY <1>1, <1>4, <2>1, DueWorkConstants DEF OnSchedule, OneRun
  <2>4. \A h \in Handler : ~Working(h)'
    BY <1>1, <2>1 DEF OnSchedule, OneRun, Working
  <2>5. Underway' /\ OneRun'
    BY <2>2, <2>3, <2>4 DEF Underway, OneRun
  <2> QED  BY <1>1, <1>2, <1>3, <2>1, <2>5 DEF OnSchedule
<1>5. CASE j # ExpiryJob
  <2>1. ready' = ready /\ \A q \in Pass : Claimed(q)' <=> Claimed(q)
    BY <1>1, <1>5 DEF Claimed
  <2>2. (Underway' <=> Underway) /\ OneRun'
    BY <1>1, <2>1 DEF OnSchedule, Underway, OneRun, Working
  <2> QED  BY <1>1, <1>2, <1>3, <2>2 DEF OnSchedule
<1> QED  BY <1>4, <1>5

LEMMA DeliverOnSchedule ==
    ASSUME Inv, OnSchedule, NEW h \in Handler, NEW n \in 0..RetryLimit, Deliver(h, n)
    PROVE  OnSchedule'
<1> DEFINE r == [Idle EXCEPT !.pc = "scan", !.retries = n, !.owned = TRUE,
                             !.matured = {l \in Lot : left[l] = 0},
                             !.within = {l \in Lot : Within(l)}]
<1>1. /\ ready[n] > 0
      /\ ready' = [ready EXCEPT ![n] = @ - 1]
      /\ run' = [run EXCEPT ![h] = r]
      /\ UNCHANGED <<power, age, claimed, left, remaining, unwarned, noticed>>
      /\ run \in [Handler -> RunState] /\ ready \in [0..RetryLimit -> Nat]
  BY DEF Deliver, scheduling, lotState, noticeState, Inv, Typed, HandlersTyped, QueueTyped
<1>2. /\ r.pc = "scan" /\ r.matured = {l \in Lot : left[l] = 0}
      /\ r.within = {l \in Lot : Within(l)}
  BY DEF Idle
<1> HIDE DEF r
<1>3. run'[h] = r /\ \A g \in Handler \ {h} : run'[g] = run[g]
  BY <1>1
<1>4. n = 0 /\ ready[0] = 1
  BY <1>1, DueWorkConstants DEF OnSchedule, OneRun
<1>5. /\ \A m \in 0..RetryLimit : ready'[m] = 0
      /\ 0 \in 0..RetryLimit /\ 1..RetryLimit \subseteq 0..RetryLimit
  BY <1>1, <1>4, DueWorkConstants DEF OnSchedule, OneRun
<1>6. Underway /\ (\A p \in Pass : ~Claimed(p)') /\ \A g \in Handler : ~Working(g)
  BY <1>1, <1>4 DEF OnSchedule, OneRun, Underway, Claimed
<1>7. Working(h)' /\ \A g \in Handler \ {h} : ~Working(g)'
  BY <1>2, <1>3, <1>6 DEF Working
<1>8. Underway' /\ OneRun'
  BY <1>5, <1>6, <1>7 DEF Underway, OneRun
<1>9. \A g \in Handler : InView(g)'
  BY <1>1, <1>2, <1>3 DEF OnSchedule, InView, Within, Owed
<1>10. \A l \in Lot : Owed(l)' <=> Owed(l)
  BY <1>1 DEF Owed
<1> QED  BY <1>1, <1>6, <1>8, <1>9, <1>10 DEF OnSchedule

(* No lot that matures is owed a notice: the scan takes none unwarned.     *)
LEMMA ScanOnSchedule ==
    ASSUME Inv, OnSchedule, NEW h \in Handler, Scan(h)
    PROVE  OnSchedule'
<1> DEFINE taken == {l \in run[h].matured : remaining[l] > 0}
           r == [run[h] EXCEPT !.pc = "select"]
<1>1. /\ run[h] \in RunState /\ run[h].pc = "scan" /\ taken \subseteq Lot
      /\ run \in [Handler -> RunState] /\ remaining \in [Lot -> Nat]
      /\ remaining' = [l \in Lot |-> IF l \in taken THEN 0 ELSE remaining[l]]
      /\ unwarned' = unwarned \cup (taken \ noticed)
      /\ run' = [run EXCEPT ![h].pc = "select"]
      /\ UNCHANGED <<power, age, claimed, ready, left, noticed>>
  BY DEF Scan, scheduling, noticeState, Inv, Typed, HandlersTyped, LotsTyped, RunState
<1>2. /\ run' = [run EXCEPT ![h] = r]
      /\ r.pc = "select" /\ r.within = run[h].within
  BY <1>1 DEF RunState
<1>3. taken \ noticed = {}
  BY <1>1 DEF OnSchedule, InView, Owed
<1> HIDE DEF taken, r
<1>4. run'[h] = r /\ \A g \in Handler \ {h} : run'[g] = run[g]
  BY <1>1, <1>2
<1>5. unwarned' = {}
  BY <1>1, <1>3 DEF OnSchedule
<1>6. \A l \in Lot : remaining'[l] > 0 => remaining[l] > 0
  BY <1>1
<1>7. InView(h)'
  BY <1>1, <1>2, <1>4 DEF OnSchedule, InView, Within
<1>8. Working(h) /\ Working(h)'
  BY <1>1, <1>2, <1>4 DEF Working
<1> QED  BY <1>1, <1>4, <1>5, <1>6, <1>7, <1>8, RunGoesOn

LEMMA SelectOnSchedule ==
    ASSUME Inv, OnSchedule, NEW h \in Handler, Select(h)
    PROVE  OnSchedule'
<1> DEFINE W == {l \in run[h].within : remaining[l] > 0 /\ l \notin noticed}
           r == [run[h] EXCEPT !.pc = "lock", !.within = W]
<1>1. /\ run[h] \in RunState /\ run[h].pc = "select"
      /\ run \in [Handler -> RunState]
      /\ run' = [run EXCEPT ![h].pc = "lock",
                            ![h].within = {l \in @ : remaining[l] > 0 /\ l \notin noticed}]
      /\ UNCHANGED <<power, age, claimed, ready, left, remaining, unwarned, noticed>>
  BY DEF Select, scheduling, lotState, noticeState, Inv, Typed, HandlersTyped
<1>2. /\ run' = [run EXCEPT ![h] = r]
      /\ r.pc = "lock" /\ r.within = W
  BY <1>1 DEF RunState
<1> HIDE DEF r
<1>3. run'[h] = r /\ \A g \in Handler \ {h} : run'[g] = run[g]
  BY <1>1, <1>2
<1>4. \A l \in Lot : Within(l) /\ Owed(l) => l \in W
  BY <1>1 DEF OnSchedule, InView, Owed
<1>5. \A l \in W : l \notin noticed
  OBVIOUS
<1> HIDE DEF W
<1>6. InView(h)'
  BY <1>1, <1>2, <1>3, <1>4, <1>5 DEF InView, Within, Owed
<1>7. Working(h) /\ Working(h)' /\ unwarned' = {}
  BY <1>1, <1>2, <1>3 DEF Working, OnSchedule
<1> QED  BY <1>1, <1>3, <1>6, <1>7, RunGoesOn

LEMMA LockSelectedOnSchedule ==
    ASSUME Inv, OnSchedule, NEW h \in Handler, LockSelected(h)
    PROVE  OnSchedule'
<1> DEFINE a == [l \in Rows(h) |-> remaining[l]]
           r == [run[h] EXCEPT !.pc = "notify", !.amounts = a]
<1>1. /\ run[h] \in RunState /\ run[h].pc = "lock"
      /\ run \in [Handler -> RunState]
      /\ run' = [run EXCEPT ![h].pc = "notify",
                            ![h].amounts = [l \in Rows(h) |-> remaining[l]]]
      /\ UNCHANGED <<power, age, claimed, ready, left, remaining, unwarned, noticed>>
  BY DEF LockSelected, scheduling, lotState, noticeState, Inv, Typed, HandlersTyped
<1>2. DOMAIN a = {l \in run[h].within : remaining[l] > 0}
  BY DEF Rows
<1> HIDE DEF a
<1>3. /\ run' = [run EXCEPT ![h] = r]
      /\ r.pc = "notify" /\ r.amounts = a
  BY <1>1 DEF RunState, a
<1> HIDE DEF r
<1>4. run'[h] = r /\ \A g \in Handler \ {h} : run'[g] = run[g]
  BY <1>1, <1>3
<1>5. \A l \in Lot : Within(l) /\ Owed(l) => l \in DOMAIN a
  BY <1>1, <1>2 DEF OnSchedule, InView, Owed
<1>6. \A l \in DOMAIN a : l \notin noticed
  BY <1>1, <1>2 DEF OnSchedule, InView
<1>7. InView(h)'
  BY <1>1, <1>3, <1>4, <1>5, <1>6 DEF InView, Within, Owed
<1>8. Working(h) /\ Working(h)' /\ unwarned' = {}
  BY <1>1, <1>3, <1>4 DEF Working, OnSchedule
<1> QED  BY <1>1, <1>4, <1>7, <1>8, RunGoesOn

(* One run at a time, so its rows conflict with none.                      *)
LEMMA NotifyOnSchedule ==
    ASSUME Inv, OnSchedule, NEW h \in Handler, NEW l \in Lot, Notify(h, l)
    PROVE  OnSchedule'
<1> DEFINE r == [run[h] EXCEPT !.done = @ \cup {l}]
<1>1. /\ run[h] \in RunState /\ run[h].pc = "notify" /\ l \in DOMAIN run[h].amounts
      /\ run \in [Handler -> RunState]
      /\ UNCHANGED <<power, age, claimed, left, remaining, unwarned, noticed>>
  BY DEF Notify, scheduling, lotState, Inv, Typed, HandlersTyped
<1>2. ~Conflicts(l)
  BY <1>1 DEF OnSchedule, InView, Conflicts
<1>3. run' = [run EXCEPT ![h].done = @ \cup {l}] /\ UNCHANGED ready
  BY <1>2 DEF Notify
<1>4. /\ run' = [run EXCEPT ![h] = r]
      /\ r.pc = "notify" /\ r.amounts = run[h].amounts
  BY <1>1, <1>3 DEF RunState
<1> HIDE DEF r
<1>5. run'[h] = r /\ \A g \in Handler \ {h} : run'[g] = run[g]
  BY <1>1, <1>4
<1>6. InView(h)'
  BY <1>1, <1>4, <1>5 DEF OnSchedule, InView, Within, Owed
<1>7. Working(h) /\ Working(h)' /\ unwarned' = {}
  BY <1>1, <1>4, <1>5 DEF Working, OnSchedule
<1> QED  BY <1>1, <1>3, <1>5, <1>6, <1>7, RunGoesOn

(* What has no notice now was out of the window, or has nothing left.      *)
LEMMA FinishOnSchedule ==
    ASSUME Inv, OnSchedule, NEW h \in Handler, Finish(h)
    PROVE  OnSchedule'
<1>1. /\ run[h].pc = "notify" /\ run[h].done = DOMAIN run[h].amounts
      /\ noticed' = noticed \cup run[h].done
      /\ run' = [run EXCEPT ![h] = Idle]
      /\ UNCHANGED <<power, age, claimed, ready, left, remaining, unwarned>>
      /\ run \in [Handler -> RunState] /\ left \in [Lot -> Nat]
  BY DEF Finish, scheduling, lotState, Inv, Typed, HandlersTyped, LotsTyped
<1>2. /\ run'[h] = Idle /\ Idle.pc = "idle"
      /\ \A g \in Handler \ {h} : run'[g] = run[g]
  BY <1>1 DEF Idle
<1>3. Working(h) /\ Underway
  BY <1>1 DEF Working, Underway
<1>4. \A g \in Handler : ~Working(g)'
  BY <1>2, <1>3 DEF OnSchedule, OneRun, Working
<1>5. /\ ready[0] = 0 /\ (\A n \in 1..RetryLimit : ready[n] = 0)
      /\ \A p \in Pass : ~Claimed(p)
  BY <1>3, DueWorkConstants DEF OnSchedule, OneRun, Inv, Typed, QueueTyped
<1>6. ~Underway' /\ OneRun'
  BY <1>1, <1>4, <1>5 DEF Underway, OneRun, Claimed
<1>7. \A g \in Handler : InView(g)'
  BY <1>4 DEF InView, Working
<1>8. age[ExpiryJob] = 0
  BY <1>3 DEF OnSchedule
<1>9. ASSUME NEW l \in Lot, Owed(l)'
      PROVE  left[l] > 0 /\ left[l] > Window
  <2>1. Owed(l) /\ l \notin DOMAIN run[h].amounts
    BY <1>1, <1>9 DEF Owed
  <2>2. ~Within(l) /\ left[l] > 0
    BY <1>1, <2>1 DEF OnSchedule, InView
  <2> QED  BY <1>1, <2>2, DueWorkConstants DEF Within
<1> QED  BY <1>1, <1>6, <1>7, <1>8, <1>9, DueWorkConstants DEF OnSchedule

(* Time passes between two runs only, and the next is due in time.         *)
LEMMA TickOnSchedule ==
    ASSUME Inv, OnSchedule, Tick, UNCHANGED faults
    PROVE  OnSchedule'
<1>1. /\ age[ExpiryJob] # Absent
      /\ age' = [j \in Job |-> IF age[j] = Never THEN Never
                               ELSE IF age[j] < Interval THEN age[j] + 1 ELSE Interval]
      /\ left' = [l \in Lot |-> IF left[l] > 0 THEN left[l] - 1 ELSE 0]
      /\ UNCHANGED <<power, claimed, ready, run, remaining, unwarned, noticed>>
      /\ left \in [Lot -> Nat] /\ age[ExpiryJob] \in {Absent, Never} \cup 0..Interval
      /\ power \in {"asleep", "booting", "awake"}
  BY DueWorkConstants DEF Tick, noticeState, Inv, Typed, LotsTyped, SchedulingTyped
<1>2. power = "awake" /\ ~Busy
  <2>1. ~Fault
    BY DEF Fault, Inv, Typed, FaultsTyped
  <2>2. power # "asleep"
    BY <1>1 DEF OnSchedule
  <2> QED  BY <1>1, <2>1, <2>2 DEF Tick
<1>3. /\ Never = -1 /\ Absent = -2 /\ Interval \in Nat \ {0} /\ ExpiryJob \in Job
      /\ Window \in Nat /\ Window > Interval /\ 0 \in 0..RetryLimit
  BY DueWorkConstants DEF Never, Absent
<1>4. ExpiryJob \notin Due
  BY <1>2 DEF Busy
<1>5. age[ExpiryJob] \in 0..(Interval - 1)
  BY <1>1, <1>3, <1>4 DEF Due
<1>6. age'[ExpiryJob] = age[ExpiryJob] + 1
  BY <1>1, <1>3, <1>5
<1>7. ~Underway
  <2>1. \A p \in Pass : ~Claimed(p)
    BY <1>2 DEF Busy, Claimed
  <2>2. ~(ready[0] > 0) /\ \A h \in Handler : ~Working(h)
    BY <1>2, <1>3 DEF Busy, Working
  <2> QED  BY <2>1, <2>2 DEF Underway
<1>8. ~Underway' /\ OneRun'
  BY <1>1, <1>7 DEF OnSchedule, Underway, OneRun, Claimed, Working
<1>9. \A h \in Handler : InView(h)'
  BY <1>1, <1>7 DEF InView, Underway, Working
<1>10. ASSUME NEW l \in Lot, Owed(l)'
       PROVE  left'[l] > 0 /\ left'[l] > Window - (age[ExpiryJob] + 1)
  <2>1. left[l] > Window - age[ExpiryJob]
    BY <1>1, <1>5, <1>7, <1>10 DEF OnSchedule, Owed
  <2>2. left[l] \in Nat /\ left'[l] = IF left[l] > 0 THEN left[l] - 1 ELSE 0
    BY <1>1
  <2> QED  BY <1>3, <1>5, <2>1, <2>2
<1> QED  BY <1>1, <1>2, <1>3, <1>5, <1>6, <1>8, <1>9, <1>10 DEF OnSchedule

LEMMA StepTimely == Inv /\ Timely /\ [Next]_vars => Timely'
<1> SUFFICES ASSUME Inv, Timely, [Next]_vars, faults' = 0
             PROVE  OnSchedule'
  BY DEF Timely
<1>1. faults \in Nat
  BY DueWorkConstants DEF Inv, Typed, FaultsTyped
<1>2. ~Fault
  BY <1>1 DEF Fault
<1>3. ~Trouble
  BY <1>2 DEF Trouble, ClaimFails, Sleep, PublishFails, TimeOut, HandlerFails
<1>4. ASSUME OnSchedule, Scheduling
      PROVE  OnSchedule'
  <2>1. CASE Listen
    <3>1. /\ (power' = "asleep" <=> power = "asleep")
          /\ UNCHANGED <<age, claimed, ready, run, left, remaining, unwarned, noticed>>
      BY <2>1 DEF Listen, lotState, noticeState
    <3> QED  BY <1>4, <3>1, NoRunMoves
  <2> QED
    BY <1>4, <2>1, BootOnSchedule, ClaimOnSchedule, PublishOnSchedule DEF Scheduling
<1>5. ASSUME OnSchedule, NEW h \in Handler, Handling(h)
      PROVE  OnSchedule'
  <2>1. CASE \E n \in 0..RetryLimit : Deliver(h, n)
    BY <1>5, <2>1, DeliverOnSchedule
  <2>2. CASE \E l \in Lot : Notify(h, l)
    BY <1>5, <2>2, NotifyOnSchedule
  <2> QED
    BY <1>5, <2>1, <2>2, ScanOnSchedule, SelectOnSchedule, LockSelectedOnSchedule,
       FinishOnSchedule DEF Handling
<1>6. ASSUME OnSchedule, NEW l \in Lot, SendPreExpiryEmail(l)
      PROVE  OnSchedule'
  <2>1. /\ (power' = "asleep" <=> power = "asleep")
        /\ UNCHANGED <<age, claimed, ready, run, left, remaining, unwarned, noticed>>
    BY <1>6 DEF SendPreExpiryEmail, scheduling, lotState
  <2> QED  BY <1>6, <2>1, NoRunMoves
<1>7. ASSUME OnSchedule, NEW l \in Lot, Spend(l)
      PROVE  OnSchedule'
  <2>1. /\ (power' = "asleep" <=> power = "asleep")
        /\ UNCHANGED <<age, claimed, ready, run, left, unwarned, noticed>>
    BY <1>7 DEF Spend, scheduling, noticeState
  <2>2. \A m \in Lot : remaining'[m] > 0 => remaining[m] > 0
    <3>1. remaining \in [Lot -> Nat] /\ remaining' = [remaining EXCEPT ![l] = @ - 1]
      BY <1>7 DEF Spend, Inv, Typed, LotsTyped
    <3> QED  BY <1>7, <3>1 DEF Spend
  <2> QED  BY <1>7, <2>1, <2>2, NoRunMoves
<1>8. CASE Tick
  <2>1. UNCHANGED faults
    BY <1>2, <1>8 DEF Tick
  <2> QED  BY <1>8, <2>1, TickOnSchedule DEF Timely
<1>9. CASE UNCHANGED vars
  <2>1. /\ (power' = "asleep" <=> power = "asleep")
        /\ UNCHANGED <<age, claimed, ready, run, left, remaining, unwarned, noticed, faults>>
    BY <1>9 DEF vars, scheduling, lotState, noticeState
  <2> QED  BY <2>1, NoRunMoves DEF Timely
<1>10. CASE Service \/ \E l \in Lot : Spend(l)
  <2>1. UNCHANGED faults
    BY <1>10 DEF Service, Scheduling, Handling, Boot, Listen, Claim, Publish, Deliver, Scan,
                 Select, LockSelected, Notify, Finish, SendPreExpiryEmail, Spend
  <2>2. OnSchedule
    BY <2>1 DEF Timely
  <2> QED  BY <1>4, <1>5, <1>6, <1>7, <1>10, <2>2 DEF Service
<1> QED  BY <1>3, <1>8, <1>9, <1>10 DEF Next

-----------------------------------------------------------------------------
(* The theorems.                                                           *)

(* Every state of the jobs and notices satisfies the first invariant.      *)
THEOREM Invariance == Spec => []Inv
BY InitInv, StepInv, PTL DEF Spec

(* Every state keeps to the schedule as long as nothing has gone wrong.    *)
THEOREM Timeliness == Spec => []Timely
BY InitTimely, StepTimely, Invariance, PTL DEF Spec

(* The tables, the queue and what the handlers know keep their types, a    *)
(* sweep's amounts and the mail still to be sent among them.               *)
THEOREM TypeCorrect == Spec => []TypeOK
<1>1. Inv => TypeOK
  <2> SUFFICES ASSUME Inv
               PROVE  TypeOK
    OBVIOUS
  <2>1. \A h \in Handler :
          /\ DOMAIN run[h] = DOMAIN Idle
          /\ run[h].pc \in {"idle", "scan", "select", "lock", "notify"}
          /\ run[h].retries \in 0..RetryLimit
          /\ run[h].matured \subseteq Lot /\ run[h].within \subseteq Lot
          /\ run[h].done \subseteq DOMAIN run[h].amounts
          /\ \A l \in DOMAIN run[h].amounts : run[h].amounts[l] \in 1..Points[l]
    <3> TAKE h \in Handler
    <3>1. run[h] \in RunState /\ Sound(run[h])
      BY DEF Inv, Typed, HandlersTyped
    <3>2. DOMAIN run[h] = DOMAIN Idle
      BY <3>1 DEF RunState, Idle
    <3> QED  BY <3>1, <3>2 DEF RunState, Sound
  <2>2. \A l \in Lot :
          /\ left[l] \in 0..Life[l]
          /\ remaining[l] \in 0..Points[l]
          /\ told[l] \in 0..Points[l]
          /\ {notices[l], mail[l], aborted[l]} \subseteq Nat
          /\ mail[l] <= notices[l]
    BY DueWorkConstants DEF Inv, Typed, LotsTyped, NoticesTyped
  <2>3. /\ DOMAIN ready = 0..RetryLimit /\ \A n \in 0..RetryLimit : ready[n] \in Nat
        /\ noticed \subseteq Lot /\ unwarned \subseteq Lot
        /\ faults \in 0..MaxFaults
    BY DEF Inv, Typed, QueueTyped, NoticesTyped, LotsTyped, FaultsTyped
  <2> QED  BY <2>1, <2>2, <2>3, Zenon DEF TypeOK, Inv, Typed, SchedulingTyped
<1> QED  BY <1>1, Invariance, PTL

(* Req 5.4: each notice of a lot beyond the one on record is put down to a *)
(* sweep that rolled back or is still open, whatever is timed out, killed, *)
(* or delivered twice.                                                     *)
THEOREM NotifiesAccountably == Spec => []NoticesAccountedFor
<1>1. Inv => NoticesAccountedFor
  BY DEF Inv
<1> QED  BY <1>1, Invariance, PTL

(* No points expire unwarned as long as nothing goes wrong, whatever the   *)
(* window and the interval, if only the window is the longer.              *)
THEOREM WarnsInTime == Spec => []WarnedUnlessTrouble
<1>1. Timely => WarnedUnlessTrouble
  BY DEF Timely, OnSchedule, WarnedUnlessTrouble
<1> QED  BY <1>1, Timeliness, PTL

(* A notice says what the lot has at that very moment: the sweep keeps the *)
(* lots it has read locked against redemptions and scans.                  *)
THEOREM NoticesTellTheTruth == Spec => NoticeSaysWhatRemains
<1>1. Inv /\ [Next]_vars =>
        [\A l \in Lot : notices'[l] > notices[l] =>
             told'[l] = remaining[l] /\ remaining[l] > 0]_vars
  <2> SUFFICES ASSUME Inv, Next, NEW l \in Lot, notices'[l] > notices[l]
               PROVE  told'[l] = remaining[l] /\ remaining[l] > 0
    BY DEF vars
  <2>1. notices \in [Lot -> Nat] /\ told \in [Lot -> Nat]
    BY DEF Inv, Typed, NoticesTyped
  <2>2. notices' # notices
    BY <2>1
  <2>3. PICK h \in Handler, m \in Lot : Notify(h, m)
    BY <2>2 DEF Next, Service, Trouble, Scheduling, Handling, Boot, Listen, Claim, ClaimFails,
                Publish, PublishFails, Deliver, TimeOut, HandlerFails, Abort, Scan, Select,
                LockSelected, Finish, SendPreExpiryEmail, Spend, Sleep, Tick, noticeState
  <2>4. /\ m \in DOMAIN run[h].amounts
        /\ notices' = [notices EXCEPT ![m] = @ + 1]
        /\ told' = [told EXCEPT ![m] = run[h].amounts[m]]
    BY <2>2, <2>3 DEF Notify
  <2>5. m = l
    BY <2>1, <2>4
  <2>6. run[h].amounts[l] = remaining[l] /\ run[h].amounts[l] \in 1..Points[l]
    BY <2>4, <2>5 DEF Inv, Held, Typed, HandlersTyped, Sound
  <2> QED  BY <2>1, <2>4, <2>5, <2>6, DueWorkConstants
<1> QED  BY <1>1, Invariance, PTL DEF Spec, NoticeSaysWhatRemains
=============================================================================
