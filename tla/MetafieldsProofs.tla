--------------------------- MODULE MetafieldsProofs ---------------------------
(***************************************************************************)
(* Proofs about the display cache, for any changes of balance, any number  *)
(* of workers and reconciliations, any number of attempts and of faults.   *)
(***************************************************************************)
EXTENDS Metafields, TLAPS

-----------------------------------------------------------------------------
(* The inductive invariant.                                                *)

WriterState ==
    [pc : {"idle", "row", "sums", "write"}, snapshot : [Field -> SUBSET Change],
     unread : SUBSET {"balance", "lots"}, attempt : 0..MaxAttempts]

Shapes ==
    /\ writer \in [Writer -> WriterState]
    /\ \A w \in Writer : writer[w].pc = "write" => writer[w].unread = {}

(* Writers that have not overlapped are at work one at a time.             *)
Alone == ~overlapped => \A v, w \in AtWork : v = w

(* The changes whose refresh has been asked for.                           *)
Asked == {c \in committed : Enqueues(c) /\ c \notin owing}

(* A writer has read a change in a field, or has yet to read the field.    *)
WillShow(w, f, c) ==
    writer[w].pc = "row" \/ f \in writer[w].unread \/ c \in writer[w].snapshot[f]

(* While nothing goes wrong each of them has a refresh waiting, or is on   *)
(* its way to the metafields, or has got there.                            *)
InHand ==
    faults = 0 /\ ~overlapped /\ pending = 0 =>
        \A f \in Field : \A c \in Asked :
            /\ \A w \in AtWork : WillShow(w, f, c)
            /\ AtWork = {} => c \in shown[f]

Inv == TypeOK /\ Shapes /\ Alone /\ InHand

-----------------------------------------------------------------------------
(* What the steps have in common.                                          *)

(* The type invariant says of a writer what its shape says, and that it    *)
(* has read nothing that is not committed.                                 *)
Honest == \A w \in Writer : writer[w].snapshot \in [Field -> SUBSET committed]

LEMMA TypesFromShapes ==
    ASSUME MetafieldConstants, owing' \subseteq committed', committed' \subseteq Change,
           pending' \in Nat, shown' \in [Field -> SUBSET committed'],
           overlapped' \in BOOLEAN, faults' \in 0..MaxFaults, Shapes', Honest'
    PROVE  TypeOK'
<1> SUFFICES ASSUME NEW w \in Writer
             PROVE  /\ DOMAIN writer'[w] = DOMAIN Idle
                    /\ writer'[w].pc \in {"idle", "row", "sums", "write"}
                    /\ writer'[w].snapshot \in [Field -> SUBSET committed']
                    /\ writer'[w].unread \subseteq Field \ {"row"}
                    /\ writer'[w].attempt \in 0..MaxAttempts
  BY Zenon DEF TypeOK
<1>1. writer'[w] \in WriterState
  BY DEF Shapes
<1>2. DOMAIN writer'[w] = DOMAIN Idle
  BY <1>1 DEF WriterState, Idle
<1>3. /\ writer'[w].pc \in {"idle", "row", "sums", "write"}
      /\ writer'[w].unread \subseteq Field \ {"row"}
      /\ writer'[w].attempt \in 0..MaxAttempts
  BY <1>1 DEF WriterState, Field
<1> QED  BY <1>2, <1>3 DEF Honest

LEMMA IdleIsAState == Idle \in WriterState
<1>1. Blank \in [Field -> SUBSET Change]
  BY DEF Blank
<1> QED  BY <1>1, MetafieldConstants DEF WriterState, Idle

(* A writer whose state changes alone.                                     *)
LEMMA WriterMoves ==
    ASSUME Inv, UNCHANGED committed, NEW w \in Writer, NEW s \in WriterState,
           writer' = [writer EXCEPT ![w] = s],
           s.snapshot \in [Field -> SUBSET committed],
           s.pc = "write" => s.unread = {}
    PROVE  /\ Shapes' /\ Honest'
           /\ writer'[w] = s
           /\ \A v \in Writer \ {w} : writer'[v] = writer[v]
<1>1. writer \in [Writer -> WriterState]
  BY DEF Inv, Shapes
<1>2. /\ writer' \in [Writer -> WriterState]
      /\ writer'[w] = s
      /\ \A v \in Writer \ {w} : writer'[v] = writer[v]
  BY <1>1
<1>3. \A v \in Writer : writer'[v].pc = "write" => writer'[v].unread = {}
  BY <1>2 DEF Inv, Shapes
<1>4. Honest'
  <2> SUFFICES ASSUME NEW v \in Writer
               PROVE  writer'[v].snapshot \in [Field -> SUBSET committed]
    BY DEF Honest
  <2>1. CASE v = w
    BY <2>1, <1>2
  <2>2. CASE v # w
    BY <2>2, <1>2 DEF Inv, TypeOK
  <2> QED  BY <2>1, <2>2
<1> QED  BY <1>2, <1>3, <1>4 DEF Shapes

(* A writer that stays at work, or stops: nobody overlaps who did not.     *)
LEMMA NobodyBegins ==
    ASSUME Inv, overlapped' = overlapped, NEW w \in Writer, writer[w].pc # "idle",
           \A v \in Writer \ {w} : writer'[v] = writer[v]
    PROVE  Alone'
<1>1. AtWork' \subseteq AtWork
  BY DEF AtWork
<1> QED  BY <1>1 DEF Inv, Alone

(* What a fault leaves to be shown is nobody's claim.                      *)
LEMMA FaultExcuses ==
    ASSUME Inv, Fault
    PROVE  InHand' /\ faults' \in 0..MaxFaults
BY MetafieldConstants DEF Inv, TypeOK, InHand, Fault

(* A writer at work by itself, its refresh taking account of all that was  *)
(* asked for.                                                              *)
LEMMA OneAtWork ==
    ASSUME Inv, Alone', NEW w \in Writer, writer'[w].pc # "idle",
           (faults = 0 /\ ~overlapped /\ pending = 0 =>
               \A f \in Field : \A c \in Asked : WillShow(w, f, c))'
    PROVE  InHand'
<1>1. w \in AtWork'
  BY DEF AtWork
<1> QED  BY <1>1 DEF Alone, InHand

-----------------------------------------------------------------------------
(* The ledger and the queue.                                               *)

LEMMA InitInv == Init => Inv
<1> SUFFICES ASSUME Init
             PROVE  Inv
  OBVIOUS
<1>1. \A w \in Writer : writer[w] = Idle
  BY DEF Init
<1>2. Shapes
  BY <1>1, IdleIsAState DEF Init, Shapes, Idle
<1>3. Blank \in [Field -> SUBSET committed]
  BY DEF Blank
<1>4. Honest
  BY <1>1, <1>3 DEF Honest, Idle
<1>5. TypeOK
  <2>1. \A w \in Writer :
          /\ DOMAIN writer[w] = DOMAIN Idle
          /\ writer[w].pc \in {"idle", "row", "sums", "write"}
          /\ writer[w].snapshot \in [Field -> SUBSET committed]
          /\ writer[w].unread \subseteq Field \ {"row"}
          /\ writer[w].attempt \in 0..MaxAttempts
    BY <1>1, <1>3, MetafieldConstants DEF Idle
  <2>2. /\ owing \subseteq committed /\ committed \subseteq Change
        /\ pending \in Nat /\ faults \in 0..MaxFaults
    BY MetafieldConstants DEF Init
  <2>3. overlapped \in BOOLEAN /\ shown = Blank
    BY DEF Init
  <2> QED  BY <1>3, <2>1, <2>2, <2>3, Zenon DEF TypeOK
<1>6. AtWork = {}
  BY <1>1 DEF AtWork, Idle
<1>7. Alone /\ InHand
  BY <1>6 DEF Init, Alone, InHand, Asked
<1> QED  BY <1>2, <1>5, <1>7 DEF Inv

(* More is committed, and the writers have read no more of it.             *)
LEMMA CommitKeeps ==
    ASSUME Inv, NEW c \in Change, Commit(c)
    PROVE  Inv'
<1>1. /\ committed \subseteq committed' /\ committed' \subseteq Change
      /\ owing' \subseteq committed'
      /\ UNCHANGED <<pending, writer, shown, overlapped, faults>>
  BY DEF Inv, TypeOK, Commit
<1>2. Shapes' /\ Alone'
  BY <1>1 DEF Inv, Shapes, Alone, AtWork
<1>3. Honest'
  BY <1>1 DEF Inv, TypeOK, Honest
<1>4. shown' \in [Field -> SUBSET committed']
  BY <1>1 DEF Inv, TypeOK
<1>5. \A w \in Writer :
        /\ DOMAIN writer'[w] = DOMAIN Idle
        /\ writer'[w].pc \in {"idle", "row", "sums", "write"}
        /\ writer'[w].unread \subseteq Field \ {"row"}
        /\ writer'[w].attempt \in 0..MaxAttempts
  BY <1>1 DEF Inv, TypeOK
<1>6. TypeOK'
  BY <1>1, <1>3, <1>4, <1>5 DEF Inv, TypeOK, Honest
<1>7. Asked' \subseteq Asked
  BY DEF Commit, Asked
<1>8. InHand'
  BY <1>1, <1>7 DEF Inv, InHand, AtWork, WillShow
<1> QED  BY <1>2, <1>6, <1>8 DEF Inv

(* What is enqueued waits, behind a refresh of its own or another's.       *)
LEMMA EnqueueKeeps ==
    ASSUME Inv, NEW c \in Change, Enqueue(c)
    PROVE  Inv'
<1>1. /\ UNCHANGED <<committed, writer, shown, overlapped, faults>>
      /\ owing' \subseteq committed
      /\ pending' \in Nat /\ pending' # 0
  BY DEF Inv, TypeOK, Enqueue, Collapses
<1>2. Shapes' /\ Alone'
  BY <1>1 DEF Inv, Shapes, Alone, AtWork
<1>3. TypeOK'
  BY <1>1 DEF Inv, TypeOK
<1>4. InHand'
  BY <1>1 DEF InHand
<1> QED  BY <1>2, <1>3, <1>4 DEF Inv

LEMMA EnqueueFailsKeeps ==
    ASSUME Inv, NEW c \in Change, EnqueueFails(c)
    PROVE  Inv'
<1>1. /\ UNCHANGED <<committed, pending, writer, shown, overlapped>>
      /\ owing' \subseteq committed
      /\ Fault
  BY DEF Inv, TypeOK, EnqueueFails
<1>2. InHand' /\ faults' \in 0..MaxFaults
  BY <1>1, FaultExcuses
<1>3. Shapes' /\ Alone'
  BY <1>1 DEF Inv, Shapes, Alone, AtWork
<1>4. TypeOK'
  BY <1>1, <1>2 DEF Inv, TypeOK
<1> QED  BY <1>2, <1>3, <1>4 DEF Inv

-----------------------------------------------------------------------------
(* The writers.                                                            *)

(* A refresh that begins takes account of everything: it has read nothing. *)
LEMMA BeginKeeps ==
    ASSUME Inv, NEW w \in Writer, Begin(w),
           UNCHANGED <<ledger, shown, faults>>, pending' \in Nat
    PROVE  Inv'
<1> DEFINE s == [Idle EXCEPT !.pc = "row"]
<1>1. /\ s \in WriterState
      /\ s.pc = "row" /\ s.snapshot = Blank
      /\ writer' = [writer EXCEPT ![w] = s]
  BY IdleIsAState DEF WriterState, Begin, Idle
<1> HIDE DEF s
<1>2. Blank \in [Field -> SUBSET committed]
  BY DEF Blank
<1>3. UNCHANGED <<committed, owing, shown, faults>>
  BY DEF ledger
<1>4. /\ Shapes' /\ Honest'
      /\ writer'[w] = s
      /\ \A v \in Writer \ {w} : writer'[v] = writer[v]
  BY <1>1, <1>2, <1>3, WriterMoves
<1>5. overlapped' \in BOOLEAN /\ (~overlapped' => AtWork = {})
  BY DEF Begin, Inv, TypeOK
<1>6. TypeOK'
  BY <1>3, <1>4, <1>5, TypesFromShapes, MetafieldConstants, Zenon DEF Inv, TypeOK
<1>7. Alone'
  BY <1>4, <1>5 DEF Alone, AtWork
<1>8. \A f \in Field : \A c \in Asked' : WillShow(w, f, c)'
  BY <1>1, <1>4 DEF WillShow
<1>9. InHand'
  BY <1>1, <1>4, <1>7, <1>8, OneAtWork
<1> QED  BY <1>4, <1>6, <1>7, <1>9 DEF Inv

LEMMA ReadRowKeeps ==
    ASSUME Inv, NEW w \in Writer, ReadRow(w)
    PROVE  Inv'
<1> DEFINE s == [writer[w] EXCEPT !.pc = "sums",
                                  !.snapshot = [@ EXCEPT !["row"] = committed],
                                  !.unread = {"balance", "lots"}]
<1>1. writer[w] \in WriterState /\ writer[w].snapshot \in [Field -> SUBSET committed]
  BY DEF Inv, TypeOK, Shapes
<1>2. committed \subseteq Change
  BY DEF Inv, TypeOK
<1>3. /\ s \in WriterState
      /\ s.pc = "sums" /\ s.unread = {"balance", "lots"}
      /\ s.snapshot \in [Field -> SUBSET committed]
      /\ s.snapshot["row"] = committed
  BY <1>1, <1>2 DEF WriterState, Field
<1>4. writer' = [writer EXCEPT ![w] = s]
  BY <1>1 DEF ReadRow, WriterState, Inv, Shapes
<1> HIDE DEF s
<1>5. writer[w].pc # "idle" /\ UNCHANGED <<committed, owing, pending, shown, overlapped, faults>>
  BY DEF ReadRow, ledger
<1>6. /\ Shapes' /\ Honest'
      /\ writer'[w] = s
      /\ \A v \in Writer \ {w} : writer'[v] = writer[v]
  BY <1>3, <1>4, <1>5, WriterMoves
<1>7. TypeOK'
  BY <1>5, <1>6, TypesFromShapes, MetafieldConstants, Zenon DEF Inv, TypeOK
<1>8. Alone'
  BY <1>5, <1>6, NobodyBegins
<1>9. \A f \in Field : \A c \in Asked' : WillShow(w, f, c)'
  BY <1>3, <1>5, <1>6 DEF WillShow, Field, Asked
<1>10. InHand'
  BY <1>3, <1>6, <1>8, <1>9, OneAtWork
<1> QED  BY <1>6, <1>7, <1>8, <1>10 DEF Inv

(* What it had read it has still, and the field it reads now has all.      *)
LEMMA ReadSumKeeps ==
    ASSUME Inv, NEW w \in Writer, NEW f \in Field, ReadSum(w, f)
    PROVE  Inv'
<1> DEFINE last == writer[w].unread = {f}
<1> DEFINE s == [writer[w] EXCEPT !.snapshot = [@ EXCEPT ![f] = committed],
                                  !.unread = @ \ {f},
                                  !.pc = IF last THEN "write" ELSE "sums",
                                  !.attempt = 1]
<1>1. writer[w] \in WriterState /\ writer[w].snapshot \in [Field -> SUBSET committed]
  BY DEF Inv, TypeOK, Shapes
<1>2. committed \subseteq Change /\ 1 \in 0..MaxAttempts
  BY MetafieldConstants DEF Inv, TypeOK
<1>3. /\ s \in WriterState
      /\ s.pc # "idle" /\ s.unread = writer[w].unread \ {f}
      /\ s.pc = "write" => s.unread = {}
      /\ s.snapshot \in [Field -> SUBSET committed]
      /\ s.snapshot = [writer[w].snapshot EXCEPT ![f] = committed]
  BY <1>1, <1>2 DEF WriterState
<1>4. writer' = [writer EXCEPT ![w] = s]
  BY <1>1 DEF ReadSum, WriterState, Inv, Shapes
<1> HIDE DEF s, last
<1>5. /\ writer[w].pc = "sums"
      /\ UNCHANGED <<committed, owing, pending, shown, overlapped, faults>>
  BY DEF ReadSum, ledger
<1>6. /\ Shapes' /\ Honest'
      /\ writer'[w] = s
      /\ \A v \in Writer \ {w} : writer'[v] = writer[v]
  BY <1>3, <1>4, <1>5, WriterMoves
<1>7. TypeOK'
  BY <1>5, <1>6, TypesFromShapes, MetafieldConstants, Zenon DEF Inv, TypeOK
<1>8. Alone'
  BY <1>5, <1>6, NobodyBegins
<1>9. ASSUME (faults = 0 /\ ~overlapped /\ pending = 0)',
             NEW g \in Field, NEW c \in Asked'
      PROVE  WillShow(w, g, c)'
  <2>1. w \in AtWork /\ c \in Asked /\ c \in committed
    BY <1>5 DEF AtWork, Asked
  <2>2. WillShow(w, g, c)
    BY <1>5, <1>9, <2>1 DEF Inv, InHand
  <2> QED  BY <1>1, <1>3, <1>5, <1>6, <2>1, <2>2 DEF WillShow
<1>10. InHand'
  BY <1>3, <1>6, <1>8, <1>9, OneAtWork
<1> QED  BY <1>6, <1>7, <1>8, <1>10 DEF Inv

(* A writer that has read everything shows it.                             *)
LEMMA WriteKeeps ==
    ASSUME Inv, NEW w \in Writer, Write(w)
    PROVE  Inv'
<1>1. /\ writer[w].pc = "write" /\ writer[w].unread = {}
      /\ writer[w].snapshot \in [Field -> SUBSET committed]
      /\ shown' = writer[w].snapshot
      /\ writer' = [writer EXCEPT ![w] = Idle]
      /\ UNCHANGED <<committed, owing, pending, overlapped, faults>>
  BY DEF Inv, TypeOK, Shapes, Write, ledger
<1>2. Blank \in [Field -> SUBSET committed] /\ Idle.snapshot = Blank /\ Idle.pc = "idle"
  BY DEF Blank, Idle
<1>3. /\ Shapes' /\ Honest'
      /\ writer'[w] = Idle
      /\ \A v \in Writer \ {w} : writer'[v] = writer[v]
  BY <1>1, <1>2, IdleIsAState, WriterMoves
<1>4. TypeOK'
  BY <1>1, <1>3, TypesFromShapes, MetafieldConstants, Zenon DEF Inv, TypeOK
<1>5. Alone'
  BY <1>1, <1>3, NobodyBegins
<1>6. InHand'
  <2> SUFFICES ASSUME (faults = 0 /\ ~overlapped /\ pending = 0)',
                      NEW f \in Field, NEW c \in Asked'
               PROVE  /\ \A v \in AtWork' : WillShow(v, f, c)'
                      /\ c \in shown'[f]
    BY DEF InHand
  <2>1. w \in AtWork /\ c \in Asked
    BY <1>1 DEF AtWork, Asked
  <2>2. WillShow(w, f, c)
    BY <1>1, <2>1 DEF Inv, InHand
  <2>3. AtWork' = {}
    BY <1>1, <1>2, <1>3, <2>1 DEF Inv, Alone, AtWork
  <2> QED  BY <1>1, <2>2, <2>3 DEF WillShow
<1> QED  BY <1>3, <1>4, <1>5, <1>6 DEF Inv

(* The next attempt writes the same snapshot; the last one that fails is a *)
(* fault.                                                                  *)
LEMMA AttemptFailsKeeps ==
    ASSUME Inv, NEW w \in Writer, AttemptFails(w)
    PROVE  Inv'
<1>1. /\ writer[w] \in WriterState
      /\ writer[w].pc = "write" /\ writer[w].unread = {}
      /\ writer[w].snapshot \in [Field -> SUBSET committed]
      /\ shown' \in [Field -> SUBSET committed]
      /\ UNCHANGED <<committed, owing, pending, overlapped>>
  BY DEF Inv, TypeOK, Shapes, AttemptFails, ledger
<1>2. Blank \in [Field -> SUBSET committed] /\ Idle.snapshot = Blank /\ Idle.pc = "idle"
  BY DEF Blank, Idle
<1>3. CASE Exhausted(w)
  <2>1. writer' = [writer EXCEPT ![w] = Idle] /\ Fault
    BY <1>3 DEF AttemptFails, Exhausted
  <2>2. /\ Shapes' /\ Honest'
        /\ \A v \in Writer \ {w} : writer'[v] = writer[v]
    BY <1>1, <1>2, <2>1, IdleIsAState, WriterMoves
  <2>3. InHand' /\ faults' \in 0..MaxFaults
    BY <2>1, FaultExcuses
  <2>4. TypeOK'
    BY <1>1, <2>2, <2>3, TypesFromShapes, MetafieldConstants, Zenon DEF Inv, TypeOK
  <2>5. Alone'
    BY <1>1, <2>2, NobodyBegins
  <2> QED  BY <2>2, <2>3, <2>4, <2>5 DEF Inv
<1>4. CASE ~Exhausted(w)
  <2> DEFINE s == [writer[w] EXCEPT !.attempt = @ + 1]
  <2>1. /\ s \in WriterState
        /\ s.pc = "write" /\ s.unread = {} /\ s.snapshot = writer[w].snapshot
    <3>1. writer[w].attempt + 1 \in 0..MaxAttempts
      BY <1>1, <1>4, MetafieldConstants DEF WriterState, Exhausted
    <3> QED  BY <1>1, <3>1 DEF WriterState
  <2>2. writer' = [writer EXCEPT ![w] = s] /\ UNCHANGED faults
    BY <1>4 DEF AttemptFails, Exhausted
  <2> HIDE DEF s
  <2>3. /\ Shapes' /\ Honest'
        /\ writer'[w] = s
        /\ \A v \in Writer \ {w} : writer'[v] = writer[v]
    BY <1>1, <2>1, <2>2, WriterMoves
  <2>4. TypeOK'
    BY <1>1, <2>2, <2>3, TypesFromShapes, MetafieldConstants, Zenon DEF Inv, TypeOK
  <2>5. Alone'
    BY <1>1, <2>3, NobodyBegins
  <2>6. ASSUME (faults = 0 /\ ~overlapped /\ pending = 0)',
               NEW f \in Field, NEW c \in Asked'
        PROVE  WillShow(w, f, c)'
    <3>1. w \in AtWork /\ c \in Asked
      BY <1>1 DEF AtWork, Asked
    <3>2. WillShow(w, f, c)
      BY <1>1, <2>2, <2>6, <3>1 DEF Inv, InHand
    <3> QED  BY <1>1, <2>1, <2>3, <3>2 DEF WillShow
  <2>7. InHand'
    BY <2>1, <2>3, <2>5, <2>6, OneAtWork
  <2> QED  BY <2>3, <2>4, <2>5, <2>7 DEF Inv
<1> QED  BY <1>3, <1>4

LEMMA InterruptedKeeps ==
    ASSUME Inv, NEW w \in Writer, Interrupted(w)
    PROVE  Inv'
<1>1. /\ writer[w].pc # "idle" /\ Fault
      /\ writer' = [writer EXCEPT ![w] = Idle]
      /\ pending' \in Nat
      /\ UNCHANGED <<committed, owing, shown, overlapped>>
  BY DEF Inv, TypeOK, Interrupted, ledger
<1>2. Blank \in [Field -> SUBSET committed] /\ Idle.snapshot = Blank /\ Idle.pc = "idle"
  BY DEF Blank, Idle
<1>3. /\ Shapes' /\ Honest'
      /\ \A v \in Writer \ {w} : writer'[v] = writer[v]
  BY <1>1, <1>2, IdleIsAState, WriterMoves
<1>4. InHand' /\ faults' \in 0..MaxFaults
  BY <1>1, FaultExcuses
<1>5. TypeOK'
  BY <1>1, <1>3, <1>4, TypesFromShapes, MetafieldConstants, Zenon DEF Inv, TypeOK
<1>6. Alone'
  BY <1>1, <1>3, NobodyBegins
<1> QED  BY <1>3, <1>4, <1>5, <1>6 DEF Inv

-----------------------------------------------------------------------------
(* The theorems.                                                           *)

LEMMA StepInv == Inv /\ [Next]_vars => Inv'
<1> SUFFICES ASSUME Inv, [Next]_vars
             PROVE  Inv'
  OBVIOUS
<1>1. CASE \E c \in Change : Commit(c) \/ Enqueue(c) \/ EnqueueFails(c)
  BY <1>1, CommitKeeps, EnqueueKeeps, EnqueueFailsKeeps
<1>2. ASSUME NEW w \in Writer, Step(w)
      PROVE  Inv'
  <2>1. CASE Deliver(w)
    <3>1. pending' \in Nat
      BY <2>1 DEF Deliver, Inv, TypeOK
    <3>2. Begin(w) /\ UNCHANGED <<ledger, shown, faults>>
      BY <2>1 DEF Deliver
    <3> QED  BY <3>1, <3>2, BeginKeeps
  <2>2. CASE Reconcile(w)
    <3>1. pending' \in Nat
      BY <2>2 DEF Reconcile, Inv, TypeOK
    <3>2. Begin(w) /\ UNCHANGED <<ledger, shown, faults>>
      BY <2>2 DEF Reconcile
    <3> QED  BY <3>1, <3>2, BeginKeeps
  <2>3. CASE ReadRow(w) \/ Write(w)
    BY <2>3, ReadRowKeeps, WriteKeeps
  <2>4. CASE \E f \in Field : ReadSum(w, f)
    BY <2>4, ReadSumKeeps
  <2> QED  BY <1>2, <2>1, <2>2, <2>3, <2>4 DEF Step
<1>3. CASE \E w \in Writer : AttemptFails(w) \/ Interrupted(w)
  BY <1>3, AttemptFailsKeeps, InterruptedKeeps
<1>4. CASE UNCHANGED vars
  <2>1. UNCHANGED <<committed, owing, pending, writer, shown, overlapped, faults>>
    BY <1>4 DEF vars, ledger
  <2>2. TypeOK'
    BY <2>1 DEF Inv, TypeOK
  <2>3. Shapes' /\ Alone' /\ InHand'
    BY <2>1 DEF Inv, Shapes, Alone, InHand, AtWork, Asked, WillShow
  <2> QED  BY <2>2, <2>3 DEF Inv
<1> QED  BY <1>1, <1>2, <1>3, <1>4 DEF Next

(* Every state of the cache satisfies the invariant.                       *)
THEOREM Invariance == Spec => []Inv
BY InitInv, StepInv, PTL DEF Spec

(* The storefront, and every snapshot on its way to it, shows nothing but  *)
(* changes the ledger holds, however writers interleave with commits.      *)
THEOREM TypeCorrect == Spec => []TypeOK
<1>1. Inv => TypeOK
  BY DEF Inv
<1> QED  BY <1>1, Invariance, PTL

(* A refresh that collapses into a waiting one is not lost by it: once     *)
(* there is nothing left to do every change that asked for a refresh is    *)
(* shown in every field, if no step failed for good and no two writers     *)
(* overlapped.                                                             *)
THEOREM CollapsingLosesNothing == Spec => []QuietMeansCurrent
<1>1. Inv => QuietMeansCurrent
  <2> SUFFICES ASSUME Inv, Quiet, faults = 0, ~overlapped, NEW f \in Field,
                      NEW c \in committed, Enqueues(c)
               PROVE  c \in shown[f]
    BY DEF QuietMeansCurrent
  <2>1. c \in Asked
    BY DEF Asked, Quiet
  <2> QED  BY <2>1 DEF Inv, InHand, Quiet
<1> QED  BY <1>1, Invariance, PTL
=============================================================================
