-------------------------- MODULE RedemptionProofs --------------------------
(***************************************************************************)
(* Proofs about a redemption, for any number of requests that carry its    *)
(* key and any limits on calls and deliveries.                             *)
(***************************************************************************)
EXTENDS Redemption, FiniteSetTheorems, TLAPS

-----------------------------------------------------------------------------
(* The inductive invariant.                                                *)

(* The local variables of a handler stay within their bounds, so do the    *)
(* deliveries of a job, and a handler starts with its delivery.            *)
Bounded ==
    /\ \A h \in Handler : /\ handler[h].calls < MaxAttempts
                          /\ handler[h].streak <= handler[h].calls
                          /\ handler[h].at # "idle" => h[2] <= job[h[1]].deliveries
    /\ \A r \in Request : job[r].state = "queued" => job[r].deliveries <= RetryLimit

(* The request that has spent, before or after it enqueues the job.        *)
Owns(r) == request[r] = "redeemed" \/ job[r].state # "none"

(* There is one spend exactly when there is a row, and one request made    *)
(* it; only handlers of its job exist.                                     *)
Ownership ==
    /\ spends = IF status = "absent" THEN 0 ELSE 1
    /\ stored = "ok" => spends = 1
    /\ \A r \in Request : /\ Owns(r) => spends = 1
                          /\ request[r] = "redeemed" => job[r].state = "none"
                          /\ job[r].state = "none" => job[r].deliveries = 0
    /\ \A r, s \in Request : Owns(r) /\ Owns(s) => r = s
    /\ \A h \in Handler : handler[h].at # "idle" => job[h[1]].state # "none"

(* The row lock is held from the update of a reversal to its commit, so    *)
(* what its check has found is still true when it commits.                 *)
Locked ==
    /\ \A h \in Handler : rowLock = h <=> handler[h].at \in {"check", "return"}
    /\ \A h \in Handler : handler[h].at = "return" => handler[h].found = (reversals > 0)
    /\ status = "absent" => reversals = 0

(* A code that is saved was created before.                                *)
Minted ==
    /\ \A h \in Handler : handler[h].at = "save" => h \in live
    /\ status = "absent" => codes = {} /\ codeId = None
    /\ codes # {} => codeId # None

PastLoad == {"find", "call", "save", "fail", "check", "return"}

(* As long as no handler outlives its delivery there is one at a time.     *)
Serial ==
    ~overlapped => \A h \in Handler : handler[h].at \in Running => Current(h)

(* Then one that goes on to the calls does so before any outcome.          *)
Undecided ==
    ~overlapped =>
        /\ \A h \in Handler : handler[h].at \in PastLoad => reversals = 0 /\ codes = {}
        /\ reversals > 0 => status = "failed"

Inv ==
    /\ TypeOK /\ Bounded /\ Ownership /\ Locked /\ ReversedOnce
    /\ Minted /\ IssuedCodeWorks /\ Serial /\ Undecided

-----------------------------------------------------------------------------
(* What the steps of a handler have in common.                             *)

LEMMA HandlerIs ==
    ASSUME NEW g \in Handler, NEW h \in Handler
    PROVE  /\ g[1] \in Request /\ g[2] \in 1..(RetryLimit + 1)
           /\ g[1] = h[1] /\ g[2] = h[2] => g = h
BY DEF Handler

HandlerState ==
    [at : Step, calls : 0..MaxAttempts, streak : 0..MaxAttempts, found : BOOLEAN]

JobRow == [state : JobState, deliveries : 0..(RetryLimit + 1)]

LEMMA GotoIs ==
    ASSUME TypeOK, NEW h \in Handler, NEW step \in Step, Goto(h, step)
    PROVE  /\ handler' \in [Handler -> HandlerState]
           /\ handler'[h].at = step
           /\ handler'[h].calls = 0 /\ handler'[h].streak = 0
           /\ \A g \in Handler : g # h => handler'[g] = handler[g]
<1>1. At(step) \in HandlerState
  <2>1. 0 \in 0..MaxAttempts
    BY RedemptionConstants
  <2> QED  BY <2>1 DEF At, HandlerState
<1>2. /\ At(step).at = step /\ At(step).calls = 0 /\ At(step).streak = 0
      /\ ~At(step).found
  BY DEF At
<1> QED  BY <1>1, <1>2 DEF Goto, TypeOK, HandlerState

(* While no handler outlives its delivery, two that run are the same.      *)
LEMMA OneRuns ==
    ASSUME Inv, ~overlapped, NEW g \in Handler, NEW h \in Handler,
           handler[g].at \in Running, handler[h].at \in Running
    PROVE  g = h
<1>1. Current(g) /\ Current(h)
  BY DEF Inv, Serial
<1>2. job[g[1]].state # "none" /\ job[h[1]].state # "none"
  BY <1>1 DEF Current
<1>3. g[1] = h[1]
  BY <1>2, HandlerIs DEF Inv, Ownership, Owns
<1>4. g[2] = h[2]
  BY <1>1, <1>3 DEF Current
<1> QED  BY <1>3, <1>4, HandlerIs

(* The queue's row after a report of handler h.                            *)
JobKept ==
    /\ job' \in [Request -> JobRow]
    /\ \A r \in Request : /\ job'[r].deliveries = job[r].deliveries
                          /\ job'[r].state = "none" <=> job[r].state = "none"
                          /\ job'[r].state = "queued" => job'[r].deliveries <= RetryLimit

LEMMA ReportIs ==
    ASSUME Inv, NEW h \in Handler, handler[h].at \in Running,
           NEW outcome \in {"completed", Retried(job[h[1]])}, Report(h, outcome)
    PROVE  JobKept
<1>1. job \in [Request -> JobRow] /\ h[1] \in Request
  BY HandlerIs DEF Inv, TypeOK, JobRow
<1>2. outcome \in {"completed", "failed", "queued"}
  BY DEF Retried
<1>3. outcome = "queued" => job[h[1]].deliveries <= RetryLimit
  BY <1>1, RedemptionConstants DEF Retried, JobRow
<1>4. CASE Current(h)
  <2>1. job' = [job EXCEPT ![h[1]].state = outcome]
    BY <1>4 DEF Report
  <2>2. job[h[1]].state # "none"
    BY <1>4 DEF Current
  <2> QED  BY <1>1, <1>2, <1>3, <2>1, <2>2 DEF JobKept, JobRow, JobState, Inv, Bounded
<1>5. CASE ~Current(h)
  BY <1>1, <1>5 DEF Report, JobKept, Inv, Bounded
<1> QED  BY <1>4, <1>5

LEMMA NoReportIs ==
    ASSUME Inv, UNCHANGED job
    PROVE  JobKept
BY DEF JobKept, JobRow, Inv, TypeOK, Bounded

(* A handler runs only for a redemption that has spent.                    *)
LEMMA RunsAfterSpend ==
    ASSUME Inv, NEW h \in Handler, handler[h].at \in Running
    PROVE  status # "absent" /\ spends = 1
<1>1. h[1] \in Request /\ job[h[1]].state # "none"
  BY HandlerIs DEF Inv, Ownership, Running
<1> QED  BY <1>1 DEF Inv, Ownership, Owns

(* What every step of one handler keeps, whatever else it does.            *)
LEMMA HandlerMoves ==
    ASSUME Inv, NEW h \in Handler, handler[h].at \in Running,
           handler' \in [Handler -> HandlerState],
           \A g \in Handler : g # h => handler'[g] = handler[g],
           handler'[h].at # "idle",
           handler'[h].calls < MaxAttempts, handler'[h].streak <= handler'[h].calls,
           JobKept, handler'[h].at \in Running => UNCHANGED job,
           UNCHANGED <<clientVars, spends, overlapped>>, UNCHANGED status \/ status' # "absent"
    PROVE  Bounded' /\ Ownership' /\ Serial'
<1> handler[h].at # "idle"
  BY DEF Running
<1>1. Bounded'
  BY HandlerIs DEF Inv, Bounded, JobKept
<1>2. Ownership'
  <2>1. status # "absent" /\ status' # "absent" /\ spends' = 1
    BY RunsAfterSpend
  <2>2. \A r \in Request : Owns(r)' <=> Owns(r)
    BY DEF Owns, JobKept, clientVars
  <2>3. \A g \in Handler : handler'[g].at # "idle" => job'[g[1]].state # "none"
    <3>1. \A g \in Handler : handler'[g].at # "idle" => handler[g].at # "idle"
      BY DEF Running
    <3> QED  BY <3>1, HandlerIs DEF Inv, Ownership, JobKept
  <2>4. \A r \in Request : /\ Owns(r)' => spends' = 1
                           /\ request'[r] = "redeemed" => job'[r].state = "none"
                           /\ job'[r].state = "none" => job'[r].deliveries = 0
    BY <2>1, <2>2 DEF Inv, Ownership, JobKept, clientVars
  <2>5. \A r, s \in Request : Owns(r)' /\ Owns(s)' => r = s
    BY <2>2 DEF Inv, Ownership
  <2> QED  BY <2>1, <2>3, <2>4, <2>5 DEF Ownership
<1>3. Serial'
  <2> SUFFICES ASSUME ~overlapped, NEW g \in Handler, handler'[g].at \in Running
               PROVE  Current(g)'
    BY DEF Serial
  <2>1. handler[g].at \in Running
    OBVIOUS
  <2>2. g = h
    BY <2>1, OneRuns
  <2> QED  BY <2>1, <2>2 DEF Inv, Serial, Current
<1> QED  BY <1>1, <1>2, <1>3

(* A step of a handler that writes no row keeps the invariant: it goes on  *)
(* to the calls only before an outcome, to "save" only with a live code,   *)
(* and what it gives up is its own lock.                                   *)
LEMMA WritesNothing ==
    ASSUME Inv, NEW h \in Handler, handler[h].at \in Running,
           handler' \in [Handler -> HandlerState],
           \A g \in Handler : g # h => handler'[g] = handler[g],
           handler'[h].at \notin {"idle", "check", "return"},
           handler'[h].calls < MaxAttempts, handler'[h].streak <= handler'[h].calls,
           JobKept, handler'[h].at \in Running => UNCHANGED job,
           UNCHANGED <<clientVars, tableVars, overlapped>>,
           live \subseteq live', live' \subseteq Handler,
           handler'[h].at = "save" => h \in live',
           \/ handler[h].at \in PastLoad
           \/ handler'[h].at \notin PastLoad
           \/ codes = {} /\ (reversals = 0 \/ overlapped),
           rowLock' = IF rowLock = h THEN None ELSE rowLock
    PROVE  Inv'
<1> USE DEF tableVars
<1>1. TypeOK'
  BY DEF Inv, TypeOK, JobKept, JobRow, HandlerState, clientVars
<1>2. Bounded' /\ Ownership' /\ Serial'
  BY HandlerMoves
<1>3. Locked'
  BY RedemptionConstants DEF Inv, Locked
<1>4. ReversedOnce' /\ IssuedCodeWorks'
  BY DEF Inv, ReversedOnce, IssuedCodeWorks
<1>5. Minted'
  BY DEF Inv, Minted
<1>6. Undecided'
  BY DEF Inv, Undecided
<1> QED  BY <1>1, <1>2, <1>3, <1>4, <1>5, <1>6 DEF Inv

(* A handler outside the reversal does not hold the lock.                  *)
LEMMA HoldsNoLock ==
    ASSUME Inv, NEW h \in Handler, handler[h].at \notin {"check", "return"}
    PROVE  rowLock # h
BY DEF Inv, Locked

LEMMA ReturnKeeps ==
    ASSUME Inv, NEW h \in Handler, handler[h].at \in Running, Return(h)
    PROVE  /\ handler' \in [Handler -> HandlerState]
           /\ handler'[h].at = "ended"
           /\ handler'[h].calls = 0 /\ handler'[h].streak = 0
           /\ \A g \in Handler : g # h => handler'[g] = handler[g]
           /\ JobKept
<1>1. Goto(h, "ended") /\ Report(h, "completed")
  BY DEF Return
<1>2. "ended" \in Step
  BY DEF Step
<1> QED  BY <1>1, <1>2, GotoIs, ReportIs DEF Inv

LEMMA ThrowKeeps ==
    ASSUME Inv, NEW h \in Handler, handler[h].at \in Running, Throw(h)
    PROVE  /\ handler' \in [Handler -> HandlerState]
           /\ handler'[h].at = "ended"
           /\ handler'[h].calls = 0 /\ handler'[h].streak = 0
           /\ \A g \in Handler : g # h => handler'[g] = handler[g]
           /\ JobKept
<1>1. Goto(h, "ended") /\ Report(h, Retried(job[h[1]]))
  BY DEF Throw
<1>2. "ended" \in Step
  BY DEF Step
<1> QED  BY <1>1, <1>2, GotoIs, ReportIs DEF Inv

LEMMA LoadKeeps ==
    ASSUME Inv, NEW h \in Handler, Load(h)
    PROVE  Inv'
<1> USE RedemptionConstants DEF Load, PastLoad, Running
<1>1. /\ handler[h].at \in Running /\ live' \subseteq Handler
      /\ rowLock' = IF rowLock = h THEN None ELSE rowLock
  BY HoldsNoLock DEF Inv, TypeOK
<1>2. CASE codeId # None
  <2>1. Return(h)
    BY <1>2
  <2> QED  BY <1>1, <2>1, ReturnKeeps, WritesNothing
<1>3. CASE codeId = None /\ Terminal
  <2>1. Throw(h)
    BY <1>3
  <2> QED  BY <1>1, <2>1, ThrowKeeps, WritesNothing
<1>4. CASE codeId = None /\ ~Terminal
  <2>1. Goto(h, "find") /\ UNCHANGED job /\ "find" \in Step
    BY <1>4 DEF Step
  <2>2. codes = {} /\ (reversals = 0 \/ overlapped)
    BY <1>4 DEF Inv, TypeOK, Minted, Undecided, Terminal
  <2>3. JobKept
    BY <2>1, NoReportIs
  <2> QED  BY <1>1, <2>1, <2>2, <2>3, GotoIs, WritesNothing DEF Inv
<1> QED  BY <1>2, <1>3, <1>4

LEMMA FindKeeps ==
    ASSUME Inv, NEW h \in Handler, Find(h)
    PROVE  Inv'
<1> USE RedemptionConstants DEF Find, PastLoad, Running
<1>1. /\ handler[h].at \in Running /\ live' \subseteq Handler
      /\ rowLock' = IF rowLock = h THEN None ELSE rowLock
  BY HoldsNoLock DEF Inv, TypeOK
<1>2. CASE codes # {}
  <2>1. Return(h)
    BY <1>2
  <2> QED  BY <1>1, <2>1, ReturnKeeps, WritesNothing
<1>3. CASE codes = {}
  <2>1. Goto(h, "call") /\ UNCHANGED job /\ "call" \in Step
    BY <1>3 DEF Step
  <2>2. JobKept
    BY <2>1, NoReportIs
  <2> QED  BY <1>1, <2>1, <2>2, GotoIs, WritesNothing DEF Inv
<1> QED  BY <1>2, <1>3

LEMMA MintKeeps ==
    ASSUME Inv, NEW h \in Handler, Mint(h)
    PROVE  Inv'
<1> USE RedemptionConstants DEF Mint, PastLoad, Running
<1>1. /\ handler[h].at \in Running /\ live' \subseteq Handler
      /\ rowLock' = IF rowLock = h THEN None ELSE rowLock
  BY HoldsNoLock DEF Inv, TypeOK
<1>2. Goto(h, "save") /\ "save" \in Step
  BY DEF Step
<1>3. JobKept
  BY NoReportIs
<1> QED  BY <1>1, <1>2, <1>3, GotoIs, WritesNothing DEF Inv

LEMMA CallFailsKeeps ==
    ASSUME Inv, NEW h \in Handler, CallFails(h)
    PROVE  Inv'
<1> USE DEF PastLoad, Running
<1>1. /\ handler[h].at = "call" /\ live \subseteq live' /\ live' \subseteq Handler
      /\ rowLock' = IF rowLock = h THEN None ELSE rowLock
      /\ UNCHANGED <<clientVars, tableVars, job, overlapped>>
  BY HoldsNoLock DEF CallFails, Inv, TypeOK
<1>2. JobKept
  BY <1>1, NoReportIs
<1>3. CASE Goto(h, "fail")
  <2>1. "fail" \in Step /\ MaxAttempts > 0
    BY RedemptionConstants DEF Step
  <2> QED  BY <1>1, <1>2, <1>3, <2>1, GotoIs, WritesNothing DEF Inv
<1>4. CASE /\ handler[h].calls + 1 < MaxAttempts
           /\ handler' = [handler EXCEPT ![h].calls = handler[h].calls + 1,
                                         ![h].streak = handler[h].streak + 1]
  <2>1. /\ handler[h].calls + 1 \in 0..MaxAttempts
        /\ handler[h].streak + 1 \in 0..MaxAttempts
        /\ handler[h].streak + 1 <= handler[h].calls + 1
    BY <1>4, RedemptionConstants DEF Inv, TypeOK, Bounded
  <2>2. /\ handler' \in [Handler -> HandlerState]
        /\ handler'[h].at = "call"
        /\ handler'[h].calls < MaxAttempts /\ handler'[h].streak <= handler'[h].calls
        /\ \A g \in Handler : g # h => handler'[g] = handler[g]
    BY <1>1, <1>4, <2>1 DEF Inv, TypeOK, HandlerState
  <2> QED  BY <1>1, <1>2, <2>2, WritesNothing
<1> QED  BY <1>3, <1>4 DEF CallFails, HardFailure

LEMMA ThrottledKeeps ==
    ASSUME Inv, NEW h \in Handler, Throttled(h)
    PROVE  Inv'
<1> USE DEF PastLoad, Running
<1>1. /\ handler[h].at = "call" /\ live' = live /\ live' \subseteq Handler
      /\ rowLock' = IF rowLock = h THEN None ELSE rowLock
      /\ UNCHANGED <<clientVars, tableVars, overlapped>>
  BY HoldsNoLock DEF Throttled, Inv, TypeOK
<1>2. CASE handler[h].calls + 1 = MaxAttempts
  <2>1. Throw(h) /\ MaxAttempts > 0
    BY <1>2, RedemptionConstants DEF Throttled
  <2> QED  BY <1>1, <2>1, ThrowKeeps, WritesNothing
<1>3. CASE handler[h].calls + 1 # MaxAttempts
  <2>1. /\ handler' = [handler EXCEPT ![h].calls = handler[h].calls + 1, ![h].streak = 0]
        /\ UNCHANGED job
    BY <1>3 DEF Throttled
  <2>2. /\ handler[h].calls + 1 \in 0..MaxAttempts /\ handler[h].calls + 1 < MaxAttempts
        /\ 0 \in 0..MaxAttempts /\ 0 <= handler[h].calls + 1
    BY <1>3, RedemptionConstants DEF Inv, TypeOK, Bounded
  <2>3. JobKept
    BY <2>1, NoReportIs
  <2>4. /\ handler' \in [Handler -> HandlerState]
        /\ handler'[h].at = "call"
        /\ handler'[h].calls < MaxAttempts /\ handler'[h].streak <= handler'[h].calls
        /\ \A g \in Handler : g # h => handler'[g] = handler[g]
    BY <1>1, <2>1, <2>2 DEF Inv, TypeOK, HandlerState
  <2> QED  BY <1>1, <2>1, <2>3, <2>4, WritesNothing
<1> QED  BY <1>2, <1>3

LEMMA StatementFailsKeeps ==
    ASSUME Inv, NEW h \in Handler, StatementFails(h)
    PROVE  Inv'
<1>1. /\ handler[h].at \in Running /\ Throw(h) /\ live' = live /\ live' \subseteq Handler
      /\ UNCHANGED <<clientVars, tableVars, overlapped>>
      /\ rowLock' = IF rowLock = h THEN None ELSE rowLock
  BY DEF StatementFails, Inv, TypeOK
<1>2. MaxAttempts > 0
  BY RedemptionConstants
<1> QED  BY <1>1, <1>2, ThrowKeeps, WritesNothing DEF Running, PastLoad

-----------------------------------------------------------------------------
(* The steps that write the rows.                                          *)

LEMMA SaveKeeps ==
    ASSUME Inv, NEW h \in Handler, Save(h)
    PROVE  Inv'
<1>1. /\ handler[h].at = "save" /\ handler[h].at \in Running /\ h \in live
      /\ rowLock = None /\ codes' = codes \cup {h} /\ status' = "issued" /\ codeId' = h
      /\ Return(h)
      /\ UNCHANGED <<clientVars, spends, reversals, live, rowLock, overlapped>>
  BY DEF Save, Link, Inv, Minted, Running
<1>2. /\ handler' \in [Handler -> HandlerState]
      /\ handler'[h].at = "ended" /\ handler'[h].calls = 0 /\ handler'[h].streak = 0
      /\ \A g \in Handler : g # h => handler'[g] = handler[g]
      /\ JobKept
  BY <1>1, ReturnKeeps
<1>3. TypeOK'
  BY <1>1, <1>2 DEF Inv, TypeOK, JobKept, JobRow, HandlerState, clientVars
<1>4. Bounded' /\ Ownership' /\ Serial'
  <2>1. MaxAttempts > 0 /\ handler'[h].at \notin Running
    BY <1>2, RedemptionConstants DEF Running
  <2> QED  BY <1>1, <1>2, <2>1, HandlerMoves
<1>5. Locked'
  BY <1>1, <1>2, RedemptionConstants DEF Inv, Locked
<1>6. ReversedOnce' /\ IssuedCodeWorks'
  BY <1>1 DEF Inv, ReversedOnce, IssuedCodeWorks, Locked
<1>7. Minted'
  BY <1>1, <1>2, RedemptionConstants DEF Inv, Minted
<1>8. Undecided'
  <2> SUFFICES ASSUME ~overlapped
               PROVE  /\ \A g \in Handler : handler'[g].at \notin PastLoad
                      /\ reversals' = 0
    BY <1>1 DEF Undecided
  <2>1. reversals = 0
    BY <1>1 DEF Inv, Undecided, PastLoad
  <2>2. \A g \in Handler : handler'[g].at \in PastLoad => g # h /\ handler[g].at \in Running
    BY <1>2 DEF PastLoad, Running
  <2> QED  BY <1>1, <2>1, <2>2, OneRuns
<1> QED  BY <1>3, <1>4, <1>5, <1>6, <1>7, <1>8 DEF Inv

LEMMA FailKeeps ==
    ASSUME Inv, NEW h \in Handler, Fail(h)
    PROVE  Inv'
<1>1. /\ handler[h].at = "fail" /\ handler[h].at \in Running
      /\ rowLock = None /\ rowLock' = h /\ Goto(h, "check")
      /\ UNCHANGED <<clientVars, tableVars, live, job, overlapped>>
  BY DEF Fail, FailLocks, Running
<1>2. /\ handler' \in [Handler -> HandlerState]
      /\ handler'[h].at = "check" /\ handler'[h].calls = 0 /\ handler'[h].streak = 0
      /\ \A g \in Handler : g # h => handler'[g] = handler[g]
  <2>1. "check" \in Step
    BY DEF Step
  <2> QED  BY <1>1, <2>1, GotoIs DEF Inv
<1>3. JobKept
  BY <1>1, NoReportIs
<1>4. TypeOK'
  BY <1>1, <1>2 DEF Inv, TypeOK, HandlerState, clientVars, tableVars
<1>5. Bounded' /\ Ownership' /\ Serial'
  <2>1. MaxAttempts > 0 /\ UNCHANGED <<spends, status>>
    BY <1>1, RedemptionConstants DEF tableVars
  <2> QED  BY <1>1, <1>2, <1>3, <2>1, HandlerMoves
<1>6. Locked'
  BY <1>1, <1>2, RedemptionConstants DEF Inv, Locked, tableVars
<1>7. ReversedOnce' /\ IssuedCodeWorks'
  BY <1>1 DEF Inv, ReversedOnce, IssuedCodeWorks, tableVars
<1>8. Minted'
  BY <1>1, <1>2 DEF Inv, Minted, tableVars
<1>9. Undecided'
  BY <1>1, <1>2 DEF Inv, Undecided, PastLoad, tableVars
<1> QED  BY <1>4, <1>5, <1>6, <1>7, <1>8, <1>9 DEF Inv

LEMMA CheckKeeps ==
    ASSUME Inv, NEW h \in Handler, Check(h)
    PROVE  Inv'
<1>1. /\ handler[h].at = "check" /\ handler[h].at \in Running /\ rowLock = h
      /\ UNCHANGED <<clientVars, tableVars, live, job, rowLock, overlapped>>
  BY DEF Check, Running, Inv, Locked
<1>2. /\ handler' \in [Handler -> HandlerState]
      /\ handler'[h].at = "return" /\ handler'[h].found = (reversals > 0)
      /\ handler'[h].calls = handler[h].calls /\ handler'[h].streak = handler[h].streak
      /\ \A g \in Handler : g # h => handler'[g] = handler[g]
  BY DEF Check, Inv, TypeOK, HandlerState, Step
<1>3. JobKept
  BY <1>1, NoReportIs
<1>4. TypeOK'
  BY <1>1, <1>2 DEF Inv, TypeOK, HandlerState, clientVars, tableVars
<1>5. Bounded' /\ Ownership' /\ Serial'
  <2>1. UNCHANGED <<spends, status>>
    BY <1>1 DEF tableVars
  <2>2. handler[h].calls < MaxAttempts /\ handler[h].streak <= handler[h].calls
    BY DEF Inv, Bounded
  <2> QED  BY <1>1, <1>2, <1>3, <2>1, <2>2, HandlerMoves
<1>6. Locked'
  BY <1>1, <1>2, RedemptionConstants DEF Inv, Locked, tableVars
<1>7. ReversedOnce' /\ IssuedCodeWorks'
  BY <1>1 DEF Inv, ReversedOnce, IssuedCodeWorks, tableVars
<1>8. Minted'
  BY <1>1, <1>2 DEF Inv, Minted, tableVars
<1>9. Undecided'
  BY <1>1, <1>2 DEF Inv, Undecided, PastLoad, tableVars
<1> QED  BY <1>4, <1>5, <1>6, <1>7, <1>8, <1>9 DEF Inv

LEMMA GiveBackKeeps ==
    ASSUME Inv, NEW h \in Handler, GiveBack(h)
    PROVE  Inv'
<1>1. /\ handler[h].at = "return" /\ handler[h].at \in Running
      /\ status' = "failed" /\ reversals' = 1 /\ rowLock = h /\ rowLock' = None /\ Throw(h)
      /\ UNCHANGED <<clientVars, codeId, spends, codes, live, overlapped>>
  BY DEF GiveBack, Running, Inv, TypeOK, Locked, ReversedOnce
<1>2. /\ handler' \in [Handler -> HandlerState]
      /\ handler'[h].at = "ended" /\ handler'[h].calls = 0 /\ handler'[h].streak = 0
      /\ \A g \in Handler : g # h => handler'[g] = handler[g]
      /\ JobKept
  BY <1>1, ThrowKeeps
<1>3. TypeOK'
  BY <1>1, <1>2 DEF Inv, TypeOK, JobKept, JobRow, HandlerState, clientVars
<1>4. Bounded' /\ Ownership' /\ Serial'
  <2>1. MaxAttempts > 0 /\ handler'[h].at \notin Running
    BY <1>2, RedemptionConstants DEF Running
  <2> QED  BY <1>1, <1>2, <2>1, HandlerMoves
<1>5. Locked'
  BY <1>1, <1>2, RedemptionConstants DEF Inv, Locked
<1>6. ReversedOnce' /\ IssuedCodeWorks'
  BY <1>1 DEF Inv, ReversedOnce, IssuedCodeWorks
<1>7. Minted'
  BY <1>1, <1>2 DEF Inv, Minted
<1>8. Undecided'
  <2> SUFFICES ASSUME ~overlapped
               PROVE  \A g \in Handler : handler'[g].at \notin PastLoad
    BY <1>1 DEF Undecided
  <2>1. \A g \in Handler : handler'[g].at \in PastLoad => g # h /\ handler[g].at \in Running
    BY <1>2 DEF PastLoad, Running
  <2> QED  BY <1>1, <2>1, OneRuns
<1> QED  BY <1>3, <1>4, <1>5, <1>6, <1>7, <1>8 DEF Inv

LEMMA WorkerDiesKeeps ==
    ASSUME Inv, WorkerDies
    PROVE  Inv'
<1>1. /\ rowLock' = None
      /\ UNCHANGED <<clientVars, tableVars, live, job, overlapped>>
  BY DEF WorkerDies
<1>2. /\ handler' \in [Handler -> HandlerState]
      /\ \A g \in Handler : /\ handler'[g].at \notin Running
                            /\ handler'[g].at = "idle" <=> handler[g].at = "idle"
                            /\ handler'[g].calls < MaxAttempts
                            /\ handler'[g].streak <= handler'[g].calls
  <2>1. /\ At("ended") \in HandlerState /\ At("ended").at = "ended"
        /\ At("ended").calls = 0 /\ At("ended").streak = 0
    <3>1. 0 \in 0..MaxAttempts /\ "ended" \in Step
      BY RedemptionConstants DEF Step
    <3> QED  BY <3>1 DEF At, HandlerState
  <2>2. \A g \in Handler : handler'[g] = IF handler[g].at \in Running
                                         THEN At("ended") ELSE handler[g]
    BY DEF WorkerDies
  <2>3. \A g \in Handler : handler[g] \in HandlerState
    BY DEF Inv, TypeOK, HandlerState
  <2>4. handler' \in [Handler -> HandlerState]
    BY <2>1, <2>3 DEF WorkerDies
  <2> QED  BY <2>1, <2>2, <2>4, RedemptionConstants DEF Running, Inv, Bounded
<1>3. TypeOK'
  BY <1>1, <1>2 DEF Inv, TypeOK, HandlerState, clientVars, tableVars
<1>4. Bounded' /\ Serial'
  BY <1>1, <1>2 DEF Inv, Bounded, Serial
<1>5. Ownership'
  BY <1>1, <1>2 DEF Inv, Ownership, Owns, clientVars, tableVars
<1>6. Locked'
  BY <1>1, <1>2, RedemptionConstants DEF Inv, Locked, Running, tableVars
<1>7. ReversedOnce' /\ IssuedCodeWorks'
  BY <1>1 DEF Inv, ReversedOnce, IssuedCodeWorks, tableVars
<1>8. Minted' /\ Undecided'
  BY <1>1, <1>2 DEF Inv, Minted, Undecided, PastLoad, Running, tableVars
<1> QED  BY <1>3, <1>4, <1>5, <1>6, <1>7, <1>8 DEF Inv

-----------------------------------------------------------------------------
(* The steps of a request and of the queue.                                *)

(* A step of a request that touches nothing but the request and the store. *)
LEMMA ClientMoves ==
    ASSUME Inv, request' \in [Request -> RequestState],
           \A r \in Request : request'[r] = "redeemed" <=> request[r] = "redeemed",
           stored' \in {stored, "refused"} \/ (stored' = "ok" /\ spends = 1),
           UNCHANGED <<tableVars, live, job, handler, rowLock, overlapped>>
    PROVE  Inv'
<1> USE DEF tableVars
<1>1. TypeOK'
  BY DEF Inv, TypeOK, Response
<1>2. Bounded' /\ Serial'
  BY DEF Inv, Bounded, Serial, Current
<1>3. Ownership'
  <2>1. \A s \in Request : Owns(s)' <=> Owns(s)
    BY DEF Owns
  <2> QED  BY <2>1 DEF Inv, Ownership
<1>4. Locked' /\ ReversedOnce' /\ IssuedCodeWorks' /\ Minted' /\ Undecided'
  BY DEF Inv, Locked, ReversedOnce, IssuedCodeWorks, Minted, Undecided
<1> QED  BY <1>1, <1>2, <1>3, <1>4 DEF Inv

LEMMA ClientKeeps ==
    ASSUME Inv, NEW r \in Request,
           Arrive(r) \/ Replay(r) \/ Refuse(r) \/ RedeemFails(r)
    PROVE  Inv'
<1>1. /\ request[r] # "redeemed"
      /\ \/ request' = [request EXCEPT ![r] = "running"]
         \/ request' = [request EXCEPT ![r] = "answered"]
         \/ request' = [request EXCEPT ![r] = "error"]
  BY DEF Arrive, Replay, Refuse, RedeemFails, Answer
<1>2. /\ request' \in [Request -> RequestState]
      /\ \A s \in Request : request'[s] = "redeemed" <=> request[s] = "redeemed"
  BY <1>1 DEF Inv, TypeOK, RequestState
<1>3. stored' \in {stored, "refused"} \/ (stored' = "ok" /\ spends = 1)
  BY DEF Arrive, Replay, Refuse, RedeemFails, Answer, AlreadyRedeemed, Inv, Ownership
<1>4. UNCHANGED <<tableVars, live, job, handler, rowLock, overlapped>>
  BY DEF Arrive, Replay, Refuse, RedeemFails
<1> QED  BY <1>2, <1>3, <1>4, ClientMoves

LEMMA RedeemKeeps ==
    ASSUME Inv, NEW r \in Request, Redeem(r)
    PROVE  Inv'
<1>1. /\ request[r] = "running" /\ status = "absent" /\ status' = "pending_code"
      /\ request' = [request EXCEPT ![r] = "redeemed"]
      /\ spends = 0 /\ spends' = 1
      /\ UNCHANGED <<stored, codeId, reversals, codes, live, job, handler, rowLock, overlapped>>
  BY DEF Redeem, AlreadyRedeemed, Inv, Ownership
<1>2. reversals = 0 /\ codes = {} /\ codeId = None
  BY <1>1 DEF Inv, Locked, Minted
<1>3. TypeOK'
  BY <1>1 DEF Inv, TypeOK, RequestState
<1>4. Bounded' /\ Serial'
  BY <1>1 DEF Inv, Bounded, Serial, Current
<1>5. Ownership'
  <2>1. \A s \in Request : job[s].state = "none" /\ (request'[s] = "redeemed" <=> s = r)
    BY <1>1 DEF Inv, TypeOK, Ownership, Owns
  <2>2. \A s \in Request : Owns(s)' <=> s = r
    BY <1>1, <2>1 DEF Owns
  <2> QED  BY <1>1, <2>1, <2>2 DEF Inv, Ownership
<1>6. Locked' /\ ReversedOnce' /\ IssuedCodeWorks'
  BY <1>1, <1>2 DEF Inv, Locked, ReversedOnce, IssuedCodeWorks
<1>7. Minted' /\ Undecided'
  BY <1>1, <1>2 DEF Inv, Minted, Undecided
<1> QED  BY <1>3, <1>4, <1>5, <1>6, <1>7 DEF Inv

(* The enqueue that follows the spend, whether or not it succeeds.         *)
LEMMA EnqueueKeeps ==
    ASSUME Inv, NEW r \in Request, Enqueue(r) \/ EnqueueFails(r)
    PROVE  Inv'
<1>1. /\ request[r] = "redeemed" /\ spends = 1
      /\ job[r].state = "none" /\ job[r].deliveries = 0
      /\ UNCHANGED <<tableVars, live, handler, rowLock, overlapped>>
  BY DEF Enqueue, EnqueueFails, Inv, Ownership, Owns
<1>2. PICK to \in {"answered", "error"} : request' = [request EXCEPT ![r] = to]
  BY DEF Enqueue, EnqueueFails, Answer
<1>3. stored' \in {stored, "ok"}
  BY DEF Enqueue, EnqueueFails, Answer
<1>4. PICK state \in {"none", "queued"} : job' = [job EXCEPT ![r].state = state]
  BY <1>1 DEF Enqueue, EnqueueFails, Inv, TypeOK
<1>5. /\ job' \in [Request -> JobRow]
      /\ job'[r].state \in {"none", "queued"} /\ job'[r].deliveries = 0
      /\ \A s \in Request : s # r => job'[s] = job[s]
  BY <1>1, <1>4 DEF Inv, TypeOK, JobRow, JobState
<1>6. /\ request' \in [Request -> RequestState]
      /\ request'[r] # "redeemed"
      /\ \A s \in Request : s # r => request'[s] = request[s]
  BY <1>2 DEF Inv, TypeOK, RequestState
<1> USE DEF tableVars
<1>7. \A h \in Handler : h[1] = r => handler[h].at = "idle"
  BY <1>1 DEF Inv, Ownership
<1>8. TypeOK'
  BY <1>1, <1>3, <1>5, <1>6 DEF Inv, TypeOK, JobRow, Response
<1>9. Bounded'
  BY <1>1, <1>5, <1>7, HandlerIs, RedemptionConstants DEF Inv, Bounded
<1>10. Ownership'
  <2>1. \A s \in Request : Owns(s)' => s = r
    BY <1>1, <1>5, <1>6 DEF Inv, Ownership, Owns
  <2> QED  BY <1>1, <1>3, <1>5, <1>6, <1>7, <2>1, HandlerIs DEF Inv, Ownership
<1>11. Serial'
  BY <1>1, <1>5, <1>7, HandlerIs DEF Inv, Serial, Current, Running
<1>12. Locked' /\ ReversedOnce' /\ IssuedCodeWorks'
  BY <1>1 DEF Inv, Locked, ReversedOnce, IssuedCodeWorks
<1>13. Minted' /\ Undecided'
  BY <1>1 DEF Inv, Minted, Undecided
<1> QED  BY <1>8, <1>9, <1>10, <1>11, <1>12, <1>13 DEF Inv

LEMMA DeliverKeeps ==
    ASSUME Inv, NEW r \in Request, Deliver(r)
    PROVE  Inv'
<1> DEFINE d == <<r, job[r].deliveries + 1>>
<1>1. /\ job[r].state = "queued"
      /\ job' = [job EXCEPT ![r] = [state |-> "active", deliveries |-> job[r].deliveries + 1]]
      /\ handler' = [handler EXCEPT ![d].at = "load"]
      /\ UNCHANGED <<clientVars, tableVars, live, rowLock, overlapped>>
  BY DEF Deliver
<1>2. /\ job[r].deliveries \in Nat /\ job[r].deliveries <= RetryLimit
      /\ job \in [Request -> JobRow]
  BY <1>1, RedemptionConstants DEF Inv, Bounded, TypeOK, JobRow
<1>3. d \in Handler /\ d[1] = r /\ d[2] = job[r].deliveries + 1
  BY <1>2, RedemptionConstants DEF Handler
<1>4. handler[d].at = "idle"
  BY <1>2, <1>3 DEF Inv, Bounded
<1>5. /\ handler' \in [Handler -> HandlerState]
      /\ handler'[d].at = "load"
      /\ handler'[d].calls = handler[d].calls /\ handler'[d].streak = handler[d].streak
      /\ \A g \in Handler : g # d => handler'[g] = handler[g]
  BY <1>1, <1>3 DEF Inv, TypeOK, HandlerState, Step
<1>6. /\ job' \in [Request -> JobRow]
      /\ job'[r].state = "active" /\ job'[r].deliveries = job[r].deliveries + 1
      /\ \A s \in Request : s # r => job'[s] = job[s]
  <2>1. [state |-> "active", deliveries |-> job[r].deliveries + 1] \in JobRow
    BY <1>2, RedemptionConstants DEF JobRow, JobState
  <2> QED  BY <1>1, <1>2, <2>1
<1> HIDE DEF d
<1> USE DEF tableVars, clientVars
<1>7. TypeOK'
  BY <1>1, <1>5, <1>6 DEF Inv, TypeOK, JobRow, HandlerState
<1>8. Bounded'
  <2>1. \A h \in Handler : handler'[h].at # "idle" => h[2] <= job'[h[1]].deliveries
    BY <1>2, <1>3, <1>5, <1>6, HandlerIs DEF Inv, Bounded
  <2>2. \A h \in Handler : handler'[h].calls < MaxAttempts /\ handler'[h].streak <= handler'[h].calls
    BY <1>3, <1>5 DEF Inv, Bounded
  <2>3. \A s \in Request : job'[s].state = "queued" => job'[s].deliveries <= RetryLimit
    BY <1>6 DEF Inv, Bounded
  <2> QED  BY <2>1, <2>2, <2>3 DEF Bounded
<1>9. Ownership'
  <2>1. \A s \in Request : Owns(s)' <=> Owns(s)
    BY <1>1, <1>6 DEF Owns
  <2>2. \A h \in Handler : handler'[h].at # "idle" => job'[h[1]].state # "none"
    BY <1>3, <1>5, <1>6, HandlerIs DEF Inv, Ownership
  <2>3. request[r] # "redeemed"
    BY <1>1 DEF Inv, Ownership
  <2> QED  BY <1>1, <1>6, <2>1, <2>2, <2>3 DEF Inv, Ownership
<1>10. \A h \in Handler : ~overlapped => handler[h].at \notin Running
  <2> SUFFICES ASSUME NEW h \in Handler, ~overlapped, handler[h].at \in Running
               PROVE  FALSE
    OBVIOUS
  <2>1. job[h[1]].state = "active" /\ h[1] \in Request
    BY HandlerIs DEF Inv, Serial, Current
  <2>2. h[1] = r
    BY <1>1, <2>1 DEF Inv, Ownership, Owns
  <2> QED  BY <1>1, <2>1, <2>2
<1>11. Serial'
  BY <1>1, <1>3, <1>5, <1>6, <1>10 DEF Serial, Current
<1>12. Locked' /\ ReversedOnce' /\ IssuedCodeWorks'
  BY <1>1, <1>3, <1>4, <1>5 DEF Inv, Locked, ReversedOnce, IssuedCodeWorks
<1>13. Minted' /\ Undecided'
  BY <1>1, <1>3, <1>5 DEF Inv, Minted, Undecided, PastLoad
<1> QED  BY <1>7, <1>8, <1>9, <1>11, <1>12, <1>13 DEF Inv

LEMMA ExpireKeeps ==
    ASSUME Inv, NEW r \in Request, Expire(r)
    PROVE  Inv'
<1>1. /\ job[r].state = "active"
      /\ job' = [job EXCEPT ![r].state = Retried(job[r])]
      /\ overlapped' = (overlapped \/ handler[<<r, job[r].deliveries>>].at \in Running)
      /\ UNCHANGED <<clientVars, tableVars, live, handler, rowLock>>
  BY DEF Expire
<1>2. /\ Retried(job[r]) \in {"queued", "failed"}
      /\ Retried(job[r]) = "queued" => job[r].deliveries <= RetryLimit
  BY RedemptionConstants DEF Retried, Inv, TypeOK
<1>3. /\ job' \in [Request -> JobRow]
      /\ job'[r].state \in {"queued", "failed"} /\ job'[r].deliveries = job[r].deliveries
      /\ job'[r].state = "queued" => job[r].deliveries <= RetryLimit
      /\ \A s \in Request : s # r => job'[s] = job[s]
  BY <1>1, <1>2 DEF Inv, TypeOK, JobRow, JobState
<1> USE DEF tableVars, clientVars
<1>4. TypeOK'
  BY <1>1, <1>3 DEF Inv, TypeOK, JobRow
<1>5. Bounded'
  BY <1>1, <1>3, HandlerIs DEF Inv, Bounded
<1>6. Ownership'
  <2>1. \A s \in Request : Owns(s)' <=> Owns(s)
    BY <1>1, <1>3 DEF Owns
  <2>2. request[r] # "redeemed"
    BY <1>1 DEF Inv, Ownership
  <2> QED  BY <1>1, <1>3, <2>1, <2>2, HandlerIs DEF Inv, Ownership
<1>7. Serial'
  <2> SUFFICES ASSUME ~overlapped', NEW h \in Handler, handler[h].at \in Running
               PROVE  FALSE
    BY <1>1 DEF Serial
  <2>1. Current(h) /\ h[1] \in Request
    BY <1>1, HandlerIs DEF Inv, Serial
  <2>2. h[1] = r
    BY <1>1, <2>1 DEF Inv, Ownership, Owns, Current
  <2>3. h = <<r, job[r].deliveries>>
    BY <2>1, <2>2 DEF Current, Handler
  <2> QED  BY <1>1, <2>3
<1>8. Locked' /\ ReversedOnce' /\ IssuedCodeWorks'
  BY <1>1 DEF Inv, Locked, ReversedOnce, IssuedCodeWorks
<1>9. Minted' /\ Undecided'
  BY <1>1 DEF Inv, Minted, Undecided
<1> QED  BY <1>4, <1>5, <1>6, <1>7, <1>8, <1>9 DEF Inv

-----------------------------------------------------------------------------
(* The invariant.                                                          *)

LEMMA InitInv == Init => Inv
<1> SUFFICES ASSUME Init PROVE Inv
  OBVIOUS
<1> USE RedemptionConstants DEF Init
<1>1. At("idle") \in HandlerState /\ At("idle").at = "idle"
      /\ At("idle").calls = 0 /\ At("idle").streak = 0
  <2>1. 0 \in 0..MaxAttempts /\ "idle" \in Step
    BY DEF Step
  <2> QED  BY <2>1 DEF At, HandlerState
<1>2. [state |-> "none", deliveries |-> 0] \in JobRow
  BY DEF JobRow, JobState
<1>3. \A h \in Handler : handler[h] = At("idle")
  OBVIOUS
<1>4. TypeOK
  BY <1>1, <1>2 DEF TypeOK, RequestState, JobRow, HandlerState
<1>5. Bounded
  BY <1>1, <1>3 DEF Bounded
<1>6. Ownership
  <2>1. \A r \in Request : ~Owns(r) /\ job[r].deliveries = 0
    BY DEF Owns
  <2>2. stored # "ok"
    BY DEF Response
  <2> QED  BY <1>1, <1>3, <2>1, <2>2 DEF Ownership
<1>7. Locked
  BY <1>1, <1>3 DEF Locked
<1>8. ReversedOnce /\ IssuedCodeWorks
  BY DEF ReversedOnce, IssuedCodeWorks
<1>9. Minted /\ Serial /\ Undecided
  BY <1>1, <1>3 DEF Minted, Serial, Undecided, Running, PastLoad
<1> QED  BY <1>4, <1>5, <1>6, <1>7, <1>8, <1>9 DEF Inv

LEMMA StutterKeeps == Inv /\ UNCHANGED vars => Inv'
<1> SUFFICES ASSUME Inv, UNCHANGED vars PROVE Inv'
  OBVIOUS
<1> USE DEF vars, clientVars, tableVars
<1>1. TypeOK' /\ Bounded'
  BY DEF Inv, TypeOK, Bounded
<1>2. Ownership' /\ Locked'
  BY DEF Inv, Ownership, Owns, Locked
<1>3. ReversedOnce' /\ IssuedCodeWorks' /\ Minted'
  BY DEF Inv, ReversedOnce, IssuedCodeWorks, Minted
<1>4. Serial' /\ Undecided'
  BY DEF Inv, Serial, Undecided, Current
<1> QED  BY <1>1, <1>2, <1>3, <1>4 DEF Inv

LEMMA StepInv == Inv /\ [Next]_vars => Inv'
<1> SUFFICES ASSUME Inv, Next PROVE Inv'
  BY StutterKeeps
<1>1. CASE \E r \in Request : RequestStep(r)
  BY <1>1, ClientKeeps, RedeemKeeps, EnqueueKeeps DEF RequestStep
<1>2. CASE \E r \in Request : Deliver(r) \/ Expire(r)
  BY <1>2, DeliverKeeps, ExpireKeeps
<1>3. CASE \E h \in Handler : HandlerStep(h)
  BY <1>3, LoadKeeps, FindKeeps, MintKeeps, CallFailsKeeps, ThrottledKeeps, SaveKeeps,
     FailKeeps, CheckKeeps, GiveBackKeeps DEF HandlerStep
<1>4. CASE \E h \in Handler : StatementFails(h)
  BY <1>4, StatementFailsKeeps
<1>5. CASE WorkerDies
  BY <1>5, WorkerDiesKeeps
<1> QED  BY <1>1, <1>2, <1>3, <1>4, <1>5 DEF Next

(* Every state of a redemption satisfies the invariant.                    *)
THEOREM Invariance == Spec => []Inv
BY InitInv, StepInv, PTL DEF Spec

(* The rows and the local state of the handlers have their types: the      *)
(* counters of a worker's calls never leave their bounds, and no job is    *)
(* delivered more than RetryLimit + 1 times.                               *)
THEOREM TypeCorrect == Spec => []TypeOK
<1>1. Inv => TypeOK
  BY DEF Inv
<1> QED  BY <1>1, Invariance, PTL

(* Property 5: the requests that share a key spend once and enqueue one    *)
(* job, and a stored success means that the points were spent.             *)
THEOREM SpendsOnce == Spec => []SpentOnce
<1>1. Inv => SpentOnce
  <2> SUFFICES ASSUME Inv PROVE SpentOnce
    OBVIOUS
  <2> DEFINE Enqueued == {r \in Request : job[r].state # "none"}
  <2>1. spends \in {0, 1} /\ (stored = "ok" => spends = 1)
    BY DEF Inv, Ownership
  <2>2. CASE Enqueued = {}
    BY <2>1, <2>2, FS_EmptySet DEF SpentOnce
  <2>3. CASE Enqueued # {}
    <3>1. PICK r \in Request : job[r].state # "none"
      BY <2>3
    <3>2. Enqueued = {r} /\ spends = 1
      BY <3>1 DEF Inv, Ownership, Owns
    <3>3. Cardinality(Enqueued) = 1
      BY <3>2, FS_Singleton
    <3> QED  BY <2>1, <3>2, <3>3 DEF SpentOnce
  <2> QED  BY <2>2, <2>3
<1> QED  BY <1>1, Invariance, PTL

(* Req 3.9: the points come back at most once, and a failed redemption has *)
(* had them back, whatever handlers overlap.                               *)
THEOREM ReversesOnce == Spec => []ReversedOnce
<1>1. Inv => ReversedOnce
  BY DEF Inv
<1> QED  BY <1>1, Invariance, PTL

(* A redemption that says issued has a saved code that exists at Shopify.  *)
THEOREM IssuedCodesWork == Spec => []IssuedCodeWorks
<1>1. Inv => IssuedCodeWorks
  BY DEF Inv
<1> QED  BY <1>1, Invariance, PTL

-----------------------------------------------------------------------------
(* The refinement.                                                         *)

LEMMA PromiseInit == Init => Promise!Init
BY DEF Init, Promise!Init

(* Spending is the only step that changes what was spent.                  *)
LEMMA RedeemSpends ==
    ASSUME Inv, NEW r \in Request, Redeem(r)
    PROVE  Promise!Spend
<1>1. spends = 0 /\ spends' = 1 /\ UNCHANGED <<codes, reversals, overlapped>>
  BY DEF Redeem, AlreadyRedeemed, Inv, Ownership
<1> QED  BY <1>1 DEF Promise!Spend

(* A code is saved after the points came back only by a handler that       *)
(* outlived its delivery, or beside one.                                   *)
LEMMA SaveHandsOver ==
    ASSUME Inv, NEW h \in Handler, Save(h)
    PROVE  Promise!HandOver
<1>1. /\ handler[h].at \in Running /\ handler[h].at \in PastLoad
      /\ codes' = codes \cup {h} /\ UNCHANGED <<spends, reversals, overlapped>>
  BY DEF Save, Running, PastLoad
<1>2. spends > 0
  BY <1>1, RunsAfterSpend
<1>3. reversals > 0 => overlapped
  BY <1>1 DEF Inv, Undecided
<1> QED  BY <1>1, <1>2, <1>3 DEF Promise!HandOver

(* The same holds of the points that come back after a code.               *)
LEMMA GiveBackReturns ==
    ASSUME Inv, NEW h \in Handler, GiveBack(h)
    PROVE  Promise!GiveBack
<1>1. /\ handler[h].at \in Running /\ handler[h].at \in PastLoad
      /\ reversals' > 0 /\ UNCHANGED <<spends, codes, overlapped>>
  BY DEF GiveBack, Running, PastLoad, Inv, TypeOK, Locked
<1>2. spends > 0
  BY <1>1, RunsAfterSpend
<1>3. codes # {} => overlapped
  BY <1>1 DEF Inv, Undecided
<1> QED  BY <1>1, <1>2, <1>3 DEF Promise!GiveBack

LEMMA ExpireOutlives ==
    ASSUME NEW r \in Request, Inv, Expire(r)
    PROVE  Promise!Outlive \/ UNCHANGED Promise!vars
<1>1. /\ overlapped' = (overlapped \/ handler[<<r, job[r].deliveries>>].at \in Running)
      /\ UNCHANGED <<spends, codes, reversals>>
  BY DEF Expire, tableVars
<1>2. CASE overlapped'
  BY <1>1, <1>2 DEF Promise!Outlive
<1>3. CASE ~overlapped'
  <2>1. overlapped = FALSE /\ overlapped' = FALSE
    BY <1>1, <1>3 DEF Inv, TypeOK
  <2> QED  BY <1>1, <2>1 DEF Promise!vars
<1> QED  BY <1>2, <1>3

LEMMA OthersStutter ==
    ASSUME UNCHANGED <<spends, codes, reversals, overlapped>>
    PROVE  UNCHANGED Promise!vars
BY DEF Promise!vars

LEMMA PromiseStep == Inv /\ [Next]_vars => [Promise!Next]_(Promise!vars)
<1> SUFFICES ASSUME Inv, [Next]_vars
             PROVE  Promise!Next \/ UNCHANGED Promise!vars
  OBVIOUS
<1> USE DEF Promise!Next
<1>1. CASE \E r \in Request : Redeem(r)
  BY <1>1, RedeemSpends
<1>2. CASE \E r \in Request : Expire(r)
  BY <1>2, ExpireOutlives
<1>3. CASE \E h \in Handler : Save(h)
  BY <1>3, SaveHandsOver
<1>4. CASE \E h \in Handler : GiveBack(h)
  BY <1>4, GiveBackReturns
<1>5. CASE UNCHANGED <<spends, codes, reversals, overlapped>>
  BY <1>5, OthersStutter
<1>6. ASSUME NEW r \in Request,
             \/ Arrive(r) \/ Replay(r) \/ Refuse(r) \/ RedeemFails(r)
             \/ Enqueue(r) \/ EnqueueFails(r) \/ Deliver(r)
      PROVE  UNCHANGED <<spends, codes, reversals, overlapped>>
  BY <1>6 DEF Arrive, Replay, Refuse, RedeemFails, Enqueue, EnqueueFails, Deliver, tableVars
<1>7. ASSUME NEW h \in Handler,
             \/ Load(h) \/ Find(h) \/ Mint(h) \/ CallFails(h) \/ Throttled(h)
             \/ Fail(h) \/ Check(h) \/ StatementFails(h)
      PROVE  UNCHANGED <<spends, codes, reversals, overlapped>>
  BY <1>7 DEF Load, Find, Mint, CallFails, Throttled, Fail, Check, StatementFails, tableVars
<1>8. WorkerDies \/ UNCHANGED vars => UNCHANGED <<spends, codes, reversals, overlapped>>
  BY DEF WorkerDies, vars, tableVars
<1> QED
  BY <1>1, <1>2, <1>3, <1>4, <1>5, <1>6, <1>7, <1>8 DEF Next, RequestStep, HandlerStep

(* Every redemption keeps the promise: the points are spent once, and a    *)
(* code and a reversal come together only if a handler has outlived its    *)
(* delivery.                                                               *)
THEOREM ImplementsSettlement == Spec => KeepsPromise
<1> USE DEF KeepsPromise, Spec, Promise!Spec
<1> QED  BY InitInv, StepInv, PromiseInit, PromiseStep, PTL
=============================================================================
