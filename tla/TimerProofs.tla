---------------------------- MODULE TimerProofs ----------------------------
(***************************************************************************)
(* Proofs about TimerManager, for any timers, pollers, intervals and       *)
(* bounds, and for both outcomes of the double unlock.                     *)
(*                                                                         *)
(* That cancel() really stops a one-shot timer rests on m_cb: it is set    *)
(* only while nothing of the timer was collected, and collecting clears it *)
(* in the critical section that collects (CbInv).  A poller's collection   *)
(* is empty except before it schedules, so nothing is overwritten, and the *)
(* clock value it uses is never ahead of the clock (PollInv).              *)
(***************************************************************************)
EXTENDS TimerManager, TLAPS

InFlight(x) == \E p \in Pollers : x \in flight[p]

CbInv ==
    \A x \in Timers :
        /\ m_cb[x] => x \in m_timers /\ x \notin cancelled
        /\ m_cb[x] /\ ~m_recurring[x] => runs[x] = 0 /\ ~InFlight(x)
        /\ x \notin made => runs[x] = 0 /\ ~InFlight(x)

PollInv ==
    \A p \in Pollers :
        /\ step[p] # "schedule" => flight[p] = {}
        /\ now[p] <= clock

Inv == TypeOK /\ CbInv /\ PollInv /\ OneShotOnce /\ CancelledNeverRuns

LEMMA InvInit == Init => Inv
<1> SUFFICES ASSUME Init PROVE Inv
  OBVIOUS
<1> USE TimerAssumption DEF TimerAssumption, Init
<1>1. TypeOK
  BY DEF TypeOK, LockStates
<1> QED
  BY <1>1
  DEF Inv, CbInv, PollInv, OneShotOnce, CancelledNeverRuns, InFlight
LEMMA InvStep == Inv /\ [Next]_vars => Inv'
<1> SUFFICES ASSUME Inv, [Next]_vars PROVE Inv'
  OBVIOUS
<1> USE TimerAssumption
    DEF TimerAssumption, Inv, TypeOK, LockStates, timerVars, pollVars
<1>1. ASSUME Tick PROVE Inv'
  <2>1. TypeOK'
    BY <1>1 DEF Tick
  <2>2. CbInv'
    BY <1>1 DEF Tick, CbInv, PollInv, InFlight
  <2>3. PollInv'
    BY <1>1 DEF Tick, PollInv
  <2>4. OneShotOnce'
    BY <1>1 DEF Tick, CbInv, PollInv, OneShotOnce, InFlight
  <2>5. CancelledNeverRuns'
    BY <1>1 DEF Tick, CbInv, PollInv, CancelledNeverRuns, InFlight
  <2> QED
    BY <2>1, <2>2, <2>3, <2>4, <2>5
<1>2. ASSUME NEW x \in Timers, NEW ms \in Delays, NEW b \in BOOLEAN,
             AddTimer(x, ms, b)
      PROVE  Inv'
  <2>1. TypeOK'
    BY <1>2 DEF AddTimer, Deadline
  <2>2. CbInv'
    BY <1>2 DEF AddTimer, Deadline, CbInv, PollInv, InFlight
  <2>3. PollInv'
    BY <1>2 DEF AddTimer, Deadline, PollInv
  <2>4. OneShotOnce'
    BY <1>2 DEF AddTimer, Deadline, CbInv, PollInv, OneShotOnce, InFlight
  <2>5. CancelledNeverRuns'
    BY <1>2
    DEF AddTimer, Deadline, CbInv, PollInv, CancelledNeverRuns, InFlight
  <2> QED
    BY <2>1, <2>2, <2>3, <2>4, <2>5
<1>3. ASSUME NEW x \in Timers, NEW ms \in Delays, NEW b \in BOOLEAN,
             Reset(x, ms, b)
      PROVE  Inv'
  <2>1. TypeOK'
    BY <1>3 DEF Reset, Deadline
  <2>2. CbInv'
    BY <1>3 DEF Reset, Deadline, CbInv, PollInv, InFlight
  <2>3. PollInv'
    BY <1>3 DEF Reset, Deadline, PollInv
  <2>4. OneShotOnce'
    BY <1>3 DEF Reset, Deadline, CbInv, PollInv, OneShotOnce, InFlight
  <2>5. CancelledNeverRuns'
    BY <1>3 DEF Reset, Deadline, CbInv, PollInv, CancelledNeverRuns, InFlight
  <2> QED
    BY <2>1, <2>2, <2>3, <2>4, <2>5
<1>4. ASSUME NEW x \in Timers,
             Cancel(x)
      PROVE  Inv'
  <2>1. TypeOK'
    BY <1>4 DEF Cancel, ClearCb, CbInv
  <2>2. CbInv'
    BY <1>4 DEF Cancel, ClearCb, CbInv, PollInv, InFlight
  <2>3. PollInv'
    BY <1>4 DEF Cancel, ClearCb, PollInv
  <2>4. OneShotOnce'
    BY <1>4 DEF Cancel, ClearCb, CbInv, PollInv, OneShotOnce, InFlight
  <2>5. CancelledNeverRuns'
    BY <1>4 DEF Cancel, ClearCb, CbInv, PollInv, CancelledNeverRuns, InFlight
  <2> QED
    BY <2>1, <2>2, <2>3, <2>4, <2>5
<1>5. ASSUME NEW x \in Timers,
             Refresh(x)
      PROVE  Inv'
  <2>1. TypeOK'
    BY <1>5 DEF Refresh, ClearCb, Deadline
  <2>2. CbInv'
    BY <1>5 DEF Refresh, ClearCb, Deadline, CbInv, PollInv, InFlight
  <2>3. PollInv'
    BY <1>5 DEF Refresh, ClearCb, Deadline, PollInv
  <2>4. OneShotOnce'
    BY <1>5
    DEF Refresh, ClearCb, Deadline, CbInv, PollInv, OneShotOnce, InFlight
  <2>5. CancelledNeverRuns'
    BY <1>5
    DEF Refresh, ClearCb, Deadline, CbInv, PollInv, CancelledNeverRuns,
        InFlight
  <2> QED
    BY <2>1, <2>2, <2>3, <2>4, <2>5
<1>6. ASSUME NEW p \in Pollers,
             ReadNow(p)
      PROVE  Inv'
  <2>1. TypeOK'
    BY <1>6 DEF ReadNow
  <2>2. CbInv'
    BY <1>6 DEF ReadNow, CbInv, PollInv, InFlight
  <2>3. PollInv'
    BY <1>6 DEF ReadNow, PollInv
  <2>4. OneShotOnce'
    BY <1>6 DEF ReadNow, CbInv, PollInv, OneShotOnce, InFlight
  <2>5. CancelledNeverRuns'
    BY <1>6 DEF ReadNow, CbInv, PollInv, CancelledNeverRuns, InFlight
  <2> QED
    BY <2>1, <2>2, <2>3, <2>4, <2>5
<1>7. ASSUME NEW p \in Pollers,
             TestEmpty(p)
      PROVE  Inv'
  <2>1. TypeOK'
    BY <1>7 DEF TestEmpty, Return
  <2>2. CbInv'
    BY <1>7 DEF TestEmpty, Return, CbInv, PollInv, InFlight
  <2>3. PollInv'
    BY <1>7 DEF TestEmpty, Return, PollInv
  <2>4. OneShotOnce'
    BY <1>7 DEF TestEmpty, Return, CbInv, PollInv, OneShotOnce, InFlight
  <2>5. CancelledNeverRuns'
    BY <1>7 DEF TestEmpty, Return, CbInv, PollInv, CancelledNeverRuns, InFlight
  <2> QED
    BY <2>1, <2>2, <2>3, <2>4, <2>5
<1>8. ASSUME NEW p \in Pollers,
             Collect(p)
      PROVE  Inv'
  <2>1. TypeOK'
    BY <1>8 DEF Collect, Expired, TimersAfter, CbAfter, Again, Deadline
  <2>2. CbInv'
    BY <1>8
    DEF Collect, Expired, TimersAfter, CbAfter, Again, Deadline, CbInv,
        PollInv, InFlight
  <2>3. PollInv'
    BY <1>8
    DEF Collect, Expired, TimersAfter, CbAfter, Again, Deadline, PollInv
  <2>4. OneShotOnce'
    BY <1>8
    DEF Collect, Expired, TimersAfter, CbAfter, Again, Deadline, CbInv,
        PollInv, OneShotOnce, InFlight
  <2>5. CancelledNeverRuns'
    BY <1>8
    DEF Collect, Expired, TimersAfter, CbAfter, Again, Deadline, CbInv,
        PollInv, CancelledNeverRuns, InFlight
  <2> QED
    BY <2>1, <2>2, <2>3, <2>4, <2>5
<1>9. ASSUME NEW p \in Pollers,
             ScheduleExpired(p)
      PROVE  Inv'
  <2>1. TypeOK'
    BY <1>9 DEF ScheduleExpired, Return
  <2>2. CbInv'
    BY <1>9 DEF ScheduleExpired, Return, CbInv, PollInv, InFlight
  <2>3. PollInv'
    BY <1>9 DEF ScheduleExpired, Return, PollInv
  <2>4. OneShotOnce'
    BY <1>9 DEF ScheduleExpired, Return, CbInv, PollInv, OneShotOnce, InFlight
  <2>5. CancelledNeverRuns'
    BY <1>9
    DEF ScheduleExpired, Return, CbInv, PollInv, CancelledNeverRuns, InFlight
  <2> QED
    BY <2>1, <2>2, <2>3, <2>4, <2>5
<1>10. CASE UNCHANGED vars
  BY <1>10
  DEF vars, CbInv, PollInv, OneShotOnce, CancelledNeverRuns, InFlight
<1> QED
  BY <1>1, <1>2, <1>3, <1>4, <1>5, <1>6, <1>7, <1>8, <1>9, <1>10 DEF Next, Poll

LEMMA InvAlways == Spec => []Inv
<1>1. Init => Inv
  BY InvInit
<1>2. Inv /\ [Next]_vars => Inv'
  BY InvStep
<1> QED
  BY <1>1, <1>2, PTL DEF Spec

(* The variables of the timer manager keep their types.                    *)
THEOREM TimerTypes == Spec => []TypeOK
<1>1. Inv => TypeOK
  BY DEF Inv
<1> QED
  BY <1>1, InvAlways, PTL

(* Timer::cancel never erases end(): find() always finds the timer.        *)
THEOREM CancelIsSafe == Spec => []CancelErases
<1>1. Inv => CancelErases
  BY DEF Inv, CbInv, CancelErases
<1> QED
  BY <1>1, InvAlways, PTL

(* A one-shot timer whose cancel() returned true never runs, with any      *)
(* number of threads in getExpiredCb.                                      *)
THEOREM CancelWins == Spec => []CancelledNeverRuns
<1>1. Inv => CancelledNeverRuns
  BY DEF Inv
<1> QED
  BY <1>1, InvAlways, PTL

(* A one-shot timer runs at most once, with any number of threads in       *)
(* getExpiredCb.                                                           *)
THEOREM OneShotCorrect == Spec => []OneShotOnce
<1>1. Inv => OneShotOnce
  BY DEF Inv
<1> QED
  BY <1>1, InvAlways, PTL

(* No callback is collected before its time, although the clock value used *)
(* was read before the lock was taken.                                     *)
THEOREM NeverEarly == Spec => NotEarly
<1> DEFINE Due == \A p \in Pollers : \A x \in flight'[p] \ flight[p] :
                      m_next[x] <= clock
<1>1. Inv /\ [Next]_vars => [Due]_vars
  <2> SUFFICES ASSUME Inv, Next, NEW p \in Pollers,
                      NEW x \in flight'[p] \ flight[p]
               PROVE  m_next[x] <= clock
    OBVIOUS
  <2>1. PICK q \in Pollers : Collect(q)
    BY DEF Next, Tick, AddTimer, Reset, Cancel, Refresh, Poll, ReadNow,
           TestEmpty, ScheduleExpired, Inv, TypeOK, pollVars
  <2>2. p = q /\ x \in Expired(now[p])
    BY <2>1 DEF Collect, Inv, TypeOK
  <2> QED
    BY <2>2 DEF Expired, Inv, TypeOK, PollInv
<1> QED
  BY <1>1, InvAlways, PTL DEF Spec, NotEarly
=============================================================================
