---------------------------- MODULE TimerManager ---------------------------
(***************************************************************************)
(* TimerManager and Timer: an ordered set of timers behind a reader-writer *)
(* lock, used by the threads that add, cancel, reset and refresh timers    *)
(* and by the idle fibers, which collect expired callbacks and schedule    *)
(* them.                                                                   *)
(*                                                                         *)
(* A section under the write lock is one step.  getExpiredCb reads the     *)
(* clock before it takes any lock and tests for an empty set under the     *)
(* read lock before it takes the write lock, so it is three steps, and the *)
(* callbacks it returns are scheduled in a fourth.  Timer::reset takes the *)
(* write lock twice and releases it twice: what the second release does to *)
(* the lock is undefined, and DoubleUnlock names the outcomes considered.  *)
(* The set is ordered by m_next; as the expired timers are a prefix of it, *)
(* a plain set is enough here.                                             *)
(***************************************************************************)
EXTENDS Naturals

CONSTANTS
    Timers,        \* the timers the program may create
    Pollers,       \* the threads whose idle fiber collects timers
    Delays,        \* the intervals used, in clock ticks
    MaxTime,       \* bound: where the clock stops
    MaxOps,        \* bound: how many reset and refresh calls there are
    Ops,           \* which operations the program uses besides addTimer
    DoubleUnlock   \* what unlocking an unlocked pthread_rwlock may do

LockStates == {"sound", "broken"}

ASSUME TimerAssumption ==
    /\ Delays \subseteq Nat
    /\ MaxTime \in Nat
    /\ MaxOps \in Nat
    /\ DoubleUnlock \subseteq LockStates

VARIABLES
    clock,         \* getCurrentMs()
    m_timers,      \* TimerManager::m_timers
    made,          \* the timers created so far
    m_cb,          \* per timer: is m_cb set?
    m_next, m_ms, m_recurring,
    m_mutex,       \* "broken": write locks are never granted again
    step, now,     \* per poller: place in getExpiredCb, and its local now
    flight,        \* per poller: timers whose callbacks it has collected
    runs,          \* per timer: callbacks scheduled: 0, 1, or 2 for more
    cancelled,     \* timers for which cancel() returned true
    ops            \* bounded counter

timerVars == <<made, m_cb, m_next, m_ms, m_recurring>>
pollVars == <<step, now, flight, runs>>
vars == <<clock, m_timers, timerVars, m_mutex, pollVars, cancelled, ops>>

TypeOK ==
    /\ clock \in Nat
    /\ m_timers \subseteq made
    /\ made \subseteq Timers
    /\ m_cb \in [Timers -> BOOLEAN]
    /\ m_next \in [Timers -> Nat]
    /\ m_ms \in [Timers -> Nat]
    /\ m_recurring \in [Timers -> BOOLEAN]
    /\ m_mutex \in LockStates
    /\ step \in [Pollers -> {"poll", "empty", "collect", "schedule"}]
    /\ now \in [Pollers -> Nat]
    /\ flight \in [Pollers -> SUBSET Timers]
    /\ runs \in [Timers -> 0..2]
    /\ cancelled \subseteq made
    /\ ops \in Nat

Init ==
    /\ clock = 0
    /\ m_timers = {}
    /\ made = {}
    /\ m_cb = [x \in Timers |-> FALSE]
    /\ m_next = [x \in Timers |-> 0]
    /\ m_ms = [x \in Timers |-> 0]
    /\ m_recurring = [x \in Timers |-> FALSE]
    /\ m_mutex = "sound"
    /\ step = [p \in Pollers |-> "poll"]
    /\ now = [p \in Pollers |-> 0]
    /\ flight = [p \in Pollers |-> {}]
    /\ runs = [x \in Timers |-> 0]
    /\ cancelled = {}
    /\ ops = 0

Tick ==
    /\ clock < MaxTime
    /\ clock' = clock + 1
    /\ UNCHANGED <<m_timers, timerVars, m_mutex, pollVars, cancelled, ops>>

-----------------------------------------------------------------------------
(* The operations of the program's threads *)

Deadline(base, ms) == base + ms

(* addTimer(): a new timer, inserted under the write lock.                 *)
AddTimer(x, ms, recurring) ==
    /\ x \notin made
    /\ m_mutex = "sound"
    /\ made' = made \cup {x}
    /\ m_cb' = [m_cb EXCEPT ![x] = TRUE]
    /\ m_ms' = [m_ms EXCEPT ![x] = ms]
    /\ m_next' = [m_next EXCEPT ![x] = Deadline(clock, ms)]
    /\ m_recurring' = [m_recurring EXCEPT ![x] = recurring]
    /\ m_timers' = m_timers \cup {x}
    /\ UNCHANGED <<clock, m_mutex, pollVars, cancelled, ops>>

ClearCb(x) == m_cb' = [m_cb EXCEPT ![x] = FALSE]

(* cancel() when it returns true; otherwise it changes nothing.            *)
Cancel(x) ==
    /\ "cancel" \in Ops
    /\ m_mutex = "sound"
    /\ m_cb[x]
    /\ ClearCb(x)
    /\ m_timers' = m_timers \ {x}
    /\ cancelled' = cancelled \cup {x}
    /\ UNCHANGED <<clock, made, m_next, m_ms, m_recurring, m_mutex, pollVars,
                   ops>>

(* reset(ms, from_now) when it returns true: erase, change, addTimer.      *)
Reset(x, ms, from_now) ==
    /\ "reset" \in Ops
    /\ ops < MaxOps
    /\ m_mutex = "sound"
    /\ m_cb[x]
    /\ x \in m_timers
    /\ m_ms' = [m_ms EXCEPT ![x] = ms]
    /\ m_next' = [m_next EXCEPT ![x] =
                     IF from_now THEN Deadline(clock, ms) ELSE @]
    /\ m_mutex' \in DoubleUnlock
    /\ ops' = ops + 1
    /\ UNCHANGED <<clock, m_timers, made, m_cb, m_recurring, pollVars,
                   cancelled>>

(* refresh(): the callback is cleared, the timer stays in the set.         *)
Refresh(x) ==
    /\ "refresh" \in Ops
    /\ ops < MaxOps
    /\ m_mutex = "sound"
    /\ m_cb[x]
    /\ ClearCb(x)
    /\ m_next' = [m_next EXCEPT ![x] =
                     IF x \in m_timers THEN Deadline(clock, m_ms[x]) ELSE @]
    /\ ops' = ops + 1
    /\ UNCHANGED <<clock, m_timers, made, m_ms, m_recurring, m_mutex, pollVars,
                   cancelled>>

-----------------------------------------------------------------------------
(* getExpiredCb() on an idle fiber *)

ReadNow(p) ==
    /\ step[p] = "poll"
    /\ now' = [now EXCEPT ![p] = clock]
    /\ step' = [step EXCEPT ![p] = "empty"]
    /\ UNCHANGED <<clock, m_timers, timerVars, m_mutex, flight, runs,
                   cancelled, ops>>

(* Back in idle(), the local variable now is gone.                         *)
Return(p) ==
    /\ step' = [step EXCEPT ![p] = "poll"]
    /\ now' = [now EXCEPT ![p] = 0]

TestEmpty(p) ==
    /\ step[p] = "empty"
    /\ \/ /\ m_timers = {}
          /\ Return(p)
       \/ /\ m_timers # {}
          /\ step' = [step EXCEPT ![p] = "collect"]
          /\ UNCHANGED now
    /\ UNCHANGED <<clock, m_timers, timerVars, m_mutex, flight, runs,
                   cancelled, ops>>

(* Faults: a timer expires one tick early; one due now does not expire.    *)
ExpiredEarly(n) == {x \in m_timers : m_next[x] <= n + 1}
ExpiredLate(n) == {x \in m_timers : m_next[x] < n}

(* lower_bound and the loop behind it: the timers due at time n.           *)
Expired(n) == {x \in m_timers : m_next[x] <= n}

(* Faults: a one-shot timer keeps its callback; no timer is inserted       *)
(* again.                                                                  *)
KeepsCb(x) == m_cb[x]
InsertsNone(e) == m_timers \ e

(* Whether a collected timer x is kept, what becomes of its callback, and  *)
(* of the set when the timers e are collected.                             *)
Again(x) == m_recurring[x]
CbAfter(x) == m_cb[x] /\ Again(x)
TimersAfter(e) == m_timers \ {x \in e : ~Again(x)}

Collect(p) ==
    /\ step[p] = "collect"
    /\ m_mutex = "sound"
    /\ LET e == Expired(now[p]) IN
       /\ flight' = [flight EXCEPT ![p] = {x \in e : m_cb[x]}]
       /\ m_timers' = TimersAfter(e)
       /\ m_cb' = [x \in Timers |-> IF x \in e THEN CbAfter(x) ELSE m_cb[x]]
       /\ m_next' = [x \in Timers |->
                        IF x \in e /\ Again(x)
                        THEN Deadline(now[p], m_ms[x]) ELSE m_next[x]]
    /\ step' = [step EXCEPT ![p] = "schedule"]
    /\ UNCHANGED <<clock, made, m_ms, m_recurring, m_mutex, now, runs,
                   cancelled, ops>>

(* idle() schedules what it got and calls getExpiredCb again later.        *)
ScheduleExpired(p) ==
    /\ step[p] = "schedule"
    /\ runs' = [x \in Timers |->
                   IF x \in flight[p] /\ runs[x] < 2 THEN runs[x] + 1
                   ELSE runs[x]]
    /\ flight' = [flight EXCEPT ![p] = {}]
    /\ Return(p)
    /\ UNCHANGED <<clock, m_timers, timerVars, m_mutex, cancelled, ops>>

Poll(p) == ReadNow(p) \/ TestEmpty(p) \/ Collect(p) \/ ScheduleExpired(p)

Next ==
    \/ Tick
    \/ \E x \in Timers, ms \in Delays, b \in BOOLEAN :
          AddTimer(x, ms, b) \/ Reset(x, ms, b)
    \/ \E x \in Timers : Cancel(x) \/ Refresh(x)
    \/ \E p \in Pollers : Poll(p)

Spec == Init /\ [][Next]_vars

(* Time passes and every idle fiber keeps polling.                         *)
FairSpec == Spec /\ WF_vars(Tick) /\ \A p \in Pollers : WF_vars(Poll(p))

-----------------------------------------------------------------------------
(* Properties *)

(* A timer with a callback is in the set: Timer::cancel erases the result  *)
(* of find() without comparing it with end().                              *)
CancelErases == \A x \in Timers : m_cb[x] => x \in m_timers

(* When cancel() has returned true for a one-shot timer, its callback was  *)
(* not and never will be scheduled, whatever an idle fiber is doing.       *)
CancelledNeverRuns ==
    \A x \in cancelled : ~m_recurring[x] =>
        runs[x] = 0 /\ \A p \in Pollers : x \notin flight[p]

(* The callback of a one-shot timer is scheduled at most once, with any    *)
(* number of threads in getExpiredCb.                                      *)
OneShotOnce ==
    \A x \in Timers : ~m_recurring[x] =>
        /\ runs[x] < 2
        /\ \A p \in Pollers : x \in flight[p] =>
              runs[x] = 0 /\ \A q \in Pollers : x \in flight[q] => q = p

(* getExpiredCb never returns a callback before its time, although it uses *)
(* a clock value read before it got the lock.                              *)
NotEarly ==
    [][\A p \in Pollers : \A x \in flight'[p] \ flight[p] :
          m_next[x] <= clock]_vars

(* m_next is the time of the next trigger: a timer with a callback and due *)
(* within the time considered has its callback scheduled, or is cancelled, *)
(* or is put off beyond that time.                                         *)
TimerFires ==
    \A x \in Timers :
        m_cb[x] /\ m_next[x] <= MaxTime /\ runs[x] = 0 ~>
            runs[x] > 0 \/ x \in cancelled \/ m_next[x] > MaxTime

(* The same for programs that use refresh(), which leaves a timer in the   *)
(* set without a callback, as long as no reset() has broken the lock.      *)
FiresUnlessRefreshed ==
    \A x \in Timers :
        m_cb[x] /\ m_next[x] <= MaxTime /\ runs[x] = 0 ~>
            \/ runs[x] > 0 \/ x \in cancelled \/ m_next[x] > MaxTime
            \/ (x \in m_timers /\ ~m_cb[x])
            \/ m_mutex = "broken"
=============================================================================
