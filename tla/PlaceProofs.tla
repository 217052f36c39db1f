---------------------------- MODULE PlaceProofs ----------------------------
(***************************************************************************)
(* No task is lost: proofs of OnePlace and JoinedAllDone, for any threads, *)
(* any tasks and any bounds, however early a task is woken.                *)
(*                                                                         *)
(* TaskInv of SchedulerProofs says what follows from a task being at some  *)
(* place; here every task is at one (PlaceInv).  That is an invariant of   *)
(* the abstract TaskPool and carried over by the refinement.  The promise  *)
(* of stop() needs in addition who is left to take what is still in the    *)
(* list once stop() has seen the list empty (StopInv).                     *)
(***************************************************************************)
EXTENDS SchedulerProofs

(* f is at one of the places that TaskPool knows.                          *)
Placed(f) ==
    \/ f \in fresh
    \/ InList(f)
    \/ \E t \in Threads : Active[t] = f
    \/ f \in waker
    \/ f \in Finished

PlaceInv == \A f \in Tasks : Placed(f)

(* Thread t will lock the task list again before it ends.                  *)
PollsAgain(t) ==
    \/ pc[t] \in {"poll", "resume", "swapin", "idling"} \cup OnTask
    \/ pc[t] = "idle" /\ m_ucp[t] # "end"

(* What is left to do once stop() has seen the list empty: a task that was *)
(* never suspended gets into the list only by a running task, and so by a  *)
(* thread that polls again.                                                *)
StopInv ==
    /\ \A f \in waker : waits[f] > 0
    /\ owner \in {"joining", "stopped", "destroyed"} =>
          \A f \in Tasks : InList(f) /\ waits[f] = 0 =>
              \E t \in Threads : PollsAgain(t)
    /\ owner \in {"stopped", "destroyed"} => Joined

-----------------------------------------------------------------------------
(* No task leaves the places of TaskPool *)

LEMMA PlaceInit == Init => PlaceInv
  BY DEF Init, PlaceInv, Placed

(* Every step of TaskPool moves a task from one of its places to another.  *)
LEMMA PlaceStep ==
    ASSUME BaseInv, TaskInv, PlaceInv, [Next]_vars
    PROVE  PlaceInv'
<1> USE DEF PlaceInv, Placed
<1>1. [Pool!Next]_(Pool!vars)
  BY PoolStep
<1>2. m_tasks \in Seq(Tasks)
  BY DEF BaseInv, TypeOK
<1>3. Active \in [Threads -> Tasks \cup {Main}] /\ Main \notin Tasks
  <2>1. \A t \in Threads : Active[t] \in Tasks \cup {Main}
    BY ActiveIs
  <2> QED
    BY <2>1, SchedulerAssumption DEF SchedulerAssumption, Fibers, Active
<1>4. ASSUME NEW f \in Tasks, Pool!Submit(f) \/ Pool!Wakeup(f) PROVE PlaceInv'
  <2>1. \A h : InList(h)' <=> InList(h) \/ h = f
    <3>1. m_tasks' = Append(m_tasks, f)
      BY <1>4 DEF Pool!Submit, Pool!Wakeup
    <3> QED
      BY <1>2, <3>1, InAppend DEF InList
  <2> QED
    BY <1>4, <2>1 DEF Pool!Submit, Pool!Wakeup
<1>5. ASSUME NEW f \in Tasks, Pool!Renew(f) PROVE PlaceInv'
  BY <1>5 DEF Pool!Renew, InList
<1>6. ASSUME NEW t \in Threads, Pool!Take(t) PROVE PlaceInv'
  <2>1. \A h : InList(h) => InList(h)' \/ h = Head(m_tasks)
    BY <1>2, <1>6, InTail DEF Pool!Take, InList
  <2>2. Active'[t] = Head(m_tasks)
    BY <1>3, <1>6 DEF Pool!Take
  <2>3. \A u \in Threads : Active[u] \in Tasks => Active'[u] = Active[u]
    BY <1>3, <1>6 DEF Pool!Take
  <2> QED
    BY <1>6, <2>1, <2>2, <2>3 DEF Pool!Take
<1>7. ASSUME NEW t \in Threads,
             Pool!Suspend(t) \/ Pool!Finish(t) \/ Pool!Leave(t)
      PROVE  PlaceInv'
  <2>1. \A u \in Threads : u # t => Active'[u] = Active[u]
    BY <1>3, <1>7 DEF Pool!Suspend, Pool!Finish, Pool!Leave
  <2>2. Active[t] \in waker' \cup Finished' \/ Active'[t] = Active[t]
    BY <1>7 DEF Pool!Suspend, Pool!Finish, Pool!Leave
  <2> QED
    BY <1>7, <2>1, <2>2 DEF Pool!Suspend, Pool!Finish, Pool!Leave, InList
<1>8. ASSUME NEW t \in Threads, NEW u \in Threads, Pool!Fail(t, u)
      PROVE  PlaceInv'
  BY <1>8 DEF Pool!Fail, InList
<1>9. CASE UNCHANGED Pool!vars
  BY <1>9 DEF Pool!vars, InList
<1> QED
  BY <1>1, <1>4, <1>5, <1>6, <1>7, <1>8, <1>9 DEF Pool!Next

LEMMA PlaceAlways == Spec => [](BaseInv /\ TaskInv /\ PlaceInv)
<1>1. BaseInv /\ TaskInv /\ PlaceInv /\ [Next]_vars => PlaceInv'
  BY PlaceStep
<1> QED
  BY <1>1, PlaceInit, TaskAlways, PTL DEF Spec

-----------------------------------------------------------------------------
(* Counting *)

(* A set with at most one element has as many as it has.                   *)
LEMMA CountOne ==
    ASSUME NEW S, \A x, y \in S : x = y
    PROVE  Count(S) = One(S # {})
<1>1. CASE S = {}
  BY <1>1, FS_EmptySet DEF Count, One
<1>2. ASSUME NEW x \in S PROVE Count(S) = One(S # {})
  <2>1. S = {x}
    BY <1>2
  <2> QED
    BY <2>1, FS_Singleton DEF Count, One
<1> QED
  BY <1>1, <1>2

(* schedule(), run(), resume(), yield() and reset() keep every task in     *)
(* exactly one place, besides at most one thread that is still leaving it: *)
(* none is lost, none is duplicated, however many threads and tasks there  *)
(* are and however early a suspended task is woken.                        *)
THEOREM PlaceCorrect == Spec => []OnePlace
<1>1. ASSUME BaseInv, TaskInv, PlaceInv PROVE OnePlace
  <2> SUFFICES ASSUME NEW f \in Tasks
               PROVE  /\ One(f \in fresh) + Count(Queued(f)) + Count(InHand(f))
                           + Count(Executing(f)) + One(f \in waker)
                           + One(Done(f)) = 1
                      /\ Count(Leaving(f)) <= 1
    BY DEF OnePlace
  <2>1. f # Main /\ f \notin Threads
    BY SchedulerAssumption DEF SchedulerAssumption, Fibers
  <2>2. Count(Queued(f)) = One(InList(f))
    <3>1. \A i, j \in Queued(f) : i = j
      BY <1>1 DEF Queued, TaskInv, ListInv, NoRepeat, BaseInv, TypeOK
    <3>2. Queued(f) # {} <=> InList(f)
      BY <1>1 DEF Queued, InList, In, BaseInv, TypeOK
    <3> QED
      BY <3>1, <3>2, CountOne DEF One
  <2>3. \A t \in Threads : t \in InHand(f) \cup Executing(f) <=> Holds(t, f)
    <3>1. \A t \in Threads : t \in Executing(f) <=>
              stack[t] = f /\ ~Leaves(t, f)
      BY DEF Executing, Leaving, Leaves
    <3>2. \A t \in Threads : stack[t] = f /\ ~Leaves(t, f) => Holds(t, f)
      BY <1>1, OnStack
    <3> QED
      BY <3>1, <3>2 DEF InHand, Holds, Leaves
  <2>4. \A t, u \in InHand(f) \cup Executing(f) : t = u
    BY <1>1, <2>3 DEF InHand, Executing, TaskInv, HolderInv
  <2>5. InHand(f) \cap Executing(f) = {}
    BY <1>1, <2>1 DEF InHand, Executing, BaseInv, ThreadInv, OnMain
  <2>6. /\ Count(InHand(f)) = One(InHand(f) # {})
        /\ Count(Executing(f)) = One(Executing(f) # {})
    BY <2>4, CountOne
  <2>7. InHand(f) = {} \/ Executing(f) = {}
    BY <2>4, <2>5
  <2>8. Count(Leaving(f)) <= 1
    <3>1. \A t, u \in Leaving(f) : t = u
      BY <1>1 DEF Leaving, Leaves, TaskInv, LeaverInv
    <3> QED
      BY <3>1, CountOne DEF One
  <2> DEFINE Has == InHand(f) # {} \/ Executing(f) # {}
  <2>9. Has <=> \E t \in Threads : Holds(t, f)
    BY <2>3 DEF InHand, Executing
  <2>10. Has => f \notin fresh /\ ~InList(f) /\ f \notin waker
    BY <1>1, <2>9 DEF TaskInv, HolderInv
  <2>11. Has => ~Done(f)
    <3>1. Executing(f) # {} => ~SwappedOut(f)
      BY DEF Executing, SwappedOut
    <3>2. ASSUME InHand(f) # {}, SwappedOut(f) PROVE m_state[f] # "TERM"
      <4>1. Due(f)
        BY <3>2 DEF InHand, Due, Resumes
      <4>2. \A t \in Threads : ~Leaves(t, f)
        BY <3>2 DEF SwappedOut, Leaves
      <4> QED
        BY <1>1, <4>1, <4>2 DEF TaskInv, StateInv
    <3> QED
      BY <3>1, <3>2 DEF Done
  <2>12. InList(f) \/ f \in waker => ~Done(f)
    <3>1. ASSUME SwappedOut(f), Due(f) PROVE m_state[f] # "TERM"
      BY <1>1, <3>1 DEF SwappedOut, Leaves, TaskInv, StateInv
    <3> QED
      BY <3>1 DEF Done, Due
  <2>13. f \in fresh => ~InList(f) /\ f \notin waker /\ ~Done(f)
    BY <1>1 DEF TaskInv, ListInv, StateInv, Done
  <2>14. InList(f) => f \notin waker
    BY <1>1 DEF TaskInv, ListInv
  <2>15. f \in fresh \/ InList(f) \/ f \in waker \/ Done(f) \/ Has
    <3>1. (\E t \in Threads : Active[t] = f) => Has
      BY <1>1, <2>9, ActiveIs
    <3> QED
      BY <1>1, <3>1 DEF PlaceInv, Placed, Finished
  <2> QED
    BY <2>2, <2>6, <2>7, <2>8, <2>10, <2>11, <2>12, <2>13, <2>14, <2>15 DEF One
<1> QED
  BY <1>1, PlaceAlways, PTL
-----------------------------------------------------------------------------
(* stop() leaves no task that could go on *)

LEMMA StopInit == Init => StopInv
  BY DEF Init, StopInv

LEMMA StopNext ==
    ASSUME BaseInv, TaskInv, StopInv, [Next]_vars
    PROVE  StopInv'
<1> USE SchedulerAssumption
    DEF SchedulerAssumption, Fibers, BaseInv, TypeOK, StopInv, At, OwnerAt,
        Goto, fiberVars, boundVars
<1>1. ASSUME Start PROVE StopInv'
  <2>1. owner' = "up" /\ UNCHANGED <<waker, waits>>
    BY <1>1 DEF Start
  <2> QED
    BY <2>1
<1>2. ASSUME Stop PROVE StopInv'
  BY <1>2 DEF Stop, InList, PollsAgain, OnTask, Joined
<1>3. ASSUME StopDrained PROVE StopInv'
  <2>1. \A f : ~InList(f)'
    BY <1>3 DEF StopDrained, InList, In
  <2> QED
    BY <1>3, <2>1 DEF StopDrained
<1>4. ASSUME StopJoin PROVE StopInv'
  BY <1>4 DEF StopJoin, InList, PollsAgain, OnTask, Joined
<1>5. ASSUME Destroy PROVE StopInv'
  BY <1>5 DEF Destroy, InList, PollsAgain, OnTask, Joined
<1>6. ASSUME NEW f \in Tasks, OwnerSchedule(f) PROVE StopInv'
  BY <1>6 DEF OwnerSchedule, InList, PollsAgain, OnTask, Joined
<1>7. ASSUME NEW f \in Tasks, OwnerReset(f) PROVE StopInv'
  <2>1. owner \in {"new", "up"} /\ UNCHANGED <<owner, waker, waits>>
    BY <1>7 DEF OwnerReset
  <2> QED
    BY <2>1
<1>8. ASSUME NEW f \in Tasks, Wake(f) PROVE StopInv'
  <2>1. \A h : InList(h)' <=> InList(h) \/ h = f
    BY <1>8, InAppend DEF Wake, Schedule, InList
  <2>2. waits[f] > 0
    BY <1>8 DEF Wake
  <2>3. \A u \in Threads : PollsAgain(u)' <=> PollsAgain(u)
    BY <1>8 DEF Wake, PollsAgain
  <2>4. UNCHANGED <<owner, pc, waits>> /\ waker' = waker \ {f}
    BY <1>8 DEF Wake
  <2>5. ASSUME owner' \in {"joining", "stopped", "destroyed"},
               NEW h \in Tasks, InList(h)', waits'[h] = 0
        PROVE  \E u \in Threads : PollsAgain(u)'
    <3>1. InList(h) /\ waits[h] = 0
      BY <2>1, <2>2, <2>4, <2>5
    <3> QED
      BY <2>3, <2>4, <2>5, <3>1
  <2>6. owner' \in {"stopped", "destroyed"} => Joined'
    BY <2>4 DEF Joined
  <2>7. \A h \in waker' : waits'[h] > 0
    BY <2>4
  <2> QED
    BY <2>5, <2>6, <2>7
<1>9. ASSUME NEW t \in Threads, Poll(t) PROVE StopInv'
  <2>1. CASE m_tasks = <<>>
    <3>1. \A h : ~InList(h)'
      BY <1>9, <2>1 DEF Poll, NoTask, InList, In
    <3> QED
      BY <1>9, <3>1 DEF Poll, Joined
  <2>2. CASE m_tasks # <<>>
    <3>1. PollsAgain(t)'
      BY <1>9, <2>2 DEF Poll, NoTask, PollsAgain
    <3> QED
      BY <1>9, <3>1 DEF Poll, Joined
  <2> QED
    BY <2>1, <2>2
<1>10. ASSUME NEW t \in Threads, Resume(t) PROVE StopInv'
  <2>1. \A h : InList(h)' <=> InList(h)
    BY <1>10 DEF Resume, InList
  <2>2. \A u \in Threads : PollsAgain(u) => PollsAgain(u)'
    BY <1>10 DEF Resume, PollsAgain, ThreadInv, OnMain, OnTask
  <2> QED
    BY <1>10, <2>1, <2>2 DEF Resume, Joined, ThreadInv, OnTask
<1>11. ASSUME NEW t \in Threads, SwapIn(t) PROVE StopInv'
  <2>1. \A h : InList(h)' <=> InList(h)
    BY <1>11 DEF SwapIn, InList
  <2>2. \A u \in Threads : PollsAgain(u) => PollsAgain(u)'
    <3>1. m_ucp[task[t]] # "end"
      <4>1. /\ task[t] \in Tasks /\ Holds(t, task[t])
            /\ pc[t] = "swapin" /\ proc = "up"
        BY <1>11 DEF SwapIn, ThreadInv, Holds
      <4>2. m_state[task[t]] # "TERM"
        BY <4>1 DEF TaskInv, HolderInv
      <4> QED
        BY <4>1, <4>2 DEF TaskInv, StateInv
    <3> QED
      BY <1>11, <3>1 DEF SwapIn, PollsAgain, OnTask
  <2> QED
    BY <1>11, <2>1, <2>2 DEF SwapIn, Joined, ThreadInv, OnTask
<1>12. ASSUME NEW t \in Threads, IdleResume(t) PROVE StopInv'
  <2>1. \A h : InList(h)' <=> InList(h)
    BY <1>12 DEF IdleResume, InList
  <2>2. \A u \in Threads : PollsAgain(u) => PollsAgain(u)'
    BY <1>12 DEF IdleResume, SetThis, PollsAgain, ThreadInv, OnMain, OnTask
  <2> QED
    BY <1>12, <2>1, <2>2 DEF IdleResume, Joined, ThreadInv, OnTask
<1>13. ASSUME NEW t \in Threads, TaskArm(t) PROVE StopInv'
  <2>1. \A h : InList(h)' <=> InList(h)
    BY <1>13 DEF TaskArm, InList
  <2>2. \A u \in Threads : PollsAgain(u) => PollsAgain(u)'
    BY <1>13 DEF TaskArm, PollsAgain, ThreadInv, OnMain, OnTask
  <2> QED
    BY <1>13, <2>1, <2>2 DEF TaskArm, Joined, ThreadInv, OnTask
<1>14. ASSUME NEW t \in Threads, TaskYield(t) PROVE StopInv'
  <2>1. \A h : InList(h)' <=> InList(h)
    BY <1>14 DEF TaskYield, InList
  <2>2. \A u \in Threads : PollsAgain(u) => PollsAgain(u)'
    BY <1>14 DEF TaskYield, SetThis, PollsAgain, ThreadInv, OnMain, OnTask
  <2> QED
    BY <1>14, <2>1, <2>2 DEF TaskYield, Joined, ThreadInv, OnTask
<1>15. ASSUME NEW t \in Threads, TaskFinish(t) PROVE StopInv'
  <2>1. \A h : InList(h)' <=> InList(h)
    BY <1>15 DEF TaskFinish, InList
  <2>2. \A u \in Threads : PollsAgain(u) => PollsAgain(u)'
    BY <1>15 DEF TaskFinish, SetThis, PollsAgain, ThreadInv, OnMain, OnTask
  <2> QED
    BY <1>15, <2>1, <2>2 DEF TaskFinish, Joined, ThreadInv, OnTask
<1>16. ASSUME NEW t \in Threads, SwapOut(t) PROVE StopInv'
  <2>1. \A h : InList(h)' <=> InList(h)
    BY <1>16 DEF SwapOut, InList
  <2>2. \A u \in Threads : PollsAgain(u) => PollsAgain(u)'
    BY <1>16 DEF SwapOut, SaveContext, PollsAgain, ThreadInv, OnMain, OnTask
  <2> QED
    BY <1>16, <2>1, <2>2 DEF SwapOut, Joined, ThreadInv, OnTask
<1>17. ASSUME NEW t \in Threads, IdleYield(t) PROVE StopInv'
  <2>1. \A h : InList(h)' <=> InList(h)
    BY <1>17 DEF IdleYield, InList
  <2>2. \A u \in Threads : PollsAgain(u) => PollsAgain(u)'
    BY <1>17 DEF IdleYield, SaveContext, SetThis, PollsAgain, ThreadInv, OnMain, OnTask
  <2> QED
    BY <1>17, <2>1, <2>2 DEF IdleYield, Joined, ThreadInv, OnTask
<1>18. ASSUME NEW t \in Threads, ContextEnd(t) PROVE StopInv'
  <2>1. \A h : InList(h)' <=> InList(h)
    BY <1>18 DEF ContextEnd, InList
  <2>2. \A u \in Threads : PollsAgain(u) => PollsAgain(u)'
    BY <1>18 DEF ContextEnd, PollsAgain, ThreadInv, OnMain, OnTask
  <2> QED
    BY <1>18, <2>1, <2>2 DEF ContextEnd, Joined, ThreadInv, OnTask
<1>19. ASSUME NEW t \in Threads, NEW g \in Tasks, TaskSchedule(t, g) PROVE StopInv'
  <2>1. PollsAgain(t)'
    BY <1>19 DEF TaskSchedule, PollsAgain, OnTask
  <2> QED
    BY <1>19, <2>1 DEF TaskSchedule, Joined
<1>20. CASE UNCHANGED vars
  BY <1>20 DEF vars, InList, PollsAgain, OnTask, Joined
<1> QED
  BY <1>1, <1>2, <1>3, <1>4, <1>5, <1>6, <1>7, <1>8, <1>9, <1>10, <1>11,
     <1>12, <1>13, <1>14, <1>15, <1>16, <1>17, <1>18, <1>19, <1>20
  DEF Next, OwnerStep, StopStep, WorkerStep, TaskStep

(* When stop() has returned, every task that was ever scheduled and never  *)
(* suspended itself has finished, also one that another task scheduled     *)
(* while stop() was already waiting for the threads.                       *)
THEOREM StopCorrect == Spec => []JoinedAllDone
<1>1. BaseInv /\ TaskInv /\ StopInv /\ [Next]_vars => StopInv'
  BY StopNext
<1>2. ASSUME BaseInv, TaskInv, PlaceInv, StopInv PROVE JoinedAllDone
  <2> SUFFICES ASSUME owner \in {"stopped", "destroyed"},
                      NEW f \in Tasks \ fresh,
                      m_state[f] # "TERM"
               PROVE  waits[f] > 0
    BY DEF JoinedAllDone
  <2>1. \A t \in Threads : pc[t] = "exited" /\ stack[t] = t
    BY <1>2 DEF StopInv, Joined, TaskInv, EndInv
  <2>2. \A t \in Threads : Active[t] # f
    BY <2>1, SchedulerAssumption
    DEF SchedulerAssumption, Fibers, Active, ActiveTask
  <2>3. InList(f) \/ f \in waker
    BY <1>2, <2>2
    DEF PlaceInv, Placed, Finished, Done
  <2>4. \A t \in Threads : ~PollsAgain(t)
    BY <2>1 DEF PollsAgain, OnTask
  <2>5. waits[f] \in Nat
    BY <1>2 DEF BaseInv, TypeOK
  <2> QED
    BY <1>2, <2>3, <2>4, <2>5 DEF StopInv
<1> QED
  BY <1>1, <1>2, StopInit, PlaceAlways, PTL DEF Spec
=============================================================================
