-------------------------- MODULE SchedulerProofs --------------------------
(***************************************************************************)
(* Proofs about Scheduler, for any threads, any tasks and any bounds.      *)
(*                                                                         *)
(* The type invariant and the idle count need to know which stack a thread *)
(* executes on at each place in run(), resume() and yield() (ThreadInv).   *)
(* What a second thread can do to a task needs, on top of it, that a task  *)
(* is held by one thread and left by one at most, is not queued or awaited *)
(* by a waker while it is held, and that m_state tells how far the thread  *)
(* that leaves it has come (TaskInv).                                      *)
(***************************************************************************)
EXTENDS Scheduler, FiniteSetTheorems, TLAPS

OnMain == {"off", "poll", "resume", "swapin", "idle"}
OnTask == {"run", "armed", "swapout", "swapoutEnd"}

(* Where a thread is determines whose stack it is on and what t_fiber is.  *)
ThreadInv ==
    \A t \in Threads :
        /\ owner = "new" => pc[t] = "off"
        /\ pc[t] \in OnMain => stack[t] = Main /\ t_fiber[t] = Main
        /\ pc[t] \in OnTask => stack[t] \in Tasks
        /\ pc[t] \in {"run", "armed"} => t_fiber[t] = stack[t]
        /\ pc[t] \in {"swapout", "swapoutEnd"} => t_fiber[t] = Main
        /\ pc[t] \in {"resume", "swapin"} => task[t] \in Tasks
        /\ pc[t] = "idling" => stack[t] = t /\ t_fiber[t] = t
        /\ pc[t] \in {"ended", "exited"} => stack[t] \in Tasks \cup {t}

BaseInv == TypeOK /\ ThreadInv /\ IdleCount

IdleSet == {t \in Threads : pc[t] = "idle" \/ stack[t] = t}

(* Thread t has taken task f and has not given it away again.              *)
Holds(t, f) ==
    \/ pc[t] \in {"resume", "swapin"} /\ task[t] = f
    \/ pc[t] \in {"run", "swapoutEnd"} /\ stack[t] = f

(* Thread t still executes on the stack of f, which has suspended itself.  *)
Leaves(t, f) == pc[t] \in {"armed", "swapout"} /\ stack[t] = f

In(s, f) == \E i \in 1..Len(s) : s[i] = f
NoRepeat(s) == \A i, j \in 1..Len(s) : s[i] = s[j] => i = j
InList(f) == In(m_tasks, f)

(* Thread t is about to resume f.                                          *)
Resumes(t, f) == pc[t] \in {"resume", "swapin"} /\ task[t] = f

(* f will be resumed: by its waker's doing, from the list, or by a thread. *)
Due(f) == f \in waker \/ InList(f) \/ \E t \in Threads : Resumes(t, f)

HolderInv ==
    \A f \in Tasks : \A t \in Threads : Holds(t, f) =>
        /\ \A u \in Threads : Holds(u, f) => u = t
        /\ f \notin fresh
        /\ f \notin waker
        /\ ~InList(f)
        /\ pc[t] = "run" => m_state[f] = "RUNNING"
        /\ pc[t] = "swapoutEnd" => m_state[f] = "TERM"
        /\ pc[t] = "swapin" /\ proc = "up" => m_state[f] \in {"INIT", "READY"}

(* The state of a fiber that is being left tells how far, and it is never  *)
(* executed meanwhile except by the step that corrupts its stack.          *)
LeaverInv ==
    \A f \in Tasks : \A t \in Threads : Leaves(t, f) =>
        /\ \A u \in Threads : Leaves(u, f) => u = t
        /\ f \notin fresh
        /\ pc[t] = "armed" => m_state[f] = "RUNNING"
        /\ pc[t] = "swapout" /\ proc # "corrupt" => m_state[f] = "READY"
        /\ \A u \in Threads : Holds(u, f) /\ pc[u] \in {"run", "swapoutEnd"} =>
              proc = "corrupt" /\ pc[t] = "swapout"

ListInv ==
    /\ NoRepeat(m_tasks)
    /\ \A f \in Tasks : InList(f) => f \notin fresh /\ f \notin waker

StateInv ==
    \A f \in Tasks :
        /\ f \in fresh => f \notin waker /\ m_state[f] = "INIT"
        /\ m_ucp[f] = "end" => m_state[f] = "TERM"
        /\ Due(f) /\ m_state[f] \notin {"INIT", "READY"} =>
              \E t \in Threads : Leaves(t, f) /\ pc[t] = "armed"

EndInv ==
    /\ AbortsOnlyArmed
    /\ \A t \in Threads : pc[t] \in {"ended", "exited"} => stack[t] = t

TaskInv == HolderInv /\ LeaverInv /\ ListInv /\ StateInv /\ EndInv

-----------------------------------------------------------------------------
(* The type invariant, the idle count and t_fiber *)

(* Actions change one thread's place at most; the idle threads do not      *)
(* change when neither their places nor their stacks do.                   *)
LEMMA IdleFinite ==
    ASSUME TypeOK
    PROVE  IsFiniteSet(IdleSet) /\ Cardinality(IdleSet) \in Nat
<1>1. IdleSet \subseteq Threads
  BY DEF IdleSet
<1>2. IsFiniteSet(IdleSet)
  BY <1>1, SchedulerAssumption, FS_Subset
<1> QED
  BY <1>2, FS_CardinalityType

LEMMA BaseInit == Init => BaseInv
<1> SUFFICES ASSUME Init PROVE BaseInv
  OBVIOUS
<1> USE SchedulerAssumption DEF Init, Fibers, SchedulerAssumption
<1>1. TypeOK
  <2>1. m_stopCommand \in BOOLEAN
    BY Zenon
  <2> QED
    BY <2>1 DEF TypeOK, States, PCs
<1>2. ThreadInv
  BY DEF ThreadInv, OnMain, OnTask
<1>3. {t \in Threads : pc[t] = "idle" \/ stack[t] = t} = {}
  OBVIOUS
<1>4. IdleCount
  BY <1>3, FS_EmptySet DEF IdleCount, Count
<1> QED
  BY <1>1, <1>2, <1>4 DEF BaseInv
LEMMA BaseStep == BaseInv /\ [Next]_vars => BaseInv'
<1> SUFFICES ASSUME BaseInv, [Next]_vars PROVE BaseInv'
  OBVIOUS
<1> USE SchedulerAssumption
    DEF SchedulerAssumption, Fibers, BaseInv, At, OwnerAt, Goto, fiberVars,
        boundVars
<1>1. ASSUME Start PROVE BaseInv'
  <2>1. TypeOK'
    BY <1>1 DEF Start, TypeOK, States, PCs, ThreadInv, OnTask
  <2>2. ThreadInv'
    BY <1>1 DEF Start, TypeOK, ThreadInv, OnMain, OnTask
  <2>3. IdleSet' = IdleSet /\ m_idleThreadCount' = m_idleThreadCount
    BY <1>1 DEF Start, TypeOK, ThreadInv, OnMain, OnTask, IdleSet
  <2> QED
    BY <2>1, <2>2, <2>3 DEF IdleCount, Count, IdleSet
<1>2. ASSUME NEW f \in Tasks, OwnerSchedule(f) PROVE BaseInv'
  <2>1. TypeOK'
    BY <1>2 DEF OwnerSchedule, Schedule, TypeOK, States, PCs, ThreadInv, OnTask
  <2>2. ThreadInv'
    BY <1>2 DEF OwnerSchedule, Schedule, TypeOK, ThreadInv, OnMain, OnTask
  <2>3. IdleSet' = IdleSet /\ m_idleThreadCount' = m_idleThreadCount
    BY <1>2
    DEF OwnerSchedule, Schedule, TypeOK, ThreadInv, OnMain, OnTask, IdleSet
  <2> QED
    BY <2>1, <2>2, <2>3 DEF IdleCount, Count, IdleSet
<1>3. ASSUME NEW f \in Tasks, OwnerReset(f) PROVE BaseInv'
  <2>1. TypeOK'
    BY <1>3
    DEF OwnerReset, MakeContext, ResetState, TypeOK, States, PCs, ThreadInv,
        OnTask
  <2>2. ThreadInv'
    BY <1>3
    DEF OwnerReset, MakeContext, ResetState, TypeOK, ThreadInv, OnMain, OnTask
  <2>3. IdleSet' = IdleSet /\ m_idleThreadCount' = m_idleThreadCount
    BY <1>3
    DEF OwnerReset, MakeContext, ResetState, TypeOK, ThreadInv, OnMain,
        OnTask, IdleSet
  <2> QED
    BY <2>1, <2>2, <2>3 DEF IdleCount, Count, IdleSet
<1>4. ASSUME Stop PROVE BaseInv'
  <2>1. TypeOK'
    BY <1>4 DEF Stop, TypeOK, States, PCs, ThreadInv, OnTask
  <2>2. ThreadInv'
    BY <1>4 DEF Stop, TypeOK, ThreadInv, OnMain, OnTask
  <2>3. IdleSet' = IdleSet /\ m_idleThreadCount' = m_idleThreadCount
    BY <1>4 DEF Stop, TypeOK, ThreadInv, OnMain, OnTask, IdleSet
  <2> QED
    BY <2>1, <2>2, <2>3 DEF IdleCount, Count, IdleSet
<1>5. ASSUME StopDrained PROVE BaseInv'
  <2>1. TypeOK'
    BY <1>5 DEF StopDrained, TypeOK, States, PCs, ThreadInv, OnTask
  <2>2. ThreadInv'
    BY <1>5 DEF StopDrained, TypeOK, ThreadInv, OnMain, OnTask
  <2>3. IdleSet' = IdleSet /\ m_idleThreadCount' = m_idleThreadCount
    BY <1>5 DEF StopDrained, TypeOK, ThreadInv, OnMain, OnTask, IdleSet
  <2> QED
    BY <2>1, <2>2, <2>3 DEF IdleCount, Count, IdleSet
<1>6. ASSUME StopJoin PROVE BaseInv'
  <2>1. TypeOK'
    BY <1>6 DEF StopJoin, TypeOK, States, PCs, ThreadInv, OnTask
  <2>2. ThreadInv'
    BY <1>6 DEF StopJoin, TypeOK, ThreadInv, OnMain, OnTask
  <2>3. IdleSet' = IdleSet /\ m_idleThreadCount' = m_idleThreadCount
    BY <1>6 DEF StopJoin, TypeOK, ThreadInv, OnMain, OnTask, IdleSet
  <2> QED
    BY <2>1, <2>2, <2>3 DEF IdleCount, Count, IdleSet
<1>7. ASSUME Destroy PROVE BaseInv'
  <2>1. TypeOK'
    BY <1>7 DEF Destroy, TypeOK, States, PCs, ThreadInv, OnTask
  <2>2. ThreadInv'
    BY <1>7 DEF Destroy, TypeOK, ThreadInv, OnMain, OnTask
  <2>3. IdleSet' = IdleSet /\ m_idleThreadCount' = m_idleThreadCount
    BY <1>7 DEF Destroy, TypeOK, ThreadInv, OnMain, OnTask, IdleSet
  <2> QED
    BY <2>1, <2>2, <2>3 DEF IdleCount, Count, IdleSet
<1>8. ASSUME NEW f \in Tasks, Wake(f) PROVE BaseInv'
  <2>1. TypeOK'
    BY <1>8 DEF Wake, Schedule, TypeOK, States, PCs, ThreadInv, OnTask
  <2>2. ThreadInv'
    BY <1>8 DEF Wake, Schedule, TypeOK, ThreadInv, OnMain, OnTask
  <2>3. IdleSet' = IdleSet /\ m_idleThreadCount' = m_idleThreadCount
    BY <1>8 DEF Wake, Schedule, TypeOK, ThreadInv, OnMain, OnTask, IdleSet
  <2> QED
    BY <2>1, <2>2, <2>3 DEF IdleCount, Count, IdleSet
<1>9. ASSUME NEW t \in Threads, Resume(t) PROVE BaseInv'
  <2>1. TypeOK'
    BY <1>9 DEF Resume, TypeOK, States, PCs, ThreadInv, OnTask
  <2>2. ThreadInv'
    BY <1>9 DEF Resume, TypeOK, ThreadInv, OnMain, OnTask
  <2>3. IdleSet' = IdleSet /\ m_idleThreadCount' = m_idleThreadCount
    BY <1>9 DEF Resume, TypeOK, ThreadInv, OnMain, OnTask, IdleSet
  <2> QED
    BY <2>1, <2>2, <2>3 DEF IdleCount, Count, IdleSet
<1>10. ASSUME NEW t \in Threads, SwapIn(t) PROVE BaseInv'
  <2>1. TypeOK'
    BY <1>10 DEF SwapIn, SetThis, TypeOK, States, PCs, ThreadInv, OnTask
  <2>2. ThreadInv'
    BY <1>10 DEF SwapIn, SetThis, TypeOK, ThreadInv, OnMain, OnTask
  <2>3. IdleSet' = IdleSet /\ m_idleThreadCount' = m_idleThreadCount
    BY <1>10 DEF SwapIn, SetThis, TypeOK, ThreadInv, OnMain, OnTask, IdleSet
  <2> QED
    BY <2>1, <2>2, <2>3 DEF IdleCount, Count, IdleSet
<1>11. ASSUME NEW t \in Threads, IdleResume(t) PROVE BaseInv'
  <2>1. TypeOK'
    BY <1>11 DEF IdleResume, SetThis, TypeOK, States, PCs, ThreadInv, OnTask
  <2>2. ThreadInv'
    BY <1>11 DEF IdleResume, SetThis, TypeOK, ThreadInv, OnMain, OnTask
  <2>3. IdleSet' = IdleSet /\ m_idleThreadCount' = m_idleThreadCount
    BY <1>11
    DEF IdleResume, SetThis, TypeOK, ThreadInv, OnMain, OnTask, IdleSet
  <2> QED
    BY <2>1, <2>2, <2>3 DEF IdleCount, Count, IdleSet
<1>12. ASSUME NEW t \in Threads, NEW g \in Tasks, TaskSchedule(t, g) PROVE
    BaseInv'
  <2>1. TypeOK'
    BY <1>12 DEF TaskSchedule, Schedule, TypeOK, States, PCs, ThreadInv, OnTask
  <2>2. ThreadInv'
    BY <1>12 DEF TaskSchedule, Schedule, TypeOK, ThreadInv, OnMain, OnTask
  <2>3. IdleSet' = IdleSet /\ m_idleThreadCount' = m_idleThreadCount
    BY <1>12
    DEF TaskSchedule, Schedule, TypeOK, ThreadInv, OnMain, OnTask, IdleSet
  <2> QED
    BY <2>1, <2>2, <2>3 DEF IdleCount, Count, IdleSet
<1>13. ASSUME NEW t \in Threads, TaskArm(t) PROVE BaseInv'
  <2>1. TypeOK'
    BY <1>13 DEF TaskArm, TypeOK, States, PCs, ThreadInv, OnTask
  <2>2. ThreadInv'
    BY <1>13 DEF TaskArm, TypeOK, ThreadInv, OnMain, OnTask
  <2>3. IdleSet' = IdleSet /\ m_idleThreadCount' = m_idleThreadCount
    BY <1>13 DEF TaskArm, TypeOK, ThreadInv, OnMain, OnTask, IdleSet
  <2> QED
    BY <2>1, <2>2, <2>3 DEF IdleCount, Count, IdleSet
<1>14. ASSUME NEW t \in Threads, TaskYield(t) PROVE BaseInv'
  <2>1. TypeOK'
    <3>1. stack[t] \in Tasks
      BY <1>14 DEF TaskYield, ThreadInv, OnTask
    <3>2. YieldState(m_state[stack[t]]) \in States
      BY <3>1 DEF YieldState, TypeOK, States
    <3>3. m_state' \in [Fibers -> States]
      BY <1>14, <3>1, <3>2 DEF TaskYield, TypeOK
    <3> QED
      BY <1>14, <3>3 DEF TaskYield, SetThis, TypeOK, PCs
  <2>2. ThreadInv'
    BY <1>14
    DEF TaskYield, SetThis, YieldState, TypeOK, ThreadInv, OnMain, OnTask
  <2>3. IdleSet' = IdleSet /\ m_idleThreadCount' = m_idleThreadCount
    BY <1>14
    DEF TaskYield, SetThis, YieldState, TypeOK, ThreadInv, OnMain, OnTask,
        IdleSet
  <2> QED
    BY <2>1, <2>2, <2>3 DEF IdleCount, Count, IdleSet
<1>15. ASSUME NEW t \in Threads, TaskFinish(t) PROVE BaseInv'
  <2>1. TypeOK'
    BY <1>15 DEF TaskFinish, SetThis, TypeOK, States, PCs, ThreadInv, OnTask
  <2>2. ThreadInv'
    BY <1>15 DEF TaskFinish, SetThis, TypeOK, ThreadInv, OnMain, OnTask
  <2>3. IdleSet' = IdleSet /\ m_idleThreadCount' = m_idleThreadCount
    BY <1>15
    DEF TaskFinish, SetThis, TypeOK, ThreadInv, OnMain, OnTask, IdleSet
  <2> QED
    BY <2>1, <2>2, <2>3 DEF IdleCount, Count, IdleSet
<1>16. ASSUME NEW t \in Threads, SwapOut(t) PROVE BaseInv'
  <2>1. TypeOK'
    BY <1>16 DEF SwapOut, SaveContext, TypeOK, States, PCs, ThreadInv, OnTask
  <2>2. ThreadInv'
    BY <1>16 DEF SwapOut, SaveContext, TypeOK, ThreadInv, OnMain, OnTask
  <2>3. IdleSet' = IdleSet /\ m_idleThreadCount' = m_idleThreadCount
    BY <1>16
    DEF SwapOut, SaveContext, TypeOK, ThreadInv, OnMain, OnTask, IdleSet
  <2> QED
    BY <2>1, <2>2, <2>3 DEF IdleCount, Count, IdleSet
<1>17. ASSUME NEW t \in Threads, ContextEnd(t) PROVE BaseInv'
  <2>1. TypeOK'
    BY <1>17 DEF ContextEnd, TypeOK, States, PCs, ThreadInv, OnTask
  <2>2. ThreadInv'
    BY <1>17 DEF ContextEnd, TypeOK, ThreadInv, OnMain, OnTask
  <2>3. IdleSet' = IdleSet /\ m_idleThreadCount' = m_idleThreadCount
    BY <1>17 DEF ContextEnd, TypeOK, ThreadInv, OnMain, OnTask, IdleSet
  <2> QED
    BY <2>1, <2>2, <2>3 DEF IdleCount, Count, IdleSet
<1>18. ASSUME NEW t \in Threads, Poll(t) PROVE BaseInv'
  <2>1. ThreadInv'
    BY <1>18
    DEF Poll, NoTask, EraseTask, CountIdle, TypeOK, ThreadInv, OnMain, OnTask
  <2>2. TypeOK'
    <3>1. m_tasks # <<>> => Head(m_tasks) \in Tasks /\ Tail(m_tasks) \in
        Seq(Tasks)
      BY DEF TypeOK
    <3>2. /\ task' \in [Threads -> Tasks \cup {Main}]
          /\ m_tasks' \in Seq(Tasks)
      BY <1>18, <3>1, ZenonT(60) DEF Poll, NoTask, EraseTask, TypeOK
    <3>3. m_idleThreadCount' \in Nat
      BY <1>18 DEF Poll, CountIdle, TypeOK
    <3>4. pc' \in [Threads -> PCs]
      <4>1. Goto(t, "resume") \/ Goto(t, "idle")
        BY <1>18 DEF Poll
      <4> QED
        BY <4>1 DEF TypeOK, PCs
    <3> QED
      BY <1>18, <3>2, <3>3, <3>4 DEF Poll, TypeOK
  <2>3. CASE m_tasks # <<>>
    <3>1. IdleSet' = IdleSet /\ m_idleThreadCount' = m_idleThreadCount
      BY <1>18, <2>3 DEF Poll, NoTask, EraseTask, CountIdle, TypeOK, IdleSet
    <3> QED
      BY <2>1, <2>2, <3>1 DEF IdleCount, Count, IdleSet
  <2>4. CASE m_tasks = <<>>
    <3>1. /\ IdleSet' = IdleSet \cup {t}
          /\ t \notin IdleSet
          /\ m_idleThreadCount' = m_idleThreadCount + 1
      BY <1>18, <2>4
      DEF Poll, NoTask, EraseTask, CountIdle, TypeOK, ThreadInv, OnMain,
          IdleSet
    <3>2. Cardinality(IdleSet') = Cardinality(IdleSet) + 1
      BY <3>1, IdleFinite, FS_AddElement
    <3> QED
      BY <2>1, <2>2, <3>1, <3>2 DEF IdleCount, Count, IdleSet
  <2> QED
    BY <2>3, <2>4
<1>19. ASSUME NEW t \in Threads, IdleYield(t) PROVE BaseInv'
  <2>1. ThreadInv'
    BY <1>19
    DEF IdleYield, SaveContext, SetThis, UncountIdle, TypeOK, ThreadInv,
        OnMain, OnTask
  <2>2. /\ IdleSet' = IdleSet \ {t}
        /\ t \in IdleSet
        /\ m_idleThreadCount' = m_idleThreadCount - 1
    BY <1>19
    DEF IdleYield, SaveContext, SetThis, UncountIdle, TypeOK, ThreadInv,
        OnMain, IdleSet
  <2>3. /\ IsFiniteSet(IdleSet')
        /\ Cardinality(IdleSet') = Cardinality(IdleSet) - 1
    BY <2>2, IdleFinite, FS_RemoveElement
  <2>4. IdleCount' /\ m_idleThreadCount' \in Nat
    BY <2>2, <2>3, FS_CardinalityType DEF IdleCount, Count, IdleSet
  <2>5. TypeOK'
    BY <1>19, <2>4
    DEF IdleYield, SaveContext, SetThis, UncountIdle, TypeOK, States, PCs
  <2> QED
    BY <2>1, <2>4, <2>5
<1>20. CASE UNCHANGED vars
  BY <1>20 DEF vars, TypeOK, ThreadInv, OnMain, OnTask, IdleCount, Count
<1> QED
  BY <1>1, <1>2, <1>3, <1>4, <1>5, <1>6, <1>7, <1>8, <1>9, <1>10, <1>11,
      <1>12, <1>13, <1>14, <1>15, <1>16, <1>17, <1>18, <1>19, <1>20
  DEF Next, OwnerStep, StopStep, WorkerStep, TaskStep
(* Reading BaseInv off a behaviour.                                        *)
LEMMA BaseAlways == Spec => []BaseInv
<1>1. Init => BaseInv
  BY BaseInit
<1>2. BaseInv /\ [Next]_vars => BaseInv'
  BY BaseStep
<1> QED
  BY <1>1, <1>2, PTL DEF Spec

(* Every variable of the scheduler keeps its type, for any number of       *)
(* threads and tasks; m_idleThreadCount, a size_t in the code, never goes  *)
(* below zero.                                                             *)
THEOREM TypeCorrect == Spec => []TypeOK
<1>1. BaseInv => TypeOK
  BY DEF BaseInv
<1> QED
  BY <1>1, BaseAlways, PTL

(* run() counts exactly the threads inside their idle fiber, whether or    *)
(* not fibers are woken early.                                             *)
THEOREM IdleCountCorrect == Spec => []IdleCount
<1>1. BaseInv => IdleCount
  BY DEF BaseInv
<1> QED
  BY <1>1, BaseAlways, PTL

(* Fiber::GetThis in a callback returns the callback's own fiber, whether  *)
(* or not fibers are woken early.                                          *)
THEOREM ThisCorrect == Spec => []ThisIsCurrent
<1>1. BaseInv => ThisIsCurrent
  BY DEF BaseInv, ThreadInv, ThisIsCurrent
<1> QED
  BY <1>1, BaseAlways, PTL

-----------------------------------------------------------------------------
(* Lists *)

(* push_back adds one element at the end.                                  *)
LEMMA InAppend ==
    ASSUME NEW S, NEW s \in Seq(S), NEW f \in S
    PROVE  /\ \A g : In(Append(s, f), g) <=> In(s, g) \/ g = f
           /\ NoRepeat(s) /\ ~In(s, f) => NoRepeat(Append(s, f))
<1>1. /\ Len(Append(s, f)) = Len(s) + 1
      /\ Append(s, f)[Len(s) + 1] = f
      /\ \A i \in 1..Len(s) : Append(s, f)[i] = s[i]
      /\ Len(s) \in Nat
  OBVIOUS
<1>2. ASSUME NEW g PROVE In(Append(s, f), g) <=> In(s, g) \/ g = f
  BY <1>1 DEF In
<1>3. ASSUME NoRepeat(s), ~In(s, f) PROVE NoRepeat(Append(s, f))
  BY <1>1, <1>3 DEF In, NoRepeat
<1> QED
  BY <1>2, <1>3

(* erase(begin()) removes one occurrence of the first element.             *)
LEMMA InTail ==
    ASSUME NEW S, NEW s \in Seq(S), s # <<>>
    PROVE  /\ Head(s) \in S
           /\ In(s, Head(s))
           /\ \A g : In(Tail(s), g) => In(s, g)
           /\ \A g : In(s, g) /\ g # Head(s) => In(Tail(s), g)
           /\ NoRepeat(s) => NoRepeat(Tail(s)) /\ ~In(Tail(s), Head(s))
<1>1. /\ Len(s) \in Nat \ {0}
      /\ Len(Tail(s)) = Len(s) - 1
      /\ Head(s) = s[1]
      /\ \A i \in 1..Len(Tail(s)) : Tail(s)[i] = s[i + 1]
      /\ Head(s) \in S
  OBVIOUS
<1>2. In(s, Head(s))
  BY <1>1 DEF In
<1>3. ASSUME NEW g, In(Tail(s), g) PROVE In(s, g)
  BY <1>1, <1>3 DEF In
<1>4. ASSUME NEW g, In(s, g), g # Head(s) PROVE In(Tail(s), g)
  <2>1. PICK i \in 1..Len(s) : s[i] = g
    BY <1>4 DEF In
  <2>2. i - 1 \in 1..Len(Tail(s)) /\ Tail(s)[i - 1] = g
    BY <1>1, <1>4, <2>1
  <2> QED
    BY <2>2 DEF In
<1>5. ASSUME NoRepeat(s) PROVE NoRepeat(Tail(s)) /\ ~In(Tail(s), Head(s))
  BY <1>1, <1>5 DEF In, NoRepeat
<1> QED
  BY <1>1, <1>2, <1>3, <1>4, <1>5
-----------------------------------------------------------------------------
(* Who holds a task, who leaves it, and what its state is meanwhile *)

LEMMA TaskInit == Init => TaskInv
<1> SUFFICES ASSUME Init PROVE TaskInv
  OBVIOUS
<1> USE SchedulerAssumption DEF SchedulerAssumption, Fibers, Init
<1>1. \A f : ~InList(f)
  BY DEF InList, In
<1>2. NoRepeat(m_tasks)
  BY DEF NoRepeat
<1>3. HolderInv /\ LeaverInv
  BY DEF HolderInv, LeaverInv, Holds, Leaves
<1>4. StateInv
  BY <1>1 DEF StateInv, Due, Resumes
<1>5. EndInv
  BY DEF EndInv, AbortsOnlyArmed
<1> QED
  BY <1>1, <1>2, <1>3, <1>4, <1>5 DEF TaskInv, ListInv

Busy == {"resume", "swapin"} \cup OnTask

(* A step of the owner, or of a thread with its idle fiber.                *)
LEMMA QuietStep ==
    ASSUME BaseInv, TaskInv, proc = "up", proc' \in {"up", "exited"},
           UNCHANGED <<m_tasks, fresh, waker>>,
           \A h \in Tasks : m_state'[h] = m_state[h] /\ m_ucp'[h] = m_ucp[h],
           \A u \in Threads : pc[u] \in Busy \/ pc'[u] \in Busy =>
               pc'[u] = pc[u] /\ task'[u] = task[u] /\ stack'[u] = stack[u],
           \A u \in Threads : pc'[u] \in {"ended", "exited"} => stack'[u] = u
    PROVE  TaskInv'
<1>1. \A h : InList(h)' <=> InList(h)
  BY DEF InList
<1>2. \A h : \A u \in Threads : Holds(u, h)' <=> Holds(u, h)
  BY DEF Holds, Busy, OnTask
<1>3. \A h : \A u \in Threads : Leaves(u, h)' <=> Leaves(u, h)
  BY DEF Leaves, Busy, OnTask
<1>4. \A h : \A u \in Threads : Resumes(u, h)' <=> Resumes(u, h)
  BY DEF Resumes, Busy, OnTask
<1>5. \A u \in Threads : \A p \in Busy : pc'[u] = p <=> pc[u] = p
  OBVIOUS
<1>6. HolderInv'
  BY <1>1, <1>2, <1>5 DEF TaskInv, HolderInv, Busy, OnTask
<1>7. LeaverInv'
  BY <1>2, <1>3, <1>5 DEF TaskInv, LeaverInv, Busy, OnTask
<1>8. ListInv'
  BY <1>1 DEF TaskInv, ListInv
<1>9. \A h : Due(h)' <=> Due(h)
  BY <1>1, <1>4 DEF Due
<1>10. StateInv'
  BY <1>3, <1>5, <1>9 DEF TaskInv, StateInv, Busy, OnTask
<1>11. EndInv'
  BY DEF EndInv, AbortsOnlyArmed
<1> QED
  BY <1>6, <1>7, <1>8, <1>10, <1>11 DEF TaskInv

(* schedule() of a fiber that was never scheduled since it was made.       *)
LEMMA SubmitStep ==
    ASSUME BaseInv, TaskInv, proc = "up", NEW f \in fresh,
           fresh' = fresh \ {f}, m_tasks' = Append(m_tasks, f),
           UNCHANGED <<fiberVars, pc, task, waker, proc>>
    PROVE  TaskInv'
<1>1. f \in Tasks
  BY DEF BaseInv, TypeOK
<1>2. ~InList(f) /\ f \notin waker /\ m_state[f] = "INIT"
  BY <1>1 DEF TaskInv, ListInv, StateInv
<1>3. /\ \A h : InList(h)' <=> InList(h) \/ h = f
      /\ NoRepeat(m_tasks')
  BY <1>1, <1>2, InAppend DEF InList, BaseInv, TypeOK, TaskInv, ListInv
<1>4. \A h : \A u \in Threads :
          /\ Holds(u, h)' <=> Holds(u, h)
          /\ Leaves(u, h)' <=> Leaves(u, h)
          /\ Resumes(u, h)' <=> Resumes(u, h)
  BY DEF Holds, Leaves, Resumes, fiberVars
<1>5. HolderInv'
  BY <1>1, <1>3, <1>4 DEF TaskInv, HolderInv, fiberVars
<1>6. LeaverInv'
  BY <1>4 DEF TaskInv, LeaverInv, fiberVars
<1>7. ListInv'
  BY <1>2, <1>3 DEF TaskInv, ListInv
<1>8. \A h : Due(h)' <=> Due(h) \/ h = f
  BY <1>3, <1>4 DEF Due
<1>9. StateInv'
  BY <1>2, <1>4, <1>8 DEF TaskInv, StateInv, fiberVars
<1>10. EndInv'
  BY DEF TaskInv, EndInv, AbortsOnlyArmed, fiberVars
<1> QED
  BY <1>5, <1>6, <1>7, <1>9, <1>10 DEF TaskInv

(* A thread on the stack of a task holds it or is leaving it.              *)
LEMMA OnStack ==
    ASSUME BaseInv, TaskInv, NEW f \in Tasks, NEW t \in Threads, stack[t] = f
    PROVE  Holds(t, f) \/ Leaves(t, f)
<1>1. f # t /\ f # Main
  BY SchedulerAssumption DEF SchedulerAssumption, Fibers
<1>2. pc[t] \in OnTask
  BY <1>1
  DEF BaseInv, TypeOK, ThreadInv, PCs, OnMain, OnTask, TaskInv, EndInv
<1> QED
  BY <1>2 DEF OnTask, Holds, Leaves

LEMMA TaskNext == BaseInv /\ TaskInv /\ [Next]_vars => TaskInv'
<1> SUFFICES ASSUME BaseInv, TaskInv, [Next]_vars PROVE TaskInv'
  OBVIOUS
<1> USE SchedulerAssumption
    DEF SchedulerAssumption, Fibers, At, OwnerAt, Goto, fiberVars, boundVars
<1> DEFINE Frame == UNCHANGED <<m_tasks, fresh, waker, proc>>
<1>1. CASE Start \/ Stop \/ StopDrained \/ StopJoin \/ Destroy
  <2>1. /\ proc = "up" /\ Frame
        /\ UNCHANGED <<m_state, m_ucp, stack, task>>
        /\ \A u \in Threads : pc'[u] = pc[u] \/ (pc[u] = "off" /\ pc'[u] = "poll")
    BY <1>1
    DEF Start, Stop, StopDrained, StopJoin, Destroy, BaseInv, ThreadInv, TypeOK
  <2>2. \A u \in Threads : pc'[u] \in {"ended", "exited"} => stack'[u] = u
    BY <2>1 DEF TaskInv, EndInv
  <2> QED
    BY <2>1, <2>2, QuietStep DEF Busy, OnTask
<1>2. ASSUME NEW t \in Threads, IdleResume(t) \/ IdleYield(t) \/ ContextEnd(t)
      PROVE  TaskInv'
  <2>1. /\ proc = "up" /\ proc' \in {"up", "exited"}
        /\ UNCHANGED <<m_tasks, fresh, waker, task>>
    BY <1>2 DEF IdleResume, IdleYield, ContextEnd
  <2>2. \A h \in Tasks : m_state'[h] = m_state[h] /\ m_ucp'[h] = m_ucp[h]
    BY <1>2
    DEF IdleResume, IdleYield, ContextEnd, SaveContext, BaseInv, TypeOK
  <2>3. \A u \in Threads : u # t => pc'[u] = pc[u] /\ stack'[u] = stack[u]
    BY <1>2
    DEF IdleResume, IdleYield, ContextEnd, SaveContext, BaseInv, TypeOK
  <2>4. /\ pc[t] \notin Busy /\ pc'[t] \notin Busy
        /\ pc'[t] \in {"ended", "exited"} => stack'[t] = t
    BY <1>2
    DEF IdleResume, IdleYield, ContextEnd, SaveContext, BaseInv, TypeOK,
        Busy, OnTask, TaskInv, EndInv
  <2> QED
    BY <2>1, <2>2, <2>3, <2>4, QuietStep DEF TaskInv, EndInv
<1>3. ASSUME NEW f \in Tasks, OwnerSchedule(f) PROVE TaskInv'
  BY <1>3, SubmitStep DEF OwnerSchedule, Schedule
<1>4. ASSUME NEW t \in Threads, NEW g \in Tasks, TaskSchedule(t, g)
      PROVE  TaskInv'
  BY <1>4, SubmitStep DEF TaskSchedule, Schedule
<1>5. ASSUME NEW f \in Tasks, OwnerReset(f) PROVE TaskInv'
  <2>1. \A h : InList(h)' <=> InList(h)
    BY <1>5 DEF OwnerReset, InList
  <2>2. \A h : \A u \in Threads :
            /\ Holds(u, h)' <=> Holds(u, h)
            /\ Leaves(u, h)' <=> Leaves(u, h)
            /\ Resumes(u, h)' <=> Resumes(u, h)
    BY <1>5 DEF OwnerReset, Holds, Leaves, Resumes
  <2>3. \A h : Due(h)' <=> Due(h)
    BY <1>5, <2>1, <2>2 DEF OwnerReset, Due
  <2>4. /\ \A u \in Threads : ~Leaves(u, f)
        /\ ~Due(f)
    BY <1>5 DEF OwnerReset, SwappedOut, Leaves, TaskInv, StateInv
  <2>5. \A u \in Threads : ~Holds(u, f)
    BY <1>5, <2>4 DEF OwnerReset, SwappedOut, Holds, Due, Resumes
  <2>6. /\ m_state'[f] = "INIT" /\ m_ucp'[f] = "start"
        /\ \A h \in Tasks \ {f} : m_state'[h] = m_state[h] /\ m_ucp'[h] = m_ucp[h]
        /\ fresh' = fresh \cup {f}
        /\ UNCHANGED <<stack, pc, task, m_tasks, waker, proc>>
    BY <1>5 DEF OwnerReset, ResetState, MakeContext, BaseInv, TypeOK
  <2>7. HolderInv'
    BY <2>1, <2>2, <2>5, <2>6 DEF TaskInv, HolderInv
  <2>8. LeaverInv'
    BY <2>2, <2>4, <2>6 DEF TaskInv, LeaverInv
  <2>9. ListInv'
    BY <2>1, <2>4, <2>6 DEF TaskInv, ListInv, Due
  <2>10. StateInv'
    BY <2>2, <2>3, <2>4, <2>6 DEF TaskInv, StateInv, Due
  <2>11. EndInv'
    BY <2>6 DEF TaskInv, EndInv, AbortsOnlyArmed
  <2> QED
    BY <2>7, <2>8, <2>9, <2>10, <2>11 DEF TaskInv
<1>6. ASSUME NEW f \in Tasks, Wake(f) PROVE TaskInv'
  <2>1. ~InList(f) /\ f \notin fresh /\ Due(f) /\ NoRepeat(m_tasks)
    BY <1>6 DEF Wake, TaskInv, ListInv, StateInv, Due
  <2>2. /\ \A h : InList(h)' <=> InList(h) \/ h = f
        /\ NoRepeat(m_tasks')
    BY <1>6, <2>1, InAppend DEF Wake, Schedule, InList, BaseInv, TypeOK
  <2>3. \A h : \A u \in Threads :
            /\ Holds(u, h)' <=> Holds(u, h)
            /\ Leaves(u, h)' <=> Leaves(u, h)
            /\ Resumes(u, h)' <=> Resumes(u, h)
    BY <1>6 DEF Wake, Holds, Leaves, Resumes
  <2>4. \A h \in Tasks : Due(h)' <=> Due(h)
    BY <1>6, <2>1, <2>2, <2>3 DEF Wake, Due
  <2>5. /\ waker' = waker \ {f} /\ f \in waker
        /\ UNCHANGED <<m_state, m_ucp, stack, pc, task, fresh, proc>>
    BY <1>6 DEF Wake
  <2>6. HolderInv'
    BY <2>2, <2>3, <2>5 DEF TaskInv, HolderInv
  <2>7. LeaverInv'
    BY <2>3, <2>5 DEF TaskInv, LeaverInv
  <2>8. ListInv'
    BY <2>1, <2>2, <2>5 DEF TaskInv, ListInv
  <2>9. StateInv'
    BY <2>3, <2>4, <2>5 DEF TaskInv, StateInv
  <2>10. EndInv'
    BY <2>5 DEF TaskInv, EndInv, AbortsOnlyArmed
  <2> QED
    BY <2>6, <2>7, <2>8, <2>9, <2>10 DEF TaskInv
<1>7. ASSUME NEW t \in Threads, Poll(t) PROVE TaskInv'
  <2>1. CASE m_tasks = <<>>
    <3>1. /\ proc = "up" /\ Frame /\ UNCHANGED <<m_state, m_ucp, stack>>
          /\ pc[t] \notin Busy /\ pc'[t] = "idle"
          /\ \A u \in Threads : u # t => pc'[u] = pc[u] /\ task'[u] = task[u]
      BY <1>7, <2>1 DEF Poll, NoTask, BaseInv, TypeOK, Busy, OnTask
    <3> QED
      BY <3>1, QuietStep DEF TaskInv, EndInv, Busy, OnTask
  <2>2. CASE m_tasks # <<>>
    <3>1. PICK f \in Tasks : f = Head(m_tasks)
      BY <2>2, InTail DEF BaseInv, TypeOK
    <3>2. /\ task' = [task EXCEPT ![t] = f]
          /\ pc' = [pc EXCEPT ![t] = "resume"]
          /\ m_tasks' = Tail(m_tasks)
          /\ pc[t] = "poll" /\ proc = "up"
          /\ UNCHANGED <<m_state, m_ucp, stack, fresh, waker, proc>>
      BY <1>7, <2>2, <3>1 DEF Poll, NoTask, EraseTask
    <3>3. /\ InList(f) /\ ~InList(f)'
          /\ \A h : InList(h)' => InList(h)
          /\ NoRepeat(m_tasks')
      BY <2>2, <3>1, <3>2, InTail
      DEF InList, BaseInv, TypeOK, TaskInv, ListInv
    <3>4. f \notin fresh /\ f \notin waker /\ \A u \in Threads : ~Holds(u, f)
      BY <3>3 DEF TaskInv, ListInv, HolderInv
    <3>5. /\ pc'[t] = "resume" /\ task'[t] = f
          /\ \A u \in Threads : u # t => pc'[u] = pc[u] /\ task'[u] = task[u]
      BY <3>2 DEF BaseInv, TypeOK
    <3>6. \A h : \A u \in Threads :
              /\ Holds(u, h)' <=> Holds(u, h) \/ (u = t /\ h = f)
              /\ Leaves(u, h)' <=> Leaves(u, h)
              /\ Resumes(u, h)' <=> Resumes(u, h) \/ (u = t /\ h = f)
      BY <3>2, <3>5 DEF Holds, Leaves, Resumes
    <3>7. HolderInv'
      <4>1. \A h : ~Holds(t, h)
        BY <3>2 DEF Holds
      <4> QED
        BY <3>2, <3>3, <3>4, <3>5, <3>6, <4>1 DEF TaskInv, HolderInv
    <3>8. LeaverInv'
      BY <3>2, <3>5, <3>6 DEF TaskInv, LeaverInv
    <3>9. ListInv'
      BY <3>2, <3>3 DEF TaskInv, ListInv
    <3>10. \A h \in Tasks : Due(h)' => Due(h)
      BY <3>2, <3>3, <3>6 DEF Due
    <3>11. StateInv'
      BY <3>2, <3>5, <3>6, <3>10 DEF TaskInv, StateInv
    <3>12. EndInv'
      BY <3>2, <3>5 DEF TaskInv, EndInv, AbortsOnlyArmed
    <3> QED
      BY <3>7, <3>8, <3>9, <3>11, <3>12 DEF TaskInv
  <2> QED
    BY <2>1, <2>2
<1>8. ASSUME NEW t \in Threads, Resume(t) PROVE TaskInv'
  <2> DEFINE f == task[t]
  <2>1. /\ f \in Tasks /\ pc[t] = "resume" /\ proc = "up"
        /\ pc'[t] = "swapin"
        /\ \A u \in Threads : u # t => pc'[u] = pc[u]
        /\ UNCHANGED <<m_state, m_ucp, stack, task, m_tasks, fresh, waker>>
        /\ m_state[f] \in {"RUNNING", "TERM"} => proc' = "aborted"
        /\ m_state[f] \notin {"RUNNING", "TERM"} => proc' = "up"
    BY <1>8 DEF Resume, BaseInv, TypeOK, ThreadInv
  <2>2. m_state[f] \in States
    BY <2>1 DEF BaseInv, TypeOK
  <2> HIDE DEF f
  <2>3. \A h : InList(h)' <=> InList(h)
    BY <2>1 DEF InList
  <2>4. \A h : \A u \in Threads :
            /\ Holds(u, h)' <=> Holds(u, h)
            /\ Leaves(u, h)' <=> Leaves(u, h)
            /\ Resumes(u, h)' <=> Resumes(u, h)
    BY <2>1 DEF Holds, Leaves, Resumes
  <2>5. Holds(t, f) /\ Due(f) /\ \A h : Holds(t, h) => h = f
    BY <2>1 DEF f, Holds, Due, Resumes
  <2>6. HolderInv'
    BY <2>1, <2>2, <2>3, <2>4, <2>5 DEF TaskInv, HolderInv, States
  <2>7. LeaverInv'
    <3>1. \A u \in Threads : \A h : Leaves(u, h) => pc'[u] = pc[u]
      BY <2>1 DEF Leaves
    <3>2. \A u \in Threads : pc'[u] \in {"run", "swapoutEnd"} => pc[u] = pc'[u]
      BY <2>1
    <3> QED
      BY <2>1, <2>4, <3>1, <3>2 DEF TaskInv, LeaverInv
  <2>8. ListInv'
    BY <2>1, <2>3 DEF TaskInv, ListInv
  <2>9. StateInv'
    <3>1. \A h \in Tasks : Due(h)' <=> Due(h)
      BY <2>1, <2>3, <2>4 DEF Due
    <3>2. \A u \in Threads : \A h : Leaves(u, h) => pc'[u] = pc[u]
      BY <2>1 DEF Leaves
    <3> QED
      BY <2>1, <2>4, <3>1, <3>2 DEF TaskInv, StateInv
  <2>10. EndInv'
    <3>1. ASSUME m_state[f] \notin {"INIT", "READY"}
          PROVE  \E u \in Threads : pc'[u] = "armed" /\ stack'[u] = f
      <4>1. PICK u \in Threads : Leaves(u, f) /\ pc[u] = "armed"
        BY <2>1, <2>5, <3>1 DEF TaskInv, StateInv
      <4>2. u # t
        BY <2>1, <4>1
      <4> QED
        BY <2>1, <4>1, <4>2 DEF Leaves
    <3>2. AbortsOnlyArmed'
      BY <2>1, <2>2, <3>1 DEF AbortsOnlyArmed, States, f
    <3> QED
      BY <2>1, <3>2 DEF TaskInv, EndInv
  <2> QED
    BY <2>6, <2>7, <2>8, <2>9, <2>10 DEF TaskInv
<1>9. ASSUME NEW t \in Threads, SwapIn(t) PROVE TaskInv'
  <2>0. PICK f \in Tasks : f = task[t]
    BY <1>9 DEF SwapIn, BaseInv, ThreadInv
  <2>1. f = task[t] /\ pc[t] = "swapin" /\ proc = "up" /\ stack[t] = Main
    BY <1>9, <2>0 DEF SwapIn, BaseInv, ThreadInv, OnMain
  <2>2. Holds(t, f) /\ \A h : Holds(t, h) => h = f
    BY <2>1 DEF Holds
  <2>3. m_state[f] \in {"INIT", "READY"} /\ m_ucp[f] # "end"
    BY <2>1, <2>2 DEF TaskInv, HolderInv, StateInv
  <2>4. \A u \in Threads : Leaves(u, f) => pc[u] = "swapout"
    BY <2>1, <2>3 DEF TaskInv, LeaverInv, Leaves
  <2>5. ASSUME NEW u \in Threads, stack[u] = f PROVE Leaves(u, f)
    BY <2>1, <2>2, <2>5, OnStack DEF TaskInv, HolderInv
  <2>6. /\ pc'[t] = "run" /\ stack'[t] = f
        /\ \A u \in Threads : u # t => pc'[u] = pc[u] /\ stack'[u] = stack[u]
        /\ m_state'[f] = "RUNNING"
        /\ \A h \in Tasks : h # f => m_state'[h] = m_state[h]
        /\ UNCHANGED <<m_ucp, task, m_tasks, fresh, waker>>
    BY <1>9, <2>1, <2>3 DEF SwapIn, BaseInv, TypeOK
  <2>7. /\ SwappedOut(f) => proc' = "up"
        /\ ~SwappedOut(f) => proc' = "corrupt"
    BY <1>9, <2>1 DEF SwapIn
  <2>8. \A h : InList(h)' <=> InList(h)
    BY <2>6 DEF InList
  <2>9. \A h \in Tasks : \A u \in Threads :
            /\ Holds(u, h)' <=> Holds(u, h)
            /\ Leaves(u, h)' <=> Leaves(u, h)
            /\ Resumes(u, h)' => Resumes(u, h)
    BY <2>1, <2>6 DEF Holds, Leaves, Resumes
  <2>10. HolderInv'
    <3>1. ASSUME NEW h \in Tasks, NEW u \in Threads, Holds(u, h), h # f
          PROVE  u # t
      BY <2>2, <3>1
    <3>2. \A u \in Threads : Holds(u, f) => u = t
      BY <2>1, <2>2 DEF TaskInv, HolderInv
    <3> QED
      BY <2>1, <2>6, <2>7, <2>8, <2>9, <3>1, <3>2 DEF TaskInv, HolderInv
  <2>11. LeaverInv'
    <3>1. ASSUME NEW u \in Threads, Leaves(u, f) PROVE proc' = "corrupt"
      BY <2>7, <3>1 DEF SwappedOut, Leaves
    <3>2. \A u \in Threads : \A h \in Tasks : Leaves(u, h) => u # t
      BY <2>1 DEF Leaves
    <3>3. \A u \in Threads : \A h \in Tasks : Holds(u, h) /\ h # f => u # t
      BY <2>2
    <3> QED
      BY <2>1, <2>4, <2>6, <2>7, <2>9, <3>1, <3>2, <3>3
      DEF TaskInv, LeaverInv
  <2>12. ListInv'
    BY <2>6, <2>8 DEF TaskInv, ListInv
  <2>13. StateInv'
    <3>1. \A h \in Tasks : Due(h)' => Due(h)
      BY <2>6, <2>8, <2>9 DEF Due
    <3>2. ~Due(f)'
      <4>1. f \notin waker /\ ~InList(f)
        BY <2>1, <2>2 DEF TaskInv, HolderInv
      <4>2. \A u \in Threads : ~Resumes(u, f)'
        <5>1. \A u \in Threads : Holds(u, f) => u = t
          BY <2>1, <2>2 DEF TaskInv, HolderInv
        <5> QED
          BY <2>6, <5>1 DEF Resumes, Holds
      <4> QED
        BY <2>6, <2>8, <4>1, <4>2 DEF Due
    <3>3. \A u \in Threads : \A h \in Tasks : Leaves(u, h) => u # t
      BY <2>1 DEF Leaves
    <3>4. f \notin fresh
      BY <2>1, <2>2 DEF TaskInv, HolderInv
    <3> QED
      BY <2>3, <2>6, <2>9, <3>1, <3>2, <3>3, <3>4 DEF TaskInv, StateInv
  <2>14. EndInv'
    BY <2>1, <2>6, <2>7 DEF TaskInv, EndInv, AbortsOnlyArmed
  <2> QED
    BY <2>10, <2>11, <2>12, <2>13, <2>14 DEF TaskInv
<1>10. ASSUME NEW t \in Threads, TaskArm(t) PROVE TaskInv'
  <2> DEFINE f == stack[t]
  <2>1. /\ f \in Tasks /\ pc[t] = "run" /\ proc = "up" /\ pc'[t] = "armed"
        /\ \A u \in Threads : u # t => pc'[u] = pc[u]
        /\ waker' = waker \cup {f}
        /\ UNCHANGED <<m_state, m_ucp, stack, task, m_tasks, fresh, proc>>
    BY <1>10 DEF TaskArm, BaseInv, TypeOK, ThreadInv, OnTask
  <2>2. Holds(t, f) /\ \A h : Holds(t, h) => h = f
    BY <2>1 DEF Holds
  <2>3. /\ f \notin fresh /\ ~InList(f) /\ m_state[f] = "RUNNING"
        /\ \A u \in Threads : Holds(u, f) => u = t
    BY <2>1, <2>2 DEF TaskInv, HolderInv
  <2>4. \A u \in Threads : ~Leaves(u, f)
    BY <2>1, <2>2 DEF TaskInv, LeaverInv
  <2>5. stack'[t] = f
    BY <2>1
  <2> HIDE DEF f
  <2>6. \A h : InList(h)' <=> InList(h)
    BY <2>1 DEF InList
  <2>7. \A h \in Tasks : \A u \in Threads :
            /\ Holds(u, h)' <=> Holds(u, h) /\ u # t
            /\ Leaves(u, h)' <=> Leaves(u, h) \/ (u = t /\ h = f)
            /\ Resumes(u, h)' <=> Resumes(u, h)
    BY <2>1, <2>5 DEF Holds, Leaves, Resumes
  <2>8. HolderInv'
    BY <2>1, <2>3, <2>6, <2>7 DEF TaskInv, HolderInv
  <2>9. LeaverInv'
    <3>1. \A h \in Tasks : ~Leaves(t, h)
      BY <2>1 DEF Leaves
    <3> QED
      BY <2>1, <2>3, <2>4, <2>7, <3>1 DEF TaskInv, LeaverInv
  <2>10. ListInv'
    BY <2>1, <2>3, <2>6 DEF TaskInv, ListInv
  <2>11. StateInv'
    <3>1. \A h \in Tasks : h # f => (Due(h)' <=> Due(h))
      BY <2>1, <2>6, <2>7 DEF Due
    <3>2. \A u \in Threads : \A h \in Tasks : Leaves(u, h) => u # t
      BY <2>1 DEF Leaves
    <3> QED
      BY <2>1, <2>3, <2>7, <3>1, <3>2 DEF TaskInv, StateInv
  <2>12. EndInv'
    BY <2>1 DEF TaskInv, EndInv, AbortsOnlyArmed
  <2> QED
    BY <2>8, <2>9, <2>10, <2>11, <2>12 DEF TaskInv
<1>11. ASSUME NEW t \in Threads, TaskYield(t) PROVE TaskInv'
  <2> DEFINE f == stack[t]
  <2>1. f \in Tasks /\ pc[t] = "armed" /\ proc = "up" /\ Leaves(t, f)
    BY <1>11 DEF TaskYield, BaseInv, ThreadInv, OnTask, Leaves
  <2>2. /\ m_state[f] = "RUNNING" /\ f \notin fresh
        /\ \A u \in Threads : Leaves(u, f) => u = t
    BY <2>1 DEF TaskInv, LeaverInv
  <2>3. /\ pc'[t] = "swapout" /\ proc' = "up"
        /\ \A u \in Threads : u # t => pc'[u] = pc[u]
        /\ m_state'[f] = "READY"
        /\ \A h \in Tasks : h # f => m_state'[h] = m_state[h]
        /\ UNCHANGED <<m_ucp, stack, task, m_tasks, fresh, waker>>
    BY <1>11, <2>1, <2>2 DEF TaskYield, YieldState, BaseInv, TypeOK
  <2>4. \A u \in Threads : Holds(u, f) => pc[u] = "resume"
    BY <2>1, <2>2 DEF TaskInv, HolderInv, LeaverInv, Holds
  <2> HIDE DEF f
  <2>5. \A h : InList(h)' <=> InList(h)
    BY <2>3 DEF InList
  <2>6. \A h \in Tasks : \A u \in Threads :
            /\ Holds(u, h)' <=> Holds(u, h)
            /\ Leaves(u, h)' <=> Leaves(u, h)
            /\ Resumes(u, h)' <=> Resumes(u, h)
    BY <2>1, <2>3 DEF Holds, Leaves, Resumes
  <2>7. \A h \in Tasks : Leaves(t, h) => h = f
    BY <2>1 DEF Leaves, f
  <2>8. HolderInv'
    <3>1. \A u \in Threads : \A h \in Tasks : Holds(u, h) => u # t
      BY <2>1 DEF Holds
    <3> QED
      BY <2>1, <2>3, <2>4, <2>5, <2>6, <3>1 DEF TaskInv, HolderInv
  <2>9. LeaverInv'
    <3>1. \A u \in Threads : \A h \in Tasks : Holds(u, h) => u # t
      BY <2>1 DEF Holds
    <3> QED
      BY <2>1, <2>2, <2>3, <2>4, <2>6, <2>7, <3>1 DEF TaskInv, LeaverInv
  <2>10. ListInv'
    BY <2>3, <2>5 DEF TaskInv, ListInv
  <2>11. StateInv'
    <3>1. \A h \in Tasks : Due(h)' <=> Due(h)
      BY <2>3, <2>5, <2>6 DEF Due
    <3>2. m_ucp[f] # "end"
      BY <2>1, <2>2 DEF TaskInv, StateInv
    <3>3. \A u \in Threads : \A h \in Tasks : h # f /\ Leaves(u, h) => u # t
      BY <2>7
    <3> QED
      BY <2>2, <2>3, <2>6, <3>1, <3>2, <3>3 DEF TaskInv, StateInv
  <2>12. EndInv'
    BY <2>1, <2>3 DEF TaskInv, EndInv, AbortsOnlyArmed
  <2> QED
    BY <2>8, <2>9, <2>10, <2>11, <2>12 DEF TaskInv
<1>12. ASSUME NEW t \in Threads, TaskFinish(t) PROVE TaskInv'
  <2> DEFINE f == stack[t]
  <2>1. /\ f \in Tasks /\ pc[t] = "run" /\ proc = "up" /\ Holds(t, f)
        /\ pc'[t] = "swapoutEnd"
        /\ \A u \in Threads : u # t => pc'[u] = pc[u]
        /\ m_state'[f] = "TERM"
        /\ \A h \in Tasks : h # f => m_state'[h] = m_state[h]
        /\ UNCHANGED <<m_ucp, stack, task, m_tasks, fresh, waker, proc>>
    BY <1>12 DEF TaskFinish, BaseInv, TypeOK, ThreadInv, OnTask, Holds
  <2>2. /\ f \notin fresh /\ f \notin waker /\ ~InList(f)
        /\ \A u \in Threads : Holds(u, f) => u = t
    BY <2>1 DEF TaskInv, HolderInv
  <2>3. \A u \in Threads : ~Leaves(u, f)
    BY <2>1 DEF TaskInv, LeaverInv
  <2>4. \A h \in Tasks : Holds(t, h) => h = f
    BY <2>1 DEF Holds
  <2> HIDE DEF f
  <2>5. \A h : InList(h)' <=> InList(h)
    BY <2>1 DEF InList
  <2>6. \A h \in Tasks : \A u \in Threads :
            /\ Holds(u, h)' <=> Holds(u, h)
            /\ Leaves(u, h)' <=> Leaves(u, h)
            /\ Resumes(u, h)' <=> Resumes(u, h)
    BY <2>1 DEF Holds, Leaves, Resumes
  <2>7. HolderInv'
    BY <2>1, <2>2, <2>4, <2>5, <2>6 DEF TaskInv, HolderInv
  <2>8. LeaverInv'
    <3>1. \A u \in Threads : \A h \in Tasks : Leaves(u, h) => u # t /\ h # f
      BY <2>1, <2>3 DEF Leaves
    <3>2. \A u \in Threads : \A h \in Tasks : h # f /\ Holds(u, h) => u # t
      BY <2>4
    <3> QED
      BY <2>1, <2>6, <3>1, <3>2 DEF TaskInv, LeaverInv
  <2>9. ListInv'
    BY <2>1, <2>5 DEF TaskInv, ListInv
  <2>10. StateInv'
    <3>1. \A h \in Tasks : Due(h)' <=> Due(h)
      BY <2>1, <2>5, <2>6 DEF Due
    <3>2. ~Due(f)
      BY <2>1, <2>2 DEF Due, Resumes, Holds
    <3>3. \A u \in Threads : \A h \in Tasks : Leaves(u, h) => u # t
      BY <2>1 DEF Leaves
    <3> QED
      BY <2>1, <2>2, <2>6, <3>1, <3>2, <3>3 DEF TaskInv, StateInv
  <2>11. EndInv'
    BY <2>1 DEF TaskInv, EndInv, AbortsOnlyArmed
  <2> QED
    BY <2>7, <2>8, <2>9, <2>10, <2>11 DEF TaskInv
<1>13. ASSUME NEW t \in Threads, SwapOut(t) PROVE TaskInv'
  <2> DEFINE f == stack[t]
  <2>1. /\ f \in Tasks /\ pc[t] \in {"swapout", "swapoutEnd"} /\ proc = "up"
        /\ pc'[t] = "poll" /\ stack'[t] = Main
        /\ \A u \in Threads : u # t => pc'[u] = pc[u] /\ stack'[u] = stack[u]
        /\ m_ucp'[f] = "end" => pc[t] = "swapoutEnd"
        /\ \A h \in Tasks : h # f => m_ucp'[h] = m_ucp[h]
        /\ UNCHANGED <<m_state, task, m_tasks, fresh, waker, proc>>
    BY <1>13 DEF SwapOut, SaveContext, BaseInv, TypeOK, ThreadInv, OnTask
  <2>2. \A h \in Tasks : Holds(t, h) \/ Leaves(t, h) => h = f
    BY <2>1 DEF Holds, Leaves
  <2>3. m_ucp'[f] = "end" => m_state[f] = "TERM"
    BY <2>1 DEF TaskInv, HolderInv, Holds
  <2>4. \A u \in Threads : \A h \in Tasks : Leaves(u, h) /\ pc[u] = "armed" => u # t
    BY <2>1
  <2> HIDE DEF f
  <2>5. \A h : InList(h)' <=> InList(h)
    BY <2>1 DEF InList
  <2>6. \A h \in Tasks : \A u \in Threads :
            /\ Holds(u, h)' <=> Holds(u, h) /\ u # t
            /\ Leaves(u, h)' <=> Leaves(u, h) /\ u # t
            /\ Resumes(u, h)' <=> Resumes(u, h)
    BY <2>1 DEF Holds, Leaves, Resumes
  <2>7. HolderInv'
    BY <2>1, <2>5, <2>6 DEF TaskInv, HolderInv
  <2>8. LeaverInv'
    BY <2>1, <2>6 DEF TaskInv, LeaverInv
  <2>9. ListInv'
    BY <2>1, <2>5 DEF TaskInv, ListInv
  <2>10. StateInv'
    <3>1. \A h \in Tasks : Due(h)' <=> Due(h)
      BY <2>1, <2>5, <2>6 DEF Due
    <3> QED
      BY <2>1, <2>3, <2>4, <2>6, <3>1 DEF TaskInv, StateInv
  <2>11. EndInv'
    BY <2>1 DEF TaskInv, EndInv, AbortsOnlyArmed
  <2> QED
    BY <2>7, <2>8, <2>9, <2>10, <2>11 DEF TaskInv
<1>14. CASE UNCHANGED vars
  <2>1. \A h : InList(h)' <=> InList(h)
    BY <1>14 DEF vars, InList
  <2>2. \A h : \A u \in Threads :
            /\ Holds(u, h)' <=> Holds(u, h)
            /\ Leaves(u, h)' <=> Leaves(u, h)
            /\ Resumes(u, h)' <=> Resumes(u, h)
    BY <1>14 DEF vars, Holds, Leaves, Resumes
  <2>3. \A h : Due(h)' <=> Due(h)
    BY <1>14, <2>1, <2>2 DEF vars, Due
  <2> QED
    BY <1>14, <2>1, <2>2, <2>3
    DEF vars, TaskInv, HolderInv, LeaverInv, ListInv, StateInv, EndInv,
        AbortsOnlyArmed
<1> QED
  BY <1>1, <1>2, <1>3, <1>4, <1>5, <1>6, <1>7, <1>8, <1>9, <1>10, <1>11,
      <1>12, <1>13, <1>14
  DEF Next, OwnerStep, StopStep, WorkerStep, TaskStep

(* TaskInv holds in every state, with BaseInv.                             *)
LEMMA TaskAlways == Spec => [](BaseInv /\ TaskInv)
<1>1. Init => BaseInv /\ TaskInv
  BY BaseInit, TaskInit
<1>2. BaseInv /\ TaskInv /\ [Next]_vars => BaseInv' /\ TaskInv'
  BY BaseStep, TaskNext
<1> QED
  BY <1>1, <1>2, PTL DEF Spec

(* However many threads and tasks there are and however early a fiber is   *)
(* woken, two threads execute on one fiber's stack only if one of them is  *)
(* between the store of READY and the swapcontext of yield().              *)
THEOREM StackCorrect == Spec => []ExclusiveStack
<1>1. BaseInv /\ TaskInv => ExclusiveStack
  <2> SUFFICES ASSUME BaseInv, TaskInv,
                      NEW t \in Threads, NEW u \in Threads,
                      stack[t] = stack[u], t # u, stack[t] # Main
               PROVE  proc = "corrupt" /\ "swapout" \in {pc[t], pc[u]}
    BY DEF ExclusiveStack
  <2>1. CASE stack[t] \in Tasks
    <3> DEFINE f == stack[t]
    <3>1. /\ Holds(t, f) \/ Leaves(t, f)
          /\ Holds(u, f) \/ Leaves(u, f)
      BY <2>1, OnStack
    <3>2. ~(Holds(t, f) /\ Holds(u, f)) /\ ~(Leaves(t, f) /\ Leaves(u, f))
      BY <2>1 DEF TaskInv, HolderInv, LeaverInv
    <3>3. /\ Holds(t, f) => pc[t] \in {"run", "swapoutEnd"}
          /\ Holds(u, f) => pc[u] \in {"run", "swapoutEnd"}
      BY SchedulerAssumption
      DEF SchedulerAssumption, Fibers, Holds, BaseInv, ThreadInv, OnMain
    <3> HIDE DEF f
    <3> QED
      BY <2>1, <3>1, <3>2, <3>3 DEF f, TaskInv, LeaverInv
  <2>2. CASE stack[t] \notin Tasks
    BY <2>2, SchedulerAssumption
    DEF SchedulerAssumption, BaseInv, TypeOK, ThreadInv, OnMain, OnTask, PCs
  <2> QED
    BY <2>1, <2>2
<1> QED
  BY <1>1, TaskAlways, PTL

(* The assertion of Fiber::yield never fails, nor does that of resume() on *)
(* a terminated fiber: what can fail is resume() on a fiber that another   *)
(* thread still runs after it gave itself to a waker.                      *)
THEOREM AssertionsHold == Spec => []AbortsOnlyArmed
<1>1. BaseInv /\ TaskInv => AbortsOnlyArmed
  BY DEF TaskInv, EndInv
<1> QED
  BY <1>1, TaskAlways, PTL

(* swapcontext never enters a context at the end of mainFunc, and enters   *)
(* one that is not completely saved only in the window of yield() after    *)
(* the state READY.                                                        *)
THEOREM SavedContexts == Spec => EntersSavedContext
<1> DEFINE Entering ==
        \A t \in Threads : pc[t] = "swapin" /\ pc'[t] # "swapin" =>
            /\ m_ucp[task[t]] # "end"
            /\ \A u \in Threads : stack[u] = task[t] => pc[u] = "swapout"
<1>1. BaseInv /\ TaskInv /\ [Next]_vars => [Entering]_vars
  <2> SUFFICES ASSUME BaseInv, TaskInv, Next,
                      NEW t \in Threads, pc[t] = "swapin"
               PROVE  /\ m_ucp[task[t]] # "end"
                      /\ \A u \in Threads :
                            stack[u] = task[t] => pc[u] = "swapout"
    OBVIOUS
  <2> DEFINE f == task[t]
  <2>1. f \in Tasks /\ Holds(t, f) /\ stack[t] # f
    BY SchedulerAssumption
    DEF SchedulerAssumption, Fibers, BaseInv, ThreadInv, OnMain, Holds
  <2>2. \A u \in Threads : Holds(u, f) => u = t
    BY <2>1 DEF TaskInv, HolderInv
  <2>3. proc = "up"
    BY DEF Next, OwnerStep, StopStep, WorkerStep, TaskStep, At, OwnerAt, Start,
           OwnerSchedule, OwnerReset, Stop, StopDrained, StopJoin, Destroy,
           Wake, Poll, Resume, SwapIn, IdleResume, IdleYield, ContextEnd,
           TaskSchedule, TaskArm, TaskYield, TaskFinish, SwapOut
  <2>4. m_state[f] \in {"INIT", "READY"}
    BY <2>1, <2>3 DEF TaskInv, HolderInv
  <2>5. ASSUME NEW u \in Threads, stack[u] = f PROVE pc[u] = "swapout"
    <3>1. Leaves(u, f)
      BY <2>1, <2>2, <2>5, OnStack
    <3> QED
      BY <2>1, <2>4, <3>1 DEF TaskInv, LeaverInv, Leaves
  <2> QED
    BY <2>1, <2>4, <2>5 DEF TaskInv, StateInv
<1> QED
  BY <1>1, TaskAlways, PTL DEF Spec, EntersSavedContext
-----------------------------------------------------------------------------
(* The scheduler implements TaskPool *)

(* What TaskPool sees of a task depends on who holds or leaves it.         *)
LEMMA ActiveIs ==
    ASSUME BaseInv, NEW t \in Threads
    PROVE  /\ Active[t] = Main \/ Active[t] \in Tasks
           /\ Left[t] = Main \/ Left[t] \in Tasks
           /\ \A f \in Tasks : Active[t] = f <=> Holds(t, f)
           /\ \A f \in Tasks : Left[t] = f <=> Leaves(t, f)
  BY SchedulerAssumption
  DEF SchedulerAssumption, Fibers, BaseInv, TypeOK, ThreadInv, OnMain, OnTask,
      Active, ActiveTask, Left, LeavingTask, Holds, Leaves

LEMMA PoolStep ==
    ASSUME BaseInv, TaskInv, [Next]_vars
    PROVE  [Pool!Next]_(Pool!vars)
<1> USE SchedulerAssumption
    DEF SchedulerAssumption, Fibers, At, OwnerAt, Goto, fiberVars, boundVars
<1> DEFINE Same == UNCHANGED <<fresh, m_tasks, Active, Left, waker, Finished,
                               WokenTooEarly>>
           Alive == ~WokenTooEarly /\ UNCHANGED WokenTooEarly
<1>0. ASSUME \A u \in Threads : /\ ActiveTask(u)' = ActiveTask(u)
                                /\ LeavingTask(u)' = LeavingTask(u)
      PROVE  UNCHANGED <<Active, Left>>
  BY <1>0 DEF Active, Left
<1>1. CASE Start \/ Stop \/ StopDrained \/ StopJoin \/ Destroy
  <2>1. /\ UNCHANGED <<m_tasks, fresh, waker, proc, m_state, stack, task>>
        /\ \A u \in Threads : pc'[u] = pc[u] \/ (pc[u] = "off" /\ pc'[u] = "poll")
    BY <1>1
    DEF Start, Stop, StopDrained, StopJoin, Destroy, BaseInv, ThreadInv, TypeOK
  <2>2. UNCHANGED <<Active, Left>>
    BY <2>1, <1>0 DEF ActiveTask, LeavingTask
  <2>3. Same
    BY <2>1, <2>2 DEF Finished, Done, SwappedOut, WokenTooEarly
  <2> QED
    BY <2>3 DEF Pool!vars
<1>2. ASSUME NEW t \in Threads, IdleResume(t) \/ IdleYield(t) \/ ContextEnd(t)
      PROVE  Same
  <2>1. /\ proc = "up" /\ proc' \in {"up", "exited"}
        /\ UNCHANGED <<m_tasks, fresh, waker, task>>
    BY <1>2 DEF IdleResume, IdleYield, ContextEnd
  <2>2. \A h \in Tasks : m_state'[h] = m_state[h]
    BY <1>2
    DEF IdleResume, IdleYield, ContextEnd, SaveContext, BaseInv, TypeOK
  <2>3. \A u \in Threads : u # t => pc'[u] = pc[u] /\ stack'[u] = stack[u]
    BY <1>2
    DEF IdleResume, IdleYield, ContextEnd, SaveContext, BaseInv, TypeOK
  <2>4. /\ pc[t] \notin Busy /\ pc'[t] \notin Busy
        /\ stack[t] \notin Tasks /\ stack'[t] \notin Tasks
    BY <1>2
    DEF IdleResume, IdleYield, ContextEnd, SaveContext, BaseInv, TypeOK,
        ThreadInv, OnMain, Busy, OnTask, TaskInv, EndInv
  <2>5. UNCHANGED <<Active, Left>>
    BY <2>1, <2>3, <2>4, <1>0 DEF ActiveTask, LeavingTask, Busy, OnTask
  <2>6. \A h \in Tasks : Done(h)' <=> Done(h)
    BY <2>2, <2>3, <2>4 DEF Done, SwappedOut
  <2> QED
    BY <2>1, <2>5, <2>6 DEF Finished, WokenTooEarly
<1>3. ASSUME NEW f \in Tasks, OwnerSchedule(f)
      PROVE  ~WokenTooEarly /\ Pool!Submit(f)
  <2>1. UNCHANGED <<Active, Left, Finished>> /\ Alive
    BY <1>3
    DEF OwnerSchedule, Active, ActiveTask, Left, LeavingTask, Finished, Done,
        SwappedOut, WokenTooEarly
  <2> QED
    BY <1>3, <2>1 DEF OwnerSchedule, Schedule, Pool!Submit
<1>4. ASSUME NEW t \in Threads, NEW f \in Tasks, TaskSchedule(t, f)
      PROVE  ~WokenTooEarly /\ Pool!Submit(f)
  <2>1. UNCHANGED <<Active, Left, Finished>> /\ Alive
    BY <1>4
    DEF TaskSchedule, Active, ActiveTask, Left, LeavingTask, Finished, Done,
        SwappedOut, WokenTooEarly
  <2> QED
    BY <1>4, <2>1 DEF TaskSchedule, Schedule, Pool!Submit
<1>5. ASSUME NEW f \in Tasks, OwnerReset(f)
      PROVE  ~WokenTooEarly /\ Pool!Renew(f)
  <2>1. UNCHANGED <<m_tasks, Active, Left, waker>> /\ Alive
    BY <1>5
    DEF OwnerReset, MakeContext, Active, ActiveTask, Left, LeavingTask,
        WokenTooEarly
  <2>2. Done(f) /\ ~Done(f)'
    BY <1>5 DEF OwnerReset, ResetState, Done, BaseInv, TypeOK
  <2>3. ASSUME NEW g \in Tasks \ {f} PROVE Done(g)' <=> Done(g)
    BY <1>5 DEF OwnerReset, Done, SwappedOut
  <2>4. f \in Finished /\ Finished' = Finished \ {f}
    BY <2>2, <2>3 DEF Finished
  <2> QED
    BY <1>5, <2>1, <2>4 DEF OwnerReset, Pool!Renew
<1>6. ASSUME NEW f \in Tasks, Wake(f)
      PROVE  ~WokenTooEarly /\ Pool!Wakeup(f)
  <2>1. UNCHANGED <<fresh, Active, Left, Finished>> /\ Alive
    BY <1>6
    DEF Wake, Active, ActiveTask, Left, LeavingTask, Finished, Done,
        SwappedOut, WokenTooEarly
  <2> QED
    BY <1>6, <2>1 DEF Wake, Schedule, Pool!Wakeup
<1>7. ASSUME NEW t \in Threads, Poll(t)
      PROVE  (~WokenTooEarly /\ Pool!Take(t)) \/ Same
  <2>1. /\ UNCHANGED <<fresh, waker, Finished>> /\ Alive
        /\ pc[t] = "poll"
    BY <1>7 DEF Poll, Finished, Done, SwappedOut, WokenTooEarly
  <2>2. ActiveTask(t) = Main /\ LeavingTask(t) = Main
    BY <2>1 DEF ActiveTask, LeavingTask
  <2>3. CASE m_tasks = <<>>
    <3>1. /\ pc' = [pc EXCEPT ![t] = "idle"]
          /\ \A u \in Threads : u # t => task'[u] = task[u]
          /\ UNCHANGED <<stack, m_tasks>>
      BY <1>7, <2>3 DEF Poll, NoTask, BaseInv, TypeOK
    <3>2. UNCHANGED <<Active, Left>>
      BY <2>2, <3>1, <1>0 DEF ActiveTask, LeavingTask, BaseInv, TypeOK
    <3> QED
      BY <2>1, <3>1, <3>2
  <2>4. CASE m_tasks # <<>>
    <3>1. /\ task' = [task EXCEPT ![t] = Head(m_tasks)]
          /\ pc' = [pc EXCEPT ![t] = "resume"]
          /\ m_tasks' = Tail(m_tasks)
          /\ UNCHANGED stack
      BY <1>7, <2>4 DEF Poll, NoTask, EraseTask
    <3>2. /\ ActiveTask(t)' = Head(m_tasks) /\ LeavingTask(t)' = Main
          /\ \A u \in Threads : u # t =>
                 ActiveTask(u)' = ActiveTask(u) /\ LeavingTask(u)' = LeavingTask(u)
      BY <3>1 DEF ActiveTask, LeavingTask, BaseInv, TypeOK
    <3>3. Active' = [Active EXCEPT ![t] = Head(m_tasks)] /\ Left' = Left
      BY <2>2, <3>2 DEF Active, Left
    <3>4. Active[t] = Main /\ Left[t] = Main
      BY <2>2 DEF Active, Left
    <3> QED
      BY <2>1, <2>4, <3>1, <3>3, <3>4 DEF Pool!Take
  <2> QED
    BY <2>3, <2>4
<1>8. ASSUME NEW t \in Threads, Resume(t)
      PROVE  Same \/ (~WokenTooEarly /\ \E u \in Threads : Pool!Fail(t, u))
  <2>1. /\ pc[t] = "resume" /\ pc' = [pc EXCEPT ![t] = "swapin"]
        /\ proc = "up" /\ proc' \in {"up", "aborted"}
        /\ task[t] \in Tasks
        /\ UNCHANGED <<m_state, stack, task, m_tasks, fresh, waker>>
    BY <1>8 DEF Resume, BaseInv, ThreadInv
  <2>2. UNCHANGED <<Active, Left, Finished>>
    BY <2>1
    DEF Active, ActiveTask, Left, LeavingTask, Finished, Done, SwappedOut,
        BaseInv, TypeOK
  <2>3. CASE proc' = "up"
    BY <2>1, <2>2, <2>3 DEF WokenTooEarly
  <2>4. CASE proc' = "aborted"
    <3>1. Holds(t, task[t]) /\ Due(task[t])
      BY <2>1 DEF Holds, Due, Resumes
    <3>2. m_state[task[t]] \notin {"INIT", "READY"}
      BY <1>8, <2>1, <2>4 DEF Resume
    <3>3. PICK u \in Threads : Leaves(u, task[t])
      BY <2>1, <3>1, <3>2 DEF TaskInv, StateInv
    <3>4. u # t
      BY <2>1, <3>3 DEF Leaves
    <3>5. Active[t] = task[t] /\ Left[u] = task[t]
      BY <2>1, <3>1, <3>3, ActiveIs
    <3>6. ~WokenTooEarly /\ WokenTooEarly' = TRUE
      BY <2>1, <2>4 DEF WokenTooEarly
    <3> QED
      BY <2>1, <2>2, <3>4, <3>5, <3>6 DEF Pool!Fail
  <2> QED
    BY <2>1, <2>3, <2>4
<1>9. ASSUME NEW t \in Threads, SwapIn(t)
      PROVE  Same \/ (~WokenTooEarly /\ \E u \in Threads : Pool!Fail(t, u))
  <2>0. PICK f \in Tasks : f = task[t]
    BY <1>9 DEF SwapIn, BaseInv, ThreadInv
  <2>1. f = task[t] /\ pc[t] = "swapin" /\ proc = "up" /\ stack[t] = Main
    BY <1>9, <2>0 DEF SwapIn, BaseInv, ThreadInv, OnMain
  <2>2. Holds(t, f) /\ \A u \in Threads : Holds(u, f) => u = t
    BY <2>1 DEF Holds, TaskInv, HolderInv
  <2>3. m_state[f] \in {"INIT", "READY"} /\ m_ucp[f] # "end"
    BY <2>1, <2>2 DEF TaskInv, HolderInv, StateInv
  <2>4. /\ pc' = [pc EXCEPT ![t] = "run"] /\ stack' = [stack EXCEPT ![t] = f]
        /\ m_state' = [m_state EXCEPT ![f] = "RUNNING"]
        /\ proc' \in {"up", "corrupt"}
        /\ UNCHANGED <<task, m_tasks, fresh, waker>>
    BY <1>9, <2>1, <2>3 DEF SwapIn
  <2>5. UNCHANGED <<Active, Left>>
    BY <2>1, <2>4, <1>0 DEF ActiveTask, LeavingTask, BaseInv, TypeOK
  <2>6. \A h \in Tasks : Done(h)' <=> Done(h)
    <3>1. ~Done(f) /\ ~Done(f)'
      BY <2>1, <2>3, <2>4 DEF Done, BaseInv, TypeOK
    <3>2. ASSUME NEW h \in Tasks, h # f PROVE Done(h)' <=> Done(h)
      <4>1. m_state'[h] = m_state[h]
        BY <2>4, <3>2
      <4>2. \A u \in Threads : stack'[u] = h <=> stack[u] = h
        BY <2>1, <2>4, <3>2 DEF BaseInv, TypeOK
      <4> QED
        BY <4>1, <4>2 DEF Done, SwappedOut
    <3> QED
      BY <3>1, <3>2
  <2>7. CASE proc' = "up"
    BY <2>1, <2>4, <2>5, <2>6, <2>7 DEF WokenTooEarly, Finished
  <2>8. CASE proc' = "corrupt"
    <3>1. PICK u \in Threads : stack[u] = f
      BY <1>9, <2>1, <2>8 DEF SwapIn, SwappedOut
    <3>2. u # t
      BY <2>1, <3>1
    <3>3. Leaves(u, f)
      BY <2>1, <2>2, <3>1, <3>2, OnStack
    <3>4. Active[t] = f /\ Left[u] = f
      BY <2>1, <2>2, <3>3, ActiveIs
    <3>5. ~WokenTooEarly /\ WokenTooEarly' = TRUE
      BY <2>1, <2>8 DEF WokenTooEarly
    <3>6. Finished' = Finished
      BY <2>6 DEF Finished
    <3> QED
      BY <2>1, <2>4, <2>5, <3>2, <3>4, <3>5, <3>6 DEF Pool!Fail
  <2> QED
    BY <2>4, <2>7, <2>8
<1>10. ASSUME NEW t \in Threads, TaskArm(t)
       PROVE  ~WokenTooEarly /\ Pool!Suspend(t)
  <2> DEFINE f == stack[t]
  <2>1. /\ f \in Tasks /\ pc[t] = "run" /\ pc' = [pc EXCEPT ![t] = "armed"]
        /\ waker' = waker \cup {f} /\ proc = "up"
        /\ UNCHANGED <<m_state, stack, task, m_tasks, fresh, proc>>
    BY <1>10 DEF TaskArm, BaseInv, ThreadInv, OnTask
  <2>2. /\ ActiveTask(t) = f /\ ActiveTask(t)' = Main /\ LeavingTask(t)' = f
        /\ \A u \in Threads : u # t =>
               ActiveTask(u)' = ActiveTask(u) /\ LeavingTask(u)' = LeavingTask(u)
    BY <2>1 DEF ActiveTask, LeavingTask, BaseInv, TypeOK
  <2>3. /\ Active[t] = f
        /\ Active' = [Active EXCEPT ![t] = Main]
        /\ Left' = [Left EXCEPT ![t] = f]
    BY <2>2 DEF Active, Left
  <2>4. Finished' = Finished /\ Alive
    BY <2>1 DEF Finished, Done, SwappedOut, WokenTooEarly
  <2> QED
    BY <2>1, <2>3, <2>4 DEF Pool!Suspend
<1>11. ASSUME NEW t \in Threads, TaskYield(t) \/ TaskFinish(t) PROVE Same
  <2> DEFINE f == stack[t]
  <2>1. f \in Tasks /\ pc[t] \in {"armed", "run"} /\ proc = "up"
    BY <1>11 DEF TaskYield, TaskFinish, BaseInv, ThreadInv, OnTask
  <2>2. TaskYield(t) => m_state[f] = "RUNNING"
    BY <2>1 DEF TaskYield, Leaves, TaskInv, LeaverInv
  <2>3. /\ pc[t] = "armed" => pc' = [pc EXCEPT ![t] = "swapout"]
        /\ pc[t] = "run" => pc' = [pc EXCEPT ![t] = "swapoutEnd"]
        /\ \A h \in Tasks : h # f => m_state'[h] = m_state[h]
        /\ UNCHANGED <<stack, task, m_tasks, fresh, waker, proc>>
    BY <1>11, <2>1, <2>2 DEF TaskYield, TaskFinish, BaseInv, TypeOK
  <2>4. UNCHANGED <<Active, Left>>
    BY <2>1, <2>3, <1>0 DEF ActiveTask, LeavingTask, BaseInv, TypeOK
  <2>5. \A h \in Tasks : Done(h)' <=> Done(h)
    BY <2>1, <2>3 DEF Done, SwappedOut
  <2> QED
    BY <2>3, <2>4, <2>5 DEF Finished, WokenTooEarly
<1>12. ASSUME NEW t \in Threads, SwapOut(t)
       PROVE  ~WokenTooEarly /\ (Pool!Leave(t) \/ Pool!Finish(t))
  <2>0. PICK f \in Tasks : f = stack[t]
    BY <1>12 DEF SwapOut, BaseInv, ThreadInv, OnTask
  <2>1. /\ f = stack[t] /\ pc[t] \in {"swapout", "swapoutEnd"} /\ proc = "up"
        /\ pc' = [pc EXCEPT ![t] = "poll"] /\ stack' = [stack EXCEPT ![t] = Main]
        /\ UNCHANGED <<m_state, task, m_tasks, fresh, waker, proc>>
    BY <1>12, <2>0 DEF SwapOut, SaveContext
  <2>2. /\ ActiveTask(t)' = Main /\ LeavingTask(t)' = Main
        /\ \A u \in Threads : u # t =>
               ActiveTask(u)' = ActiveTask(u) /\ LeavingTask(u)' = LeavingTask(u)
    BY <2>1 DEF ActiveTask, LeavingTask, BaseInv, TypeOK
  <2>3. \A h \in Tasks : h # f => (Done(h)' <=> Done(h))
    <3>1. \A h \in Tasks : \A u \in Threads :
              h # f => (stack'[u] = h <=> stack[u] = h)
      BY <2>1 DEF BaseInv, TypeOK
    <3> QED
      BY <2>1, <3>1 DEF Done, SwappedOut
  <2>4. ~Done(f)
    BY <2>1 DEF Done, SwappedOut
  <2>5. Alive
    BY <2>1 DEF WokenTooEarly
  <2>6. CASE pc[t] = "swapout"
    <3>1. ActiveTask(t) = Main /\ LeavingTask(t) = f
      BY <2>1, <2>6 DEF ActiveTask, LeavingTask
    <3>2. /\ Left[t] = f /\ Left' = [Left EXCEPT ![t] = Main]
          /\ Active' = Active
      BY <2>2, <3>1 DEF Active, Left
    <3>3. m_state[f] = "READY"
      BY <2>1, <2>6 DEF TaskInv, LeaverInv, Leaves
    <3>4. ~Done(f)'
      BY <2>1, <3>3 DEF Done
    <3>5. Finished' = Finished
      BY <2>3, <2>4, <3>4 DEF Finished
    <3> QED
      BY <2>1, <2>5, <3>2, <3>5 DEF Pool!Leave
  <2>7. CASE pc[t] = "swapoutEnd"
    <3>1. ActiveTask(t) = f /\ LeavingTask(t) = Main
      BY <2>1, <2>7 DEF ActiveTask, LeavingTask
    <3>2. /\ Active[t] = f /\ Active' = [Active EXCEPT ![t] = Main]
          /\ Left' = Left
      BY <2>2, <3>1 DEF Active, Left
    <3>3. Holds(t, f)
      BY <2>1, <2>7 DEF Holds
    <3>4. m_state[f] = "TERM" /\ \A u \in Threads : u # t => stack[u] # f
      <4>1. \A u \in Threads : ~Leaves(u, f)
        BY <2>1, <2>7, <3>3 DEF TaskInv, LeaverInv
      <4> QED
        BY <2>1, <2>7, <3>3, <4>1, OnStack DEF TaskInv, HolderInv
    <3>5. Done(f)'
      BY <2>1, <3>4 DEF Done, SwappedOut, BaseInv, TypeOK
    <3>6. Finished' = Finished \cup {f}
      BY <2>1, <2>3, <3>5 DEF Finished
    <3> QED
      BY <2>1, <2>5, <3>2, <3>6 DEF Pool!Finish
  <2> QED
    BY <2>1, <2>6, <2>7
<1>13. CASE UNCHANGED vars
  BY <1>13
  DEF vars, Active, ActiveTask, Left, LeavingTask, Finished, Done, SwappedOut,
      WokenTooEarly, Pool!vars
<1> HIDE DEF Same
<1>14. Same => UNCHANGED Pool!vars
  BY DEF Same, Pool!vars
<1> QED
  BY <1>1, <1>2, <1>3, <1>4, <1>5, <1>6, <1>7, <1>8, <1>9, <1>10, <1>11,
      <1>12, <1>13, <1>14
  DEF Next, OwnerStep, StopStep, WorkerStep, TaskStep, Pool!Next

LEMMA PoolInit == Init => Pool!Init
<1> SUFFICES ASSUME Init PROVE Pool!Init
  OBVIOUS
<1>1. Active = [t \in Threads |-> Main] /\ Left = [t \in Threads |-> Main]
  BY SchedulerAssumption
  DEF SchedulerAssumption, Fibers, Init, Active, ActiveTask, Left, LeavingTask
<1>2. Finished = {}
  BY DEF Init, Finished, Done, Fibers
<1>3. WokenTooEarly = FALSE
  BY DEF Init, WokenTooEarly
<1> QED
  BY <1>1, <1>2, <1>3 DEF Init, Pool!Init

(* The scheduler implements TaskPool, with any threads and tasks: tasks    *)
(* are executed in the order in which they were scheduled, each by one     *)
(* thread at a time, none is lost and none is executed again without a     *)
(* wake-up or a reset; and the process is lost only when a task is resumed *)
(* by a second thread before the first has left it.                        *)
THEOREM PoolRefinement == Spec => ImplementsPool
<1>1. Init => Pool!Init
  BY PoolInit
<1>2. BaseInv /\ TaskInv /\ [Next]_vars => [Pool!Next]_(Pool!vars)
  BY PoolStep
<1> QED
  BY <1>1, <1>2, TaskAlways, PTL DEF Spec, ImplementsPool, Pool!Spec
=============================================================================
