----------------------------- MODULE Scheduler -----------------------------
(***************************************************************************)
(* The fiber scheduler: Scheduler::run on a pool of worker threads, the    *)
(* fibers those threads resume (class Fiber), and the thread that owns the *)
(* scheduler object and starts and stops it.                               *)
(*                                                                         *)
(* A fiber is a task given to schedule(), or the idle fiber that run()     *)
(* makes for its thread; the idle fiber of thread t is named t.  What a    *)
(* ucontext holds is abstracted to where it continues: "start" (as made by *)
(* makecontext), "parked" (inside a yield of the callback) or "end"        *)
(* (inside the last yield of mainFunc).  resume() tests m_state before it  *)
(* switches, yield() sets m_state before it switches, both without a lock: *)
(* each is two steps here and other threads run in between.                *)
(*                                                                         *)
(* Whoever was given a fiber to wake may schedule it at once, before it    *)
(* has yielded or while it is yielding.  A second thread then finds it     *)
(* RUNNING, and the assertion of resume() aborts the process, or READY but *)
(* not yet swapped out, and executes on a stack that is in use: undefined  *)
(* behaviour, after which this module says nothing (proc = "corrupt").     *)
(***************************************************************************)
EXTENDS Naturals, Sequences, FiniteSets

CONSTANTS
    Threads,      \* the worker threads that start() creates
    Tasks,        \* the fibers the program schedules
    Main,         \* stands for the main fiber of whichever thread runs
    MaxWaits,     \* bound: how often a task suspends itself
    MaxResets,    \* bound: how often Fiber::reset is called
    ExitOutcomes  \* what ending a context without uc_link may do

Ends == {"thread", "process"}
Fibers == Tasks \cup Threads

ASSUME SchedulerAssumption ==
    /\ Tasks \cap Threads = {}
    /\ Main \notin Fibers
    /\ IsFiniteSet(Threads)
    /\ MaxWaits \in Nat
    /\ MaxResets \in Nat
    /\ ExitOutcomes \in SUBSET Ends

VARIABLES
    m_state,            \* Fiber::m_state of every fiber
    m_ucp,              \* where the saved context of every fiber continues
    t_fiber,            \* per thread: the fiber GetThis() would return
    stack,              \* per thread: the fiber whose stack it executes on
    pc,                 \* per thread: where it is in run(), resume(), yield()
    task,               \* per thread: the local variable task of run()
    m_tasks,            \* the task list
    m_idleThreadCount,
    m_stopCommand,
    owner,              \* the owner thread: "new", "up", then inside stop()
    fresh,              \* tasks constructed or reset, not yet scheduled
    waker,              \* tasks that somebody will schedule once
    waits, resets,      \* bounded counters
    proc                \* "up", "aborted" (an assertion failed), "exited",
                        \* or "corrupt" (two threads on one fiber's stack)

fiberVars == <<m_state, m_ucp, t_fiber, stack>>
boundVars == <<waits, resets>>
vars == <<fiberVars, pc, task, m_tasks, m_idleThreadCount, m_stopCommand,
          owner, fresh, waker, boundVars, proc>>

States == {"INIT", "RUNNING", "TERM", "READY"}
PCs == {"off", "poll", "resume", "swapin", "run", "armed", "swapout",
        "swapoutEnd", "idle", "idling", "ended", "exited"}

TypeOK ==
    /\ m_state \in [Fibers -> States]
    /\ m_ucp \in [Fibers -> {"start", "parked", "end"}]
    /\ t_fiber \in [Threads -> Fibers \cup {Main}]
    /\ stack \in [Threads -> Fibers \cup {Main}]
    /\ pc \in [Threads -> PCs]
    /\ task \in [Threads -> Tasks \cup {Main}]
    /\ m_tasks \in Seq(Tasks)
    /\ m_idleThreadCount \in Nat
    /\ m_stopCommand \in BOOLEAN
    /\ owner \in {"new", "up", "draining", "joining", "stopped", "destroyed"}
    /\ fresh \in SUBSET Tasks
    /\ waker \in SUBSET Tasks
    /\ waits \in [Tasks -> Nat]
    /\ resets \in Nat
    /\ proc \in {"up", "aborted", "exited", "corrupt"}

Init ==
    /\ m_state = [f \in Fibers |-> "INIT"]
    /\ m_ucp = [f \in Fibers |-> "start"]
    /\ t_fiber = [t \in Threads |-> Main]
    /\ stack = [t \in Threads |-> Main]
    /\ pc = [t \in Threads |-> "off"]
    /\ task = [t \in Threads |-> Main]
    /\ m_tasks = <<>>
    /\ m_idleThreadCount = 0
    /\ m_stopCommand = FALSE
    /\ owner = "new"
    /\ fresh = Tasks
    /\ waker = {}
    /\ waits = [f \in Tasks |-> 0]
    /\ resets = 0
    /\ proc = "up"

-----------------------------------------------------------------------------
(* Helpers *)

(* No thread executes on the stack of f: its last swapcontext is complete. *)
SwappedOut(f) == \A t \in Threads : stack[t] # f

(* Faults: the test of m_stopCommand that schedule() has commented out;    *)
(* push_front for push_back.                                               *)
ScheduleUnlessStopped(f) ==
    m_tasks' = IF m_stopCommand THEN m_tasks ELSE Append(m_tasks, f)
ScheduleAtFront(f) == m_tasks' = <<f>> \o m_tasks

(* schedule(): the state of the fiber only decides what is logged.         *)
Schedule(f) == m_tasks' = Append(m_tasks, f)

(* Where thread t, and the owner thread, may be while the process lives.   *)
At(t, places) == proc = "up" /\ pc[t] \in places
OwnerAt(places) == proc = "up" /\ owner \in places

Goto(t, where) == pc' = [pc EXCEPT ![t] = where]

SetThis(t, f) == t_fiber' = [t_fiber EXCEPT ![t] = f]

(* Fault: the context still continues where the fiber ended.               *)
KeepContext(f) == UNCHANGED m_ucp

MakeContext(f) == m_ucp' = [m_ucp EXCEPT ![f] = "start"]

(* swapcontext from thread t's fiber f into the main fiber of t.           *)
SaveContext(t, f, where) ==
    /\ m_ucp' = [m_ucp EXCEPT ![f] = where]
    /\ stack' = [stack EXCEPT ![t] = Main]

-----------------------------------------------------------------------------
(* The owner of the scheduler *)

Start ==
    /\ OwnerAt({"new"})
    /\ owner' = "up"
    /\ pc' = [t \in Threads |-> "poll"]
    /\ UNCHANGED <<fiberVars, task, m_tasks, m_idleThreadCount, m_stopCommand,
                   fresh, waker, boundVars, proc>>

OwnerSchedule(f) ==
    /\ OwnerAt({"new", "up"})
    /\ f \in fresh
    /\ fresh' = fresh \ {f}
    /\ Schedule(f)
    /\ UNCHANGED <<fiberVars, pc, task, m_idleThreadCount, m_stopCommand,
                   owner, waker, boundVars, proc>>

(* Fault: the fiber stays terminated.                                      *)
StillTerm(s) == s

(* The state that Fiber::reset gives a fiber in state s.                   *)
ResetState(s) == "INIT"

(* Fiber::reset on a terminated task: it becomes fresh again.  The program *)
(* calls it when the fiber has been left, as the tests do.                 *)
OwnerReset(f) ==
    /\ OwnerAt({"new", "up"})
    /\ m_state[f] = "TERM"
    /\ SwappedOut(f)
    /\ resets < MaxResets
    /\ m_state' = [m_state EXCEPT ![f] = ResetState(@)]
    /\ MakeContext(f)
    /\ fresh' = fresh \cup {f}
    /\ resets' = resets + 1
    /\ UNCHANGED <<t_fiber, stack, pc, task, m_tasks, m_idleThreadCount,
                   m_stopCommand, owner, waker, waits, proc>>

(* stop(): set the flag, spin until the list is empty, join the threads.   *)
Stop ==
    /\ OwnerAt({"up"})
    /\ owner' = "draining"
    /\ m_stopCommand' = TRUE
    /\ UNCHANGED <<fiberVars, pc, task, m_tasks, m_idleThreadCount, fresh,
                   waker, boundVars, proc>>

StopDrained ==
    /\ OwnerAt({"draining"})
    /\ m_tasks = <<>>
    /\ owner' = "joining"
    /\ UNCHANGED <<fiberVars, pc, task, m_tasks, m_idleThreadCount,
                   m_stopCommand, fresh, waker, boundVars, proc>>

(* Fault: stop() waits for one thread only.                                *)
FirstJoined == \E t \in Threads : pc[t] = "exited"

Joined == \A t \in Threads : pc[t] = "exited"

StopJoin ==
    /\ OwnerAt({"joining"})
    /\ Joined
    /\ owner' = "stopped"
    /\ UNCHANGED <<fiberVars, pc, task, m_tasks, m_idleThreadCount,
                   m_stopCommand, fresh, waker, boundVars, proc>>

(* ~Scheduler(): waits for the flag and stops once more.                   *)
Destroy ==
    /\ OwnerAt({"stopped"})
    /\ m_stopCommand
    /\ m_tasks = <<>>
    /\ owner' = "destroyed"
    /\ UNCHANGED <<fiberVars, pc, task, m_tasks, m_idleThreadCount,
                   m_stopCommand, fresh, waker, boundVars, proc>>

-----------------------------------------------------------------------------
(* The main fiber of a worker thread: Scheduler::run and Fiber::resume *)

(* Fault: the task is not erased.                                          *)
KeepTask == UNCHANGED m_tasks

NoTask == m_tasks = <<>>
EraseTask == m_tasks' = Tail(m_tasks)
CountIdle == m_idleThreadCount' = m_idleThreadCount + 1

(* Take the first task under the lock, or count the thread as idle.        *)
Poll(t) ==
    /\ At(t, {"poll"})
    /\ \/ /\ ~NoTask
          /\ task' = [task EXCEPT ![t] = Head(m_tasks)]
          /\ EraseTask
          /\ Goto(t, "resume")
          /\ UNCHANGED m_idleThreadCount
       \/ /\ NoTask
          /\ task' = [task EXCEPT ![t] = Main]
          /\ CountIdle
          /\ Goto(t, "idle")
          /\ UNCHANGED m_tasks
    /\ UNCHANGED <<fiberVars, m_stopCommand, owner, fresh, waker, boundVars,
                   proc>>

(* resume(): the tests of m_state.  A failed assertion aborts the process, *)
(* and what else the step does is of no consequence.                       *)
Resume(t) ==
    /\ At(t, {"resume"})
    /\ t_fiber[t] = Main
    /\ proc' = IF m_state[task[t]] \in {"RUNNING", "TERM"}
               THEN "aborted" ELSE proc
    /\ Goto(t, "swapin")
    /\ UNCHANGED <<fiberVars, task, m_tasks, m_idleThreadCount,
                   m_stopCommand, owner, fresh, waker, boundVars>>

(* The rest of resume(): mark the task RUNNING and swapcontext into it, to *)
(* continue wherever its saved context says.                               *)
SwapIn(t) ==
    /\ At(t, {"swapin"})
    /\ SetThis(t, task[t])
    /\ m_state' = [m_state EXCEPT ![task[t]] = "RUNNING"]
    /\ stack' = [stack EXCEPT ![t] = task[t]]
    /\ Goto(t, IF m_ucp[task[t]] = "end" THEN "ended" ELSE "run")
    /\ proc' = IF SwappedOut(task[t]) THEN proc ELSE "corrupt"
    /\ UNCHANGED <<m_ucp, task, m_tasks, m_idleThreadCount,
                   m_stopCommand, owner, fresh, waker, boundVars>>

(* No task: setIdle() and resume() of the thread's idle fiber, which only  *)
(* this thread ever touches.                                               *)
IdleResume(t) ==
    /\ At(t, {"idle"})
    /\ m_state' = [m_state EXCEPT ![t] = "RUNNING"]
    /\ SetThis(t, t)
    /\ stack' = [stack EXCEPT ![t] = t]
    /\ Goto(t, IF m_ucp[t] = "end" THEN "ended" ELSE "idling")
    /\ UNCHANGED <<m_ucp, task, m_tasks, m_idleThreadCount, m_stopCommand,
                   owner, fresh, waker, boundVars, proc>>

-----------------------------------------------------------------------------
(* The fiber a worker thread executes *)

(* The task schedules another one.                                         *)
TaskSchedule(t, g) ==
    /\ At(t, {"run"})
    /\ g \in fresh
    /\ fresh' = fresh \ {g}
    /\ Schedule(g)
    /\ UNCHANGED <<fiberVars, pc, task, m_idleThreadCount, m_stopCommand,
                   owner, waker, boundVars, proc>>

(* The task gives itself to a waker (addEvent, addTimer), then must yield. *)
TaskArm(t) ==
    /\ At(t, {"run"})
    /\ waits[stack[t]] < MaxWaits
    /\ waker' = waker \cup {stack[t]}
    /\ waits' = [waits EXCEPT ![stack[t]] = @ + 1]
    /\ Goto(t, "armed")
    /\ UNCHANGED <<fiberVars, task, m_tasks, m_idleThreadCount, m_stopCommand,
                   owner, fresh, resets, proc>>

(* The state that yield() gives a fiber in state s.                        *)
YieldState(s) == IF s = "RUNNING" THEN "READY" ELSE s

(* yield(), up to swapcontext; its assertion aborts the process.           *)
TaskYield(t) ==
    /\ At(t, {"armed"})
    /\ proc' = IF m_state[stack[t]] \in {"RUNNING", "TERM"}
               THEN proc ELSE "aborted"
    /\ m_state' = [m_state EXCEPT ![stack[t]] = YieldState(@)]
    /\ SetThis(t, Main)
    /\ Goto(t, "swapout")
    /\ UNCHANGED <<m_ucp, stack, task, m_tasks, m_idleThreadCount,
                   m_stopCommand, owner, fresh, waker, boundVars>>

(* The callback returns to mainFunc, which terminates the fiber.           *)
TaskFinish(t) ==
    /\ At(t, {"run"})
    /\ m_state' = [m_state EXCEPT ![stack[t]] = "TERM"]
    /\ SetThis(t, Main)
    /\ Goto(t, "swapoutEnd")
    /\ UNCHANGED <<m_ucp, stack, task, m_tasks, m_idleThreadCount,
                   m_stopCommand, owner, fresh, waker, boundVars, proc>>

(* The swapcontext at the end of yield().                                  *)
SwapOut(t) ==
    /\ At(t, {"swapout", "swapoutEnd"})
    /\ SaveContext(t, stack[t],
                   IF pc[t] = "swapout" THEN "parked" ELSE "end")
    /\ Goto(t, "poll")
    /\ UNCHANGED <<m_state, t_fiber, task, m_tasks, m_idleThreadCount,
                   m_stopCommand, owner, fresh, waker, boundVars, proc>>

(* Faults: the loop of idle() never ends; it ends at once; the thread stays*)
(* counted as idle.                                                        *)
LoopForever == FALSE
LoopNever == TRUE

IdleEnds == m_stopCommand
UncountIdle == m_idleThreadCount' = m_idleThreadCount - 1

(* Scheduler::idle: yield once more, or return when the flag is set.       *)
IdleYield(t) ==
    /\ At(t, {"idling"})
    /\ m_state' = [m_state EXCEPT ![t] =
                      IF IdleEnds THEN "TERM" ELSE "READY"]
    /\ SaveContext(t, t, IF IdleEnds THEN "end" ELSE "parked")
    /\ SetThis(t, Main)
    /\ UncountIdle
    /\ Goto(t, "poll")
    /\ UNCHANGED <<task, m_tasks, m_stopCommand, owner, fresh, waker,
                   boundVars, proc>>

(* mainFunc returns and uc_link is null: the thread ends, or (as glibc     *)
(* does it) the whole process.                                             *)
ContextEnd(t) ==
    /\ At(t, {"ended"})
    /\ \/ /\ "thread" \in ExitOutcomes
          /\ Goto(t, "exited")
          /\ UNCHANGED proc
       \/ /\ "process" \in ExitOutcomes
          /\ proc' = "exited"
          /\ UNCHANGED pc
    /\ UNCHANGED <<fiberVars, task, m_tasks, m_idleThreadCount, m_stopCommand,
                   owner, fresh, waker, boundVars>>

-----------------------------------------------------------------------------
(* Whoever holds an armed task (an event, a timer, another program part)   *)
(* schedules it, whether or not the task has already yielded.              *)
Wake(f) ==
    /\ proc = "up"
    /\ f \in waker
    /\ waker' = waker \ {f}
    /\ Schedule(f)
    /\ UNCHANGED <<fiberVars, pc, task, m_idleThreadCount, m_stopCommand,
                   owner, fresh, boundVars, proc>>

TaskStep(t) ==
    \/ \E g \in Tasks : TaskSchedule(t, g)
    \/ TaskArm(t)
    \/ TaskYield(t)
    \/ TaskFinish(t)
    \/ SwapOut(t)

WorkerStep(t) ==
    \/ Poll(t)
    \/ Resume(t)
    \/ SwapIn(t)
    \/ IdleResume(t)
    \/ IdleYield(t)
    \/ ContextEnd(t)
    \/ TaskStep(t)

StopStep == StopDrained \/ StopJoin \/ Destroy

OwnerStep ==
    \/ Start
    \/ \E f \in Tasks : OwnerSchedule(f) \/ OwnerReset(f)
    \/ Stop
    \/ StopStep

Next ==
    \/ OwnerStep
    \/ \E f \in Tasks : Wake(f)
    \/ \E t \in Threads : WorkerStep(t)

Spec == Init /\ [][Next]_vars

(* The kernel runs every thread, callbacks and wakers eventually act, and  *)
(* stop() proceeds; starting, scheduling and stopping are the program's    *)
(* choice.                                                                 *)
Fairness ==
    /\ WF_vars(StopStep)
    /\ \A t \in Threads : WF_vars(WorkerStep(t))
    /\ \A f \in Tasks : WF_vars(Wake(f))

FairSpec == Spec /\ Fairness

-----------------------------------------------------------------------------
(* Safety *)

(* Two threads execute on the stack of one fiber only when one of them is  *)
(* past the store of READY in yield() and before its swapcontext: run()    *)
(* takes a task from the list once, and every other overlap is stopped by  *)
(* the assertion of resume().                                              *)
ExclusiveStack ==
    \A t, u \in Threads :
        stack[t] = stack[u] /\ t # u /\ stack[t] # Main =>
            proc = "corrupt" /\ "swapout" \in {pc[t], pc[u]}

(* The assertions of Fiber::resume and Fiber::yield never fail.            *)
NoAbort == proc # "aborted"

(* The only assertion that ever fails is the one of resume(), and only for *)
(* a fiber that has given itself to a waker and is still on its way to     *)
(* yield() in another thread; nobody resumes a terminated fiber, and no    *)
(* yield() finds a state other than RUNNING or TERM.                       *)
AbortsOnlyArmed ==
    proc = "aborted" =>
        \E t, u \in Threads :
            pc[t] = "swapin" /\ pc[u] = "armed" /\ stack[u] = task[t]

Count(S) == Cardinality(S)
InHand(f) == {t \in Threads : pc[t] \in {"resume", "swapin"} /\ task[t] = f}
Queued(f) == {i \in DOMAIN m_tasks : m_tasks[i] = f}
Leaving(f) == {t \in Threads : pc[t] \in {"armed", "swapout"} /\ stack[t] = f}
Executing(f) == {t \in Threads : stack[t] = f} \ Leaving(f)
Done(f) == m_state[f] = "TERM" /\ SwappedOut(f)
One(b) == IF b THEN 1 ELSE 0

(* A task is in exactly one place: not yet scheduled, once in the list, in *)
(* the hands of one thread, executed by one thread, given to its waker, or *)
(* finished; and besides, one thread at most is still leaving it after it  *)
(* suspended itself.  schedule(), run(), yield() and reset() neither lose  *)
(* nor duplicate it, however early its waker acts.                         *)
OnePlace ==
    \A f \in Tasks :
        /\ One(f \in fresh) + Count(Queued(f)) + Count(InHand(f))
             + Count(Executing(f)) + One(f \in waker) + One(Done(f)) = 1
        /\ Count(Leaving(f)) <= 1

(* m_idleThreadCount counts the threads inside their idle fiber, and run() *)
(* never decrements it below zero.                                         *)
IdleCount ==
    m_idleThreadCount =
        Count({t \in Threads : pc[t] = "idle" \/ stack[t] = t})

(* While a callback executes, the thread's t_fiber is the fiber on whose   *)
(* stack it executes: GetThis() inside a callback returns the callback's   *)
(* own fiber, whichever thread resumed it.                                 *)
ThisIsCurrent ==
    \A t \in Threads :
        pc[t] \in {"run", "armed", "idling"} => t_fiber[t] = stack[t]

(* resume() never enters a context that has nothing left to execute, and   *)
(* enters one whose swapcontext is not complete only when the thread that  *)
(* leaves it has already marked it READY: the state is the only guard.     *)
EntersSavedContext ==
    [][\A t \in Threads :
          pc[t] = "swapin" /\ pc'[t] # "swapin" =>
              /\ m_ucp[task[t]] # "end"
              /\ \A u \in Threads : stack[u] = task[t] => pc[u] = "swapout"]_vars

(* When stop() has returned, every task that was ever scheduled has        *)
(* finished, except those that suspended themselves on the way.            *)
JoinedAllDone ==
    owner \in {"stopped", "destroyed"} =>
        \A f \in Tasks \ fresh : m_state[f] = "TERM" \/ waits[f] > 0

(* No function bound by makecontext ever returns: without uc_link there is *)
(* no context to go on with.                                               *)
NoContextEnds == \A t \in Threads : pc[t] # "ended"

-----------------------------------------------------------------------------
(* Liveness *)

(* A task was woken so early that the process did not survive.             *)
WokenTooEarly == proc \in {"aborted", "corrupt"}

(* Once the workers run, every scheduled task finishes; after stop() at    *)
(* least every one that never suspends itself, whoever scheduled it, as    *)
(* long as no idle fiber that ends takes the process with it (glibc).      *)
Finishes ==
    \A f \in Tasks :
        owner # "new" /\ f \notin fresh ~>
            \/ m_state[f] = "TERM"
            \/ m_stopCommand /\ (waits[f] > 0 \/ proc = "exited")
            \/ WokenTooEarly

(* stop() returns or the process ends in it, unless a task has suspended   *)
(* itself: its waker may append it when no worker is left, and stop()      *)
(* waits for an empty list.                                                *)
StopTerminates ==
    owner = "draining" ~>
        \/ owner \in {"stopped", "destroyed"} \/ proc = "exited"
        \/ \E f \in Tasks : waits[f] > 0

-----------------------------------------------------------------------------
(* What the scheduler promises.  A task is active from the moment run()    *)
(* takes it until it gives itself to a waker or its last swapcontext is    *)
(* complete; a thread leaves a suspended task until the same point.        *)

ActiveTask(t) ==
    CASE pc[t] \in {"resume", "swapin"} -> task[t]
      [] pc[t] \in {"run", "swapoutEnd"} -> stack[t]
      [] OTHER -> Main
LeavingTask(t) == IF pc[t] \in {"armed", "swapout"} THEN stack[t] ELSE Main
Active == [t \in Threads |-> ActiveTask(t)]
Left == [t \in Threads |-> LeavingTask(t)]
Finished == {f \in Tasks : Done(f)}

Pool == INSTANCE TaskPool WITH
            Workers <- Threads, None <- Main, queue <- m_tasks,
            active <- Active, leaving <- Left, waiting <- waker,
            done <- Finished, failed <- WokenTooEarly

(* Every step of the threads is a step of TaskPool or invisible to it:     *)
(* tasks are executed in the order they were scheduled, by one thread at a *)
(* time, and again only after a wake-up or a reset; the process is lost    *)
(* only to a wake-up that overtakes the suspending thread.                 *)
ImplementsPool == Pool!Spec
=============================================================================
