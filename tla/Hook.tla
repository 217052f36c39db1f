-------------------------------- MODULE Hook --------------------------------
(***************************************************************************)
(* The hooked system calls and FdManager: a call on a socket that would    *)
(* block registers the fiber with the IOManager, arms a timer if the       *)
(* socket has a timeout, and yields; FdManager keeps for every descriptor  *)
(* what the user asked for, while the kernel's flag is always O_NONBLOCK.  *)
(*                                                                         *)
(* The IOManager appears as what module IOManager shows of it: per         *)
(* descriptor and event the fiber that waits, and the interest given to    *)
(* epoll, which the kernel drops when the descriptor is closed.  A         *)
(* descriptor number is used again after it was closed; "gen" counts the   *)
(* uses.  Fibers run on one worker, where a fiber only gives way when it   *)
(* yields, or on many; all have called setHookEnable(true).                *)
(***************************************************************************)
EXTENDS Naturals, FiniteSets

CONSTANTS
    Fibers, None,
    Fds,            \* descriptor numbers
    Listen,         \* the one that is a listening socket at the beginning
    Dangling,       \* what calling the callback of a condition timer may do
    Fionbio,        \* what the user passes to ioctl(FIONBIO)
    Disciplined,    \* the user keeps to the rules below
    MaxGen          \* bound: uses of a descriptor number

Events == {"READ", "WRITE"}
Ops == {"read", "write", "accept", "connect"}
EventOf(op) == IF op \in {"read", "accept"} THEN "READ" ELSE "WRITE"
NoCtx == [gen |-> 0, userNonblock |-> FALSE, recvTimeout |-> FALSE, sendTimeout |-> FALSE]
NoCall == [op |-> "none", fd |-> None, timed |-> FALSE]

ASSUME HookAssumption ==
    /\ None \notin Fibers \cup Fds
    /\ Listen \in Fds
    /\ Disciplined \in BOOLEAN
    /\ Dangling \subseteq {"runs", "nothing", "crash"} /\ Dangling # {}
    /\ Fionbio \subseteq BOOLEAN
    /\ MaxGen \in Nat \ {0}

VARIABLES
    workers,        \* "one" or "many"
    proc,           \* "up", "aborted" (assertion, uncaught exception), "crashed"
    pc,             \* per fiber: where it is
    call,           \* per fiber: the call it is in
    cancelled,      \* per fiber: timeInfo->cancelled of that call
    m_data,         \* FdManager: per descriptor its FdCtx
    waiter,         \* IOManager: per descriptor and event who waits for it
    timers,         \* the condition timers that are armed or collected
    desc,           \* the kernel: per descriptor [open, gen, nonblock]
    ready,          \*   per descriptor what would not block
    polled          \*   per descriptor the interest in the epoll instance

fibers == <<pc, call, cancelled>>
kernel == <<desc, ready, polled>>
hookVars == <<workers, proc, fibers, m_data, waiter, timers, kernel>>

HookTypeOK ==
    /\ workers \in {"one", "many"}
    /\ proc \in {"up", "aborted", "crashed"}
    /\ pc \in [Fibers -> {"idle", "made", "try", "armed", "waiting", "woken", "blocked",
                          "closing", "deleted", "stopping", "asleep", "sleeping"}]
    /\ call \in [Fibers -> [op : Ops \cup {"socket", "close", "none"},
                            fd : Fds \cup {None}, timed : BOOLEAN]]
    /\ cancelled \in [Fibers -> BOOLEAN]
    /\ m_data \in [Fds -> [gen : 0 .. MaxGen, userNonblock : BOOLEAN,
                           recvTimeout : BOOLEAN, sendTimeout : BOOLEAN]]
    /\ waiter \in [Fds -> [Events -> Fibers \cup {None}]]
    /\ timers \subseteq [fiber : Fibers, fd : Fds, event : Events,
                         state : {"armed", "due"}, live : BOOLEAN]
    /\ desc \in [Fds -> [open : BOOLEAN, gen : 0 .. MaxGen, nonblock : BOOLEAN]]
    /\ ready \in [Fds -> SUBSET Events]
    /\ polled \in [Fds -> SUBSET Events]

HookInit ==
    /\ workers \in {"one", "many"}
    /\ proc = "up"
    /\ pc = [f \in Fibers |-> "idle"]
    /\ call = [f \in Fibers |-> NoCall]
    /\ cancelled = [f \in Fibers |-> FALSE]
    /\ m_data = [d \in Fds |-> IF d = Listen THEN [NoCtx EXCEPT !.gen = 1] ELSE NoCtx]
    /\ waiter = [d \in Fds |-> [e \in Events |-> None]]
    /\ timers = {}
    /\ desc = [d \in Fds |-> [open |-> d = Listen, gen |-> IF d = Listen THEN 1 ELSE 0,
                              nonblock |-> d = Listen]]
    /\ ready = [d \in Fds |-> {}]
    /\ polled = [d \in Fds |-> {}]

-----------------------------------------------------------------------------
(* Who may run, and what the user may do *)

(* In the middle of a call: not where other fibers of the same worker run. *)
Running(f) == pc[f] \in {"made", "try", "armed", "blocked", "closing", "deleted", "stopping"}
Free == proc = "up" /\ (workers = "one" => \A f \in Fibers : ~Running(f))
MayRun(f) == proc = "up" /\ (workers = "one" => \A g \in Fibers \ {f} : ~Running(g))

Using(d) == {f \in Fibers : call[f].fd = d}
InFlux(d) == ~desc[d].open \/ \E f \in Using(d) : call[f].op \in {"socket", "close"}

(* The rules: a socket has one reader and one writer; nobody uses a        *)
(* descriptor that is being made or closed; with many workers nobody       *)
(* closes one that is in use.  And a number is not given out again before  *)
(* the calls on its former use have returned.                              *)
MayCall(d, e) ==
    Disciplined => /\ ~InFlux(d)
                   /\ \A f \in Using(d) : EventOf(call[f].op) # e
MayClose(d) ==
    Disciplined => ~InFlux(d) /\ (workers = "many" => Using(d) = {})
MayMake(d) ==
    /\ ~desc[d].open /\ desc[d].gen < MaxGen
    /\ Disciplined => Using(d) = {}

-----------------------------------------------------------------------------
(* The kernel (external) *)

BecomeReady(d, e) ==
    /\ proc = "up"
    /\ desc[d].open
    /\ e \notin ready[d] /\ (d = Listen => e = "READ")
    /\ ready' = [ready EXCEPT ![d] = @ \cup {e}]
    /\ UNCHANGED <<workers, proc, fibers, m_data, waiter, timers, desc, polled>>

(* epoll_ctl fails on a closed descriptor, and on one that is or is not    *)
(* known.                                                                  *)
CtlWorks(op, d) == desc[d].open /\ ((op = "ADD") <=> (polled[d] = {}))

-----------------------------------------------------------------------------
(* Returning from a call *)

(* timeInfo goes with the call: the callbacks that hold a weak pointer to  *)
(* it find nothing.                                                        *)
Expired(f, ts) == {IF t.fiber = f THEN [t EXCEPT !.live = FALSE] ELSE t : t \in ts}

Return(f, ts) ==
    /\ pc' = [pc EXCEPT ![f] = "idle"]
    /\ call' = [call EXCEPT ![f] = NoCall]
    /\ cancelled' = [cancelled EXCEPT ![f] = FALSE]
    /\ timers' = Expired(f, ts)

(* timer->cancel(): only a timer that is still armed.                      *)
Disarmed(f) == {t \in timers : ~(t.fiber = f /\ t.state = "armed")}

-----------------------------------------------------------------------------
(* socket, accept: FdManager *)

(* A new descriptor blocks.                                                *)
Opened(d) == [desc EXCEPT ![d] = [open |-> TRUE, gen |-> @.gen + 1, nonblock |-> FALSE]]

Socket(f, d) ==
    /\ MayRun(f)
    /\ pc[f] = "idle"
    /\ MayMake(d)
    /\ desc' = Opened(d)
    /\ pc' = [pc EXCEPT ![f] = "made"]
    /\ call' = [call EXCEPT ![f] = [op |-> "socket", fd |-> d, timed |-> FALSE]]
    /\ UNCHANGED <<workers, proc, cancelled, m_data, waiter, timers, ready, polled>>

(* FdManager::get(fd, true) makes a context and sets the kernel's flag, if *)
(* there is none; then the caller may set a timeout.                       *)
MakeCtx(f, timed) ==
    LET d == call[f].fd
        new == m_data[d] = NoCtx
        ctx == IF new THEN [NoCtx EXCEPT !.gen = desc[d].gen] ELSE m_data[d]
    IN
    /\ MayRun(f)
    /\ pc[f] = "made"
    /\ m_data' = [m_data EXCEPT ![d] = [ctx EXCEPT !.recvTimeout = @ \/ timed]]
    /\ desc' = [desc EXCEPT ![d].nonblock = @ \/ new]
    /\ Return(f, timers)
    /\ UNCHANGED <<workers, proc, waiter, ready, polled>>

-----------------------------------------------------------------------------
(* do_io, connectWithTimeout *)

(* Without a context, or if the user wants it so, the call is the system   *)
(* call: with EAGAIN, or blocking, whatever the kernel's flag says.        *)
(* connectWithTimeout fails without a context.                             *)
Direct(d) == m_data[d] = NoCtx \/ m_data[d].userNonblock

HasTimeout(d, op) ==
    CASE op \in {"read", "accept"} -> m_data[d].recvTimeout
      [] op = "write" -> m_data[d].sendTimeout
      [] op = "connect" -> TRUE

Call(f, op, d) ==
    /\ MayRun(f)
    /\ pc[f] = "idle"
    /\ MayCall(d, EventOf(op))
    /\ (op = "accept") <=> (d = Listen)
    /\ IF Direct(d)
       THEN /\ pc' = [pc EXCEPT ![f] = IF desc[d].open /\ ~desc[d].nonblock
                                              /\ EventOf(op) \notin ready[d]
                                              /\ (op = "connect" => m_data[d] # NoCtx)
                                       THEN "blocked" ELSE "idle"]
            /\ UNCHANGED call
       ELSE /\ pc' = [pc EXCEPT ![f] = "try"]
            /\ call' = [call EXCEPT ![f] = [op |-> op, fd |-> d,
                                            timed |-> HasTimeout(d, op)]]
    /\ UNCHANGED <<workers, proc, cancelled, m_data, waiter, timers, kernel>>

(* The system call has something to do, or fails: do_io returns.  What was *)
(* ready may be used up.  accept opens a descriptor, if there is one left. *)
TryReturns(f) ==
    LET d == call[f].fd
        e == EventOf(call[f].op)
        left == {x \in Fds : MayMake(x)}
    IN
    /\ MayRun(f)
    /\ pc[f] = "try"
    /\ ~desc[d].open \/ e \in ready[d]
    /\ IF desc[d].open /\ call[f].op = "accept" /\ left # {}
       THEN \E x \in left :
                /\ desc' = Opened(x)
                /\ ready' = [ready EXCEPT ![d] = @ \ {e}]
                /\ call' = [call EXCEPT ![f] = [op |-> "socket", fd |-> x, timed |-> FALSE]]
                /\ pc' = [pc EXCEPT ![f] = "made"]
                /\ cancelled' = [cancelled EXCEPT ![f] = FALSE]
                /\ timers' = Expired(f, timers)
       ELSE /\ \E used \in SUBSET {e} : ready' = [ready EXCEPT ![d] = @ \ used]
            /\ Return(f, timers)
            /\ UNCHANGED desc
    /\ UNCHANGED <<workers, proc, m_data, waiter, polled>>

(* EAGAIN or EINPROGRESS: a timer is armed, if there is a timeout.  If the *)
(* kernel's flag is not set the worker blocks instead.                     *)
TryAgain(f) ==
    LET d == call[f].fd
        e == EventOf(call[f].op)
        timer == [fiber |-> f, fd |-> d, event |-> e, state |-> "armed", live |-> TRUE]
    IN
    /\ MayRun(f)
    /\ pc[f] = "try"
    /\ desc[d].open /\ e \notin ready[d]
    /\ pc' = [pc EXCEPT ![f] = IF desc[d].nonblock THEN "armed" ELSE "blocked"]
    /\ timers' = IF desc[d].nonblock /\ call[f].timed THEN timers \cup {timer} ELSE timers
    /\ UNCHANGED <<workers, proc, call, cancelled, m_data, waiter, kernel>>

(* addEvent, which asserts that nobody is registered; after it the fiber   *)
(* yields.  When epoll_ctl fails do_io returns -1, and connectWithTimeout  *)
(* throws a logic_error, which nobody catches: the process is terminated.  *)
Register(f) ==
    LET d == call[f].fd
        e == EventOf(call[f].op)
        op == IF \E x \in Events : waiter[d][x] # None THEN "MOD" ELSE "ADD"
    IN
    /\ MayRun(f)
    /\ pc[f] = "armed"
    /\ proc' = IF waiter[d][e] # None \/ (call[f].op = "connect" /\ ~CtlWorks(op, d))
               THEN "aborted" ELSE proc
    /\ IF waiter[d][e] = None /\ CtlWorks(op, d)
       THEN /\ waiter' = [waiter EXCEPT ![d][e] = f]
            /\ polled' = [polled EXCEPT ![d] = @ \cup {e}]
            /\ pc' = [pc EXCEPT ![f] = "waiting"]
            /\ UNCHANGED <<call, cancelled, timers>>
       ELSE Return(f, Disarmed(f)) /\ UNCHANGED <<waiter, polled>>
    /\ UNCHANGED <<workers, m_data, desc, ready>>

(* The fiber is scheduled again: the timer is cancelled, and the call      *)
(* tried again unless its time is up; connectWithTimeout asks for the      *)
(* outcome instead.                                                        *)
Resume(f) ==
    /\ MayRun(f)
    /\ pc[f] = "woken"
    /\ IF cancelled[f] \/ call[f].op = "connect" THEN Return(f, Disarmed(f))
       ELSE /\ timers' = Disarmed(f)
            /\ pc' = [pc EXCEPT ![f] = "try"]
            /\ UNCHANGED <<call, cancelled>>
    /\ UNCHANGED <<workers, proc, m_data, waiter, kernel>>

-----------------------------------------------------------------------------
(* IOManager: who waits is scheduled *)

Awaited(d) == {e \in Events : waiter[d][e] # None}

(* The events es of d are no longer waited for; the fibers are scheduled.  *)
Trigger(d, es) ==
    /\ waiter' = [waiter EXCEPT ![d] = [e \in Events |-> IF e \in es THEN None ELSE @[e]]]
    /\ polled' = [polled EXCEPT ![d] = Awaited(d) \ es]
Woken(d, es) ==
    [f \in Fibers |-> IF f \in {waiter[d][e] : e \in es} THEN "woken" ELSE pc[f]]

(* epoll_wait reports the descriptor.                                      *)
Report(d) ==
    LET es == ready[d] \cap polled[d] IN
    /\ Free
    /\ es # {}
    /\ Trigger(d, es)
    /\ pc' = Woken(d, es)
    /\ UNCHANGED <<workers, proc, call, cancelled, m_data, timers, desc, ready>>

(* The poller collects an expired timer: from here on it cannot be         *)
(* cancelled.                                                              *)
Collect(t) ==
    /\ Free
    /\ t \in timers /\ t.state = "armed"
    /\ timers' = (timers \ {t}) \cup {[t EXCEPT !.state = "due"]}
    /\ UNCHANGED <<workers, proc, fibers, m_data, waiter, kernel>>

(* Its callback is executed: the condition is tested, and the event of the *)
(* call cancelled.  Both are reached through references to parameters of a *)
(* function that has returned: it may also do nothing, or crash.           *)
RunTimer(t) ==
    /\ Free
    /\ t \in timers /\ t.state = "due"
    /\ timers' = timers \ {t}
    /\ \E outcome \in Dangling :
        LET acts == outcome = "runs" /\ t.live /\ ~cancelled[t.fiber]
            op == IF Awaited(t.fd) = {t.event} THEN "DEL" ELSE "MOD"
        IN  /\ proc' = IF outcome = "crash" THEN "crashed" ELSE proc
            /\ cancelled' = IF acts THEN [cancelled EXCEPT ![t.fiber] = TRUE] ELSE cancelled
            /\ IF acts /\ t.event \in Awaited(t.fd) /\ CtlWorks(op, t.fd)
               THEN Trigger(t.fd, {t.event}) /\ pc' = Woken(t.fd, {t.event})
               ELSE UNCHANGED <<waiter, polled, pc>>
    /\ UNCHANGED <<workers, call, m_data, desc, ready>>

-----------------------------------------------------------------------------
(* close *)

(* Fault: nobody is told.                                                  *)
CancelNone(d) == {}

(* The events that cancelAll triggers: all that wait, if epoll_ctl works.  *)
CancelAll(d) == IF CtlWorks("DEL", d) THEN Awaited(d) ELSE {}

(* cancelAll, by fiber f, which is then at "next".                         *)
Cancel(f, d, next) ==
    /\ Trigger(d, CancelAll(d))
    /\ pc' = [Woken(d, CancelAll(d)) EXCEPT ![f] = next]
    /\ call' = [call EXCEPT ![f] = [op |-> "close", fd |-> d, timed |-> FALSE]]
    /\ UNCHANGED <<workers, proc, cancelled, m_data, timers, desc, ready>>

(* A descriptor without a context is only closed.                          *)
Close(f, d) ==
    /\ MayRun(f)
    /\ pc[f] = "idle"
    /\ MayClose(d)
    /\ IF m_data[d] # NoCtx THEN Cancel(f, d, "closing")
       ELSE /\ pc' = [pc EXCEPT ![f] = "deleted"]
            /\ call' = [call EXCEPT ![f] = [op |-> "close", fd |-> d, timed |-> FALSE]]
            /\ UNCHANGED <<workers, proc, cancelled, m_data, waiter, timers, kernel>>

(* Fault: the context is kept for the next use of the number.              *)
KeepCtx(d) == m_data

(* FdManager::del                                                          *)
Deleted(d) == [m_data EXCEPT ![d] = NoCtx]

CloseDel(f) ==
    /\ MayRun(f)
    /\ pc[f] = "closing"
    /\ m_data' = Deleted(call[f].fd)
    /\ pc' = [pc EXCEPT ![f] = "deleted"]
    /\ UNCHANGED <<workers, proc, call, cancelled, waiter, timers, kernel>>

(* close_f: the kernel also drops the descriptor from epoll.               *)
CloseFd(f) ==
    LET d == call[f].fd IN
    /\ MayRun(f)
    /\ pc[f] = "deleted"
    /\ desc' = [desc EXCEPT ![d].open = FALSE, ![d].nonblock = FALSE]
    /\ ready' = [ready EXCEPT ![d] = {}]
    /\ polled' = [polled EXCEPT ![d] = {}]
    /\ Return(f, timers)
    /\ UNCHANGED <<workers, proc, m_data, waiter>>

-----------------------------------------------------------------------------
(* fcntl, ioctl, setsockopt, sleep *)

Between(f, d) == MayRun(f) /\ pc[f] = "idle" /\ (Disciplined => ~InFlux(d))

(* Fault: the kernel's flag follows the user's.                            *)
SetFlThrough(f, d, v) ==
    /\ Between(f, d)
    /\ m_data' = [m_data EXCEPT ![d].userNonblock = v]
    /\ desc' = [desc EXCEPT ![d].nonblock = v]
    /\ UNCHANGED <<workers, proc, fibers, waiter, timers, ready, polled>>

(* fcntl(F_SETFL) sets the kernel's flag, whatever the user asks for, if   *)
(* the descriptor has a context.                                           *)
SetFl(f, d, v) ==
    /\ Between(f, d)
    /\ IF m_data[d] # NoCtx
       THEN /\ m_data' = [m_data EXCEPT ![d].userNonblock = v]
            /\ desc' = [desc EXCEPT ![d].nonblock = TRUE]
       ELSE desc' = [desc EXCEPT ![d].nonblock = v] /\ UNCHANGED m_data
    /\ UNCHANGED <<workers, proc, fibers, waiter, timers, ready, polled>>

(* ioctl(FIONBIO) passes the user's wish on to the kernel.                 *)
SetNbio(f, d, v) ==
    /\ Between(f, d)
    /\ m_data' = IF m_data[d] # NoCtx THEN [m_data EXCEPT ![d].userNonblock = v] ELSE m_data
    /\ desc' = [desc EXCEPT ![d].nonblock = v]
    /\ UNCHANGED <<workers, proc, fibers, waiter, timers, ready, polled>>

SetTimeout(f, d, e) ==
    /\ Between(f, d)
    /\ m_data[d] # NoCtx
    /\ m_data' = IF e = "READ" THEN [m_data EXCEPT ![d].recvTimeout = TRUE]
                 ELSE [m_data EXCEPT ![d].sendTimeout = TRUE]
    /\ UNCHANGED <<workers, proc, fibers, waiter, timers, kernel>>

(* sleep() yields first and arms its timer when it is scheduled again,     *)
(* which nobody does.                                                      *)
Sleep(f) ==
    /\ MayRun(f)
    /\ pc[f] = "idle"
    /\ pc' = [pc EXCEPT ![f] = "asleep"]
    /\ UNCHANGED <<workers, proc, call, cancelled, m_data, waiter, timers, kernel>>

(* usleep() and nanosleep(): the timer first.                              *)
Usleep(f) ==
    /\ MayRun(f)
    /\ pc[f] = "idle"
    /\ pc' = [pc EXCEPT ![f] = "sleeping"]
    /\ UNCHANGED <<workers, proc, call, cancelled, m_data, waiter, timers, kernel>>

SleepOver(f) ==
    /\ Free
    /\ pc[f] = "sleeping"
    /\ pc' = [pc EXCEPT ![f] = "idle"]
    /\ UNCHANGED <<workers, proc, call, cancelled, m_data, waiter, timers, kernel>>

-----------------------------------------------------------------------------

(* A fiber begins a call, of its own will.                                 *)
Begin(f) ==
    \/ \E d \in Fds \ {Listen} : Socket(f, d) \/ Close(f, d)
    \/ \E op \in Ops, d \in Fds \ {Listen} : Call(f, op, d)
    \/ \E d \in Fds \ {Listen}, v \in BOOLEAN : SetFl(f, d, v)
    \/ \E d \in Fds \ {Listen}, v \in Fionbio : SetNbio(f, d, v)
    \/ \E d \in Fds \ {Listen}, e \in Events : SetTimeout(f, d, e)
    \/ Sleep(f) \/ Usleep(f)

(* A call that has begun goes on.                                          *)
GoOn(f) ==
    \/ TryReturns(f) \/ TryAgain(f) \/ Register(f) \/ Resume(f)
    \/ CloseDel(f) \/ CloseFd(f) \/ SleepOver(f)

Environment ==
    \/ \E d \in Fds, e \in Events : BecomeReady(d, e)
    \/ \E d \in Fds : Report(d)
    \/ \E t \in timers : Collect(t) \/ RunTimer(t)

-----------------------------------------------------------------------------
(* Properties *)

(* A fiber that waits is the one that is registered for its event, on a    *)
(* descriptor that is open and that epoll watches for it: whatever closes  *)
(* or reuses the descriptor, or cancels the event, wakes it.  Nobody else  *)
(* is registered, so that addEvent is never asked for an event that is     *)
(* registered already, nor fails under connectWithTimeout: its assertion   *)
(* holds, and no exception ends the process.                               *)
WaiterKnown ==
    /\ proc # "aborted"
    /\ \A f \in Fibers : pc[f] = "waiting" =>
           LET d == call[f].fd
               e == EventOf(call[f].op)
           IN  waiter[d][e] = f /\ desc[d].open /\ e \in polled[d]
    /\ \A d \in Fds, e \in Events : waiter[d][e] # None =>
           pc[waiter[d][e]] = "waiting" /\ call[waiter[d][e]].fd = d

(* No hooked call blocks its worker: a socket that the user takes for a    *)
(* blocking one is never one for the kernel.                               *)
NeverBlocks == \A f \in Fibers : pc[f] # "blocked"

(* An open descriptor has the context that was made for it, not for an     *)
(* earlier use of its number, from the return of socket or accept to the   *)
(* call of close.                                                          *)
OwnContext ==
    \A d \in Fds : ~InFlux(d) => m_data[d].gen = desc[d].gen
=============================================================================
