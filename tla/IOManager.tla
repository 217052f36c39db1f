----------------------------- MODULE IOManager -----------------------------
(***************************************************************************)
(* IOManager: the table of fd contexts, the events registered in them, and *)
(* the idle fibers that wait in epoll_wait and schedule whoever waits for  *)
(* an event.                                                               *)
(*                                                                         *)
(* A caller is a fiber, or a thread with a callback, that registers itself *)
(* for one event at a time and then waits; that a fiber may be woken       *)
(* before it has yielded is the subject of module Scheduler.  A context is *)
(* named by its fd and a number, because fdContextsResize can drop one     *)
(* and later make another.  The kernel's epoll instance is external: an    *)
(* interest per fd, which fds are readable, writable or hung up, and the   *)
(* edge-triggered queue.  A section under a context's mutex is one step;   *)
(* looking a context up and using it is one step too, except where         *)
(* addEvent gives the table lock up and takes it again.                    *)
(***************************************************************************)
EXTENDS Naturals, FiniteSets

CONSTANTS
    Callers,      \* those who call addEvent
    None,         \* the null pointer
    Pollers,      \* the threads that execute IOManager::idle
    Fds,          \* the descriptors in use
    Uses,         \* per caller: the pairs of fd and event it registers
    Kinds,        \* how: as a "fiber" or with a callback, "cb"
    Ops,          \* which of delEvent, cancelEvent, cancelAll are called
    Hup,          \* TRUE: descriptors may report EPOLLERR or EPOLLHUP
    Unpollable,   \* descriptors that epoll_ctl refuses
    Grown,        \* size the table has grown to before the model starts
    MaxGen,       \* bound: contexts made per descriptor
    CountMod      \* m_pendingEventCount wraps around here (2^64 in the code)

Events == {"READ", "WRITE"}

ASSUME IOAssumption ==
    /\ Fds \subseteq Nat \ {0, 1}
    /\ IsFiniteSet(Fds)
    /\ Uses \in [Callers -> SUBSET (Fds \X Events)]
    /\ Kinds \subseteq {"fiber", "cb"}
    /\ None \notin Callers
    /\ Hup \in BOOLEAN
    /\ Grown \in Nat
    /\ MaxGen \in Nat \ {0}
    /\ CountMod \in Nat /\ CountMod > Cardinality(Fds \X Events) * MaxGen

VARIABLES
    m_fdContexts,          \* per fd: number of its context, 0 if not in table
    made,                  \* per fd: contexts made
    events,                \* per context: registered events
    slot,                  \* per context and event: the EventContext
    m_pendingEventCount,
    drift,                 \* history: events counted off unregistered
    pc, want, held,        \* per caller: place in addEvent, request, fdCtx
    results,               \* per poller: what epoll_wait returned
    idling,                \* the pollers still in the loop of idle()
    m_stopCommand,
    stray,                 \* callers scheduled without waiting for it
    proc,                  \* "up", "aborted" (assertion), "crashed"
    epoll, queued, ready   \* the kernel

table == <<m_fdContexts, made>>
contexts == <<events, slot, m_pendingEventCount, drift>>
callers == <<pc, want, held>>
pollers == <<results, idling, m_stopCommand>>
kernel == <<epoll, queued, ready>>
vars == <<table, contexts, callers, pollers, stray, proc, kernel>>

Contexts == Fds \X (1..MaxGen)
Handlers == Callers \cup {None}
Requests == [fd : Fds, event : Events, kind : Kinds]
NoSlot == [scheduler |-> FALSE, cb |-> None, fiber |-> None]
Absent == [ctx |-> None, mask |-> {}]

TypeOK ==
    /\ m_fdContexts \in [Fds -> 0..MaxGen]
    /\ made \in [Fds -> 0..MaxGen]
    /\ events \in [Contexts -> SUBSET Events]
    /\ slot \in [Contexts ->
           [Events -> [scheduler : BOOLEAN, cb : Handlers, fiber : Handlers]]]
    /\ m_pendingEventCount \in 0..(CountMod - 1)
    /\ drift \in 0..(CountMod - 1)
    /\ pc \in [Callers -> {"idle", "resize", "body", "waiting", "dropped"}]
    /\ want \in [Callers -> Requests \cup {None}]
    /\ held \in [Callers -> Contexts \cup {None}]
    /\ results \in [Pollers -> SUBSET [ctx : Contexts,
                                       mask : SUBSET (Events \cup {"HUP"})]]
    /\ idling \subseteq Pollers
    /\ m_stopCommand \in BOOLEAN
    /\ stray \subseteq Callers
    /\ proc \in {"up", "aborted", "crashed"}
    /\ epoll \in [Fds -> [ctx : Contexts \cup {None}, mask : SUBSET Events]]
    /\ queued \subseteq Fds
    /\ ready \in [Fds -> SUBSET (Events \cup {"HUP"})]

Init ==
    /\ m_fdContexts = [d \in Fds |-> IF d < Grown THEN 1 ELSE 0]
    /\ made = m_fdContexts
    /\ events = [c \in Contexts |-> {}]
    /\ slot = [c \in Contexts |-> [e \in Events |-> NoSlot]]
    /\ m_pendingEventCount = 0
    /\ drift = 0
    /\ pc = [k \in Callers |-> "idle"]
    /\ want = [k \in Callers |-> None]
    /\ held = [k \in Callers |-> None]
    /\ results = [p \in Pollers |-> {}]
    /\ idling = Pollers
    /\ m_stopCommand = FALSE
    /\ stray = {}
    /\ proc = "up"
    /\ epoll = [d \in Fds |-> Absent]
    /\ queued = {}
    /\ ready = [d \in Fds |-> {}]

-----------------------------------------------------------------------------
(* The kernel (external) *)

(* What epoll_wait reports for d: hang-ups are reported unasked.           *)
Reported(d) == ready[d] \cap (epoll[d].mask \cup {"HUP"})

(* epoll_ctl(op, d): does it succeed, and what does it do?                 *)
CtlWorks(op, d) ==
    /\ d \notin Unpollable
    /\ (op = "ADD") <=> (epoll[d] = Absent)

EpollCtl(op, d, c, mask) ==
    /\ epoll' = IF ~CtlWorks(op, d) THEN epoll
                ELSE IF op = "DEL" THEN [epoll EXCEPT ![d] = Absent]
                ELSE [epoll EXCEPT ![d] = [ctx |-> c, mask |-> mask]]
    /\ queued' = IF ~CtlWorks(op, d) THEN queued
                 ELSE IF op # "DEL" /\ ready[d] \cap (mask \cup {"HUP"}) # {}
                 THEN queued \cup {d} ELSE queued \ {d}
    /\ UNCHANGED ready

(* A descriptor becomes readable or writable, or more so, or hangs up: an  *)
(* edge.                                                                   *)
BecomeReady(d, e) ==
    /\ proc = "up"
    /\ e \in Events \/ Hup
    /\ ready' = [ready EXCEPT ![d] = @ \cup {e}]
    /\ queued' = IF epoll[d] # Absent /\ e \in epoll[d].mask \cup {"HUP"}
                 THEN queued \cup {d} ELSE queued
    /\ UNCHANGED <<table, contexts, callers, pollers, stray, proc, epoll>>

(* A caller that does not wait uses up what it could read or write.        *)
Consume(k, d, e) ==
    /\ proc = "up"
    /\ pc[k] = "idle"
    /\ <<d, e>> \in Uses[k]
    /\ e \in ready[d]
    /\ ready' = [ready EXCEPT ![d] = @ \ {e}]
    /\ UNCHANGED <<table, contexts, callers, pollers, stray, proc, epoll,
                   queued>>

-----------------------------------------------------------------------------
(* m_pendingEventCount *)

(* Fault: the count is not decremented.                                    *)
NotCounted(n) == m_pendingEventCount

(* The count after n decrements; a size_t wraps around.                    *)
Less(n) == (m_pendingEventCount + CountMod - n) % CountMod

-----------------------------------------------------------------------------
(* FdContext::triggerEvent *)

(* Who is scheduled when event e of context c is triggered: a callback has *)
(* precedence, and neither field is cleared afterwards.                    *)
Handler(c, e) ==
    LET s == slot[c][e] IN
    [caller |-> IF s.cb # None THEN s.cb ELSE s.fiber,
     request |-> [fd |-> c[1], event |-> e,
                  kind |-> IF s.cb # None THEN "cb" ELSE "fiber"]]

(* schedule() through a null scheduler: harmless if there is nothing to    *)
(* schedule, a null pointer access otherwise.                              *)
NullSchedule(c, e) ==
    ~slot[c][e].scheduler /\ Handler(c, e).caller # None

Awaited(h) == pc[h.caller] = "waiting" /\ want[h.caller] = h.request

(* Fault: the scheduler pointer is kept.                                   *)
KeepScheduler(s) == s

Triggered(s) == [s EXCEPT !.scheduler = FALSE]

(* The events es of context c are triggered and left remain registered.    *)
(* After a crash the rest of the step is of no consequence.                *)
TriggerEvents(c, es, left) ==
    LET woken == {h \in {Handler(c, e) : e \in es} : h.caller # None}
        awake == {h.caller : h \in {g \in woken : Awaited(g)}}
    IN  /\ proc' = IF \E e \in es : NullSchedule(c, e)
                   THEN "crashed" ELSE proc
        /\ events' = [events EXCEPT ![c] = left]
        /\ slot' = [slot EXCEPT ![c] = [e \in Events |->
                       IF e \in es THEN Triggered(@[e]) ELSE @[e]]]
        /\ pc' = [k \in Callers |-> IF k \in awake THEN "idle" ELSE pc[k]]
        /\ stray' = stray \cup
              {h.caller : h \in {g \in woken :
                  ~Awaited(g) /\ slot[c][g.request.event].scheduler}}

-----------------------------------------------------------------------------
(* addEvent *)

(* Under the read lock: is the descriptor in the table?                    *)
AddEvent(k, r) ==
    /\ proc = "up"
    /\ pc[k] = "idle"
    /\ <<r.fd, r.event>> \in Uses[k]
    /\ want' = [want EXCEPT ![k] = r]
    /\ \/ /\ m_fdContexts[r.fd] # 0
          /\ held' = [held EXCEPT ![k] = <<r.fd, m_fdContexts[r.fd]>>]
          /\ pc' = [pc EXCEPT ![k] = "body"]
       \/ /\ m_fdContexts[r.fd] = 0
          /\ pc' = [pc EXCEPT ![k] = "resize"]
          /\ UNCHANGED held
    /\ UNCHANGED <<table, contexts, pollers, stray, proc, kernel>>

(* The size that addEvent gives the table for descriptor d: 1.5 d.         *)
NewSize(d) == (3 * d) \div 2

(* Fault: every context is made anew.                                      *)
ResizeAnew(n) ==
    /\ \A d \in Fds : made[d] < MaxGen
    /\ made' = [d \in Fds |-> made[d] + 1]
    /\ m_fdContexts' = [d \in Fds |-> IF d < n THEN made[d] + 1 ELSE 0]

(* fdContextsResize(n): entries beyond n are dropped, new ones are made.   *)
Resize(n) ==
    LET New(d) == d < n /\ m_fdContexts[d] = 0 IN
    /\ \A d \in Fds : New(d) => made[d] < MaxGen
    /\ made' = [d \in Fds |-> IF New(d) THEN made[d] + 1 ELSE made[d]]
    /\ m_fdContexts' = [d \in Fds |-> IF d >= n THEN 0
                                      ELSE IF New(d) THEN made[d] + 1
                                      ELSE m_fdContexts[d]]

(* Under the write lock, without testing again.                            *)
AddResize(k) ==
    /\ proc = "up"
    /\ pc[k] = "resize"
    /\ Resize(NewSize(want[k].fd))
    /\ held' = [held EXCEPT ![k] = <<want[k].fd, m_fdContexts'[want[k].fd]>>]
    /\ pc' = [pc EXCEPT ![k] = "body"]
    /\ UNCHANGED <<contexts, want, pollers, stray, proc, kernel>>

(* Fault: the interest is only the new event.                              *)
OnlyNew(c, e) == {e}

(* The interest that addEvent gives to epoll_ctl.                          *)
Interest(c, e) == events[c] \cup {e}

(* The EventContext that addEvent leaves.                                  *)
Registered(s, k, kind) ==
    [scheduler |-> TRUE,
     cb |-> IF kind = "cb" THEN k ELSE s.cb,
     fiber |-> IF kind = "fiber" THEN k ELSE s.fiber]

(* Under the mutex of the context.                                         *)
AddBody(k) ==
    LET c == held[k]
        e == want[k].event
        op == IF events[c] # {} THEN "MOD" ELSE "ADD"
    IN
    /\ proc = "up"
    /\ pc[k] = "body"
    /\ held' = [held EXCEPT ![k] = None]
    /\ \/ /\ e \in events[c]
          /\ proc' = "aborted"
          /\ UNCHANGED <<contexts, pc, kernel>>
       \/ /\ e \notin events[c]
          /\ ~CtlWorks(op, c[1])
          /\ pc' = [pc EXCEPT ![k] = "idle"]
          /\ UNCHANGED <<contexts, proc, kernel>>
       \/ /\ e \notin events[c]
          /\ CtlWorks(op, c[1])
          /\ EpollCtl(op, c[1], c, Interest(c, e))
          /\ m_pendingEventCount' = (m_pendingEventCount + 1) % CountMod
          /\ events' = [events EXCEPT ![c] = @ \cup {e}]
          /\ slot' = [slot EXCEPT ![c][e] = Registered(@, k, want[k].kind)]
          /\ pc' = [pc EXCEPT ![k] = "waiting"]
          /\ UNCHANGED <<drift, proc>>
    /\ UNCHANGED <<table, want, pollers, stray>>

-----------------------------------------------------------------------------
(* delEvent, cancelEvent, cancelAll; when they return 1 nothing changes.   *)

(* The context of d, with the events es registered, is taken out of epoll, *)
(* or its interest reduced to the other events.                            *)
Unregister(d, es) ==
    LET c == <<d, m_fdContexts[d]>>
        left == events[c] \ es
        op == IF left # {} THEN "MOD" ELSE "DEL"
    IN  /\ proc = "up"
        /\ m_fdContexts[d] # 0
        /\ es # {} /\ es \subseteq events[c]
        /\ CtlWorks(op, d)
        /\ EpollCtl(op, d, c, left)
        /\ m_pendingEventCount' = Less(Cardinality(es))
        /\ UNCHANGED drift

(* Fault: the event is removed and nobody is scheduled.                    *)
ForgetEvents(d, es) ==
    /\ events' = [events EXCEPT ![<<d, m_fdContexts[d]>>] = @ \ es]
    /\ UNCHANGED <<slot, pc, stray, proc>>

(* cancelEvent and cancelAll trigger what they unregister.                 *)
WakeCancelled(d, es) ==
    LET c == <<d, m_fdContexts[d]>> IN TriggerEvents(c, es, events[c] \ es)

(* The caller whose event is deleted is not told.                          *)
DelEvent(d, e) ==
    LET c == <<d, m_fdContexts[d]>> IN
    /\ "delEvent" \in Ops
    /\ Unregister(d, {e})
    /\ events' = [events EXCEPT ![c] = @ \ {e}]
    /\ slot' = [slot EXCEPT ![c][e] = NoSlot]
    /\ pc' = [k \in Callers |->
                 IF Awaited(Handler(c, e)) /\ k = Handler(c, e).caller
                 THEN "dropped" ELSE pc[k]]
    /\ UNCHANGED <<table, want, held, pollers, stray, proc>>

CancelEvent(d, e) ==
    /\ "cancelEvent" \in Ops
    /\ Unregister(d, {e})
    /\ WakeCancelled(d, {e})
    /\ UNCHANGED <<table, want, held, pollers>>

CancelAll(d) ==
    /\ "cancelAll" \in Ops
    /\ m_fdContexts[d] # 0
    /\ Unregister(d, events[<<d, m_fdContexts[d]>>])
    /\ WakeCancelled(d, events[<<d, m_fdContexts[d]>>])
    /\ UNCHANGED <<table, want, held, pollers>>

-----------------------------------------------------------------------------
(* idle() *)

(* epoll_wait returns everything queued.                                   *)
EpollWait(p) ==
    /\ proc = "up"
    /\ p \in idling
    /\ results[p] = {}
    /\ queued # {}
    /\ results' = [results EXCEPT ![p] =
                      {[ctx |-> epoll[d].ctx, mask |-> Reported(d)] :
                          d \in {q \in queued : Reported(q) # {}}}]
    /\ queued' = {}
    /\ UNCHANGED <<table, contexts, callers, idling, m_stopCommand, stray,
                   proc, epoll, ready>>

(* The events that a result stands for.                                    *)
Occurred(r) == IF "HUP" \in r.mask THEN Events ELSE r.mask

(* Fault: registered or not.                                               *)
Always(r) == TRUE

Concerns(r) == events[r.ctx] \cap Occurred(r) # {}

(* One round of the loop over the results, under the context's mutex.  If  *)
(* one registered event has occurred, every event that has occurred is     *)
(* triggered and counted off, the unregistered ones too.                   *)
ProcessEvent(p, r) ==
    LET left == events[r.ctx] \ Occurred(r)
        op == IF left # {} THEN "MOD" ELSE "DEL"
    IN
    /\ proc = "up"
    /\ r \in results[p]
    /\ results' = [results EXCEPT ![p] = @ \ {r}]
    /\ \/ /\ ~Concerns(r)
          /\ UNCHANGED <<contexts, pc, stray, proc, kernel>>
       \/ /\ Concerns(r)
          /\ EpollCtl(op, r.ctx[1], r.ctx, left)
          /\ TriggerEvents(r.ctx, Occurred(r), left)
          /\ m_pendingEventCount' = Less(Cardinality(Occurred(r)))
          /\ drift' = (drift + Cardinality(Occurred(r) \ events[r.ctx]))
                         % CountMod
    /\ UNCHANGED <<table, want, held, idling, m_stopCommand>>

(* The loop ends when the scheduler is told to stop (no timers here).      *)
LeaveIdle(p) ==
    /\ proc = "up"
    /\ p \in idling
    /\ m_stopCommand
    /\ results[p] = {}
    /\ idling' = idling \ {p}
    /\ UNCHANGED <<table, contexts, callers, results, m_stopCommand, stray,
                   proc, kernel>>

Stop ==
    /\ proc = "up"
    /\ ~m_stopCommand
    /\ m_stopCommand' = TRUE
    /\ UNCHANGED <<table, contexts, callers, results, idling, stray, proc,
                   kernel>>

PollerStep(p) ==
    \/ EpollWait(p)
    \/ \E r \in results[p] : ProcessEvent(p, r)
    \/ LeaveIdle(p)

Next ==
    \/ \E d \in Fds, e \in Events \cup {"HUP"} : BecomeReady(d, e)
    \/ \E k \in Callers, d \in Fds, e \in Events : Consume(k, d, e)
    \/ \E k \in Callers, r \in Requests : AddEvent(k, r)
    \/ \E k \in Callers : AddResize(k) \/ AddBody(k)
    \/ \E d \in Fds, e \in Events : DelEvent(d, e) \/ CancelEvent(d, e)
    \/ \E d \in Fds : CancelAll(d)
    \/ \E p \in Pollers : PollerStep(p)
    \/ Stop

Spec == Init /\ [][Next]_vars

(* The kernel runs the worker threads, and epoll_wait returns when a       *)
(* descriptor is ready; everything else is up to the program.              *)
FairSpec == Spec /\ \A p \in Pollers : WF_vars(PollerStep(p))

-----------------------------------------------------------------------------
(* Properties *)

(* The events registered, each with its context.                           *)
Pending == {x \in Contexts \X Events : x[2] \in events[x[1]]}

(* m_pendingEventCount is the number of registered events, less the events *)
(* that a poller counted off although they were not registered: it drifts  *)
(* there and nowhere else, whatever registrations, cancellations, old      *)
(* results and hang-ups come in between, and also when it wraps around.    *)
PendingCount == (m_pendingEventCount + drift) % CountMod = Cardinality(Pending)

(* A caller that waits is registered for what it waits for, and triggering *)
(* that event schedules this caller: neither a poller with old results,    *)
(* nor a cancellation, nor an earlier user of the context takes its        *)
(* wake-up away.                                                           *)
NotStranded ==
    \A k \in Callers : pc[k] = "waiting" =>
        \E c \in Contexts :
            /\ c[1] = want[k].fd
            /\ want[k].event \in events[c]
            /\ Handler(c, want[k].event) = [caller |-> k, request |-> want[k]]
            /\ slot[c][want[k].event].scheduler

(* Nobody is scheduled for an event it does not wait for at that moment:   *)
(* one registration, one wake-up.                                          *)
NoStrayWake == stray = {}

(* triggerEvent lacks a scheduler to call only for an event that is not    *)
(* registered, reported together with one that is: both events of the      *)
(* context have had a user.  Old results, cancellations and hang-ups never *)
(* crash the process on a descriptor used in one direction.                *)
CrashNeedsBoth ==
    proc = "crashed" =>
        \E c \in Contexts : \A e \in Events : Handler(c, e).caller # None

(* Descriptor d can lie beyond the size that addEvent gives the table for  *)
(* a smaller descriptor, one that may be missing from it.                  *)
Droppable(d) ==
    \E k \in Callers : \E u \in Uses[k] : u[1] >= Grown /\ NewSize(u[1]) <= d

(* A registered event is found by cancelEvent, because its context is in   *)
(* the table, unless a late resize can drop it: growing the table never    *)
(* loses or replaces a context that is in use, although addEvent computes  *)
(* the size before it has the write lock and does not look again.          *)
Cancellable ==
    \A c \in Contexts :
        events[c] # {} /\ ~Droppable(c[1]) => m_fdContexts[c[1]] = c[2]

(* A caller that waits for an event that has occurred is scheduled, unless *)
(* the scheduler is stopped or the process ends first: edge-triggered      *)
(* epoll reports the event once, and whatever part of the interest is not  *)
(* used up is re-armed.                                                    *)
EventWakes ==
    \A k \in Callers, d \in Fds, e \in Events :
        pc[k] = "waiting" /\ want[k].fd = d /\ want[k].event = e
              /\ e \in ready[d]
        ~> pc[k] # "waiting" \/ m_stopCommand \/ proc # "up"
=============================================================================
