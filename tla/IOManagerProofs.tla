-------------------------- MODULE IOManagerProofs --------------------------
(***************************************************************************)
(* Proofs about IOManager, for any callers, pollers and descriptors.       *)
(*                                                                         *)
(* Who is woken depends on a rule of the program, that callers register in *)
(* one way only; the theorems that need it name it.                        *)
(***************************************************************************)
EXTENDS IOManager, FiniteSetTheorems, TLAPS

(* Callers register as fibers only, or with callbacks only.                *)
SingleKind == ~("fiber" \in Kinds /\ "cb" \in Kinds)

-----------------------------------------------------------------------------
(* The type invariant *)

(* A caller inside addEvent, or waiting, has a request, and where it uses  *)
(* a context it is one of the requested descriptor.                        *)
CallerInv ==
    \A k \in Callers :
        /\ pc[k] \in {"resize", "body", "waiting"} =>
              /\ want[k] \in Requests
              /\ <<want[k].fd, want[k].event>> \in Uses[k]
        /\ proc = "up" /\ pc[k] = "body" =>
              held[k] \in Contexts /\ held[k][1] = want[k].fd

(* Interests point to contexts of their descriptor, and only descriptors   *)
(* with an interest are queued.                                            *)
KernelInv ==
    \A d \in Fds :
        epoll[d] # Absent \/ d \in queued =>
            epoll[d].ctx \in Contexts /\ epoll[d].ctx[1] = d

BaseInv == TypeOK /\ CallerInv /\ KernelInv

LEMMA CountModPositive == CountMod \in Nat \ {0}
<1>1. IsFiniteSet(Events)
  <2>1. Events = {"READ"} \cup {"WRITE"}
    BY DEF Events
  <2> QED
    BY <2>1, FS_Singleton, FS_Union
<1>2. Cardinality(Fds \X Events) \in Nat
  BY <1>1, IOAssumption, FS_Product, FS_CardinalityType DEF IOAssumption
<1>3. \A a, b \in Nat : a * b >= 0
  OBVIOUS
<1> QED
  BY <1>2, <1>3, IOAssumption DEF IOAssumption

(* The count stays in its range whatever is added or subtracted.           *)
LEMMA CountRange ==
    ASSUME TypeOK, NEW n \in Int
    PROVE  /\ Less(n) \in 0..(CountMod - 1)
           /\ (m_pendingEventCount + 1) % CountMod \in 0..(CountMod - 1)
           /\ (drift + n) % CountMod \in 0..(CountMod - 1)
           /\ (drift + 0) % CountMod = drift
<1>1. m_pendingEventCount \in Int /\ CountMod \in Nat /\ CountMod > 0
  BY CountModPositive DEF TypeOK
<1>2. (m_pendingEventCount + CountMod - n) % CountMod \in 0..(CountMod - 1)
  BY <1>1
<1>3. (m_pendingEventCount + 1) % CountMod \in 0..(CountMod - 1)
  BY <1>1
<1>4. drift \in 0..(CountMod - 1)
  BY DEF TypeOK
<1>5. (drift + n) % CountMod \in 0..(CountMod - 1)
  BY <1>1, <1>4
<1>6. (drift + 0) % CountMod = drift
  BY <1>1, <1>4
<1> QED
  BY <1>2, <1>3, <1>5, <1>6 DEF Less

(* epoll_ctl keeps the kernel's tables consistent.                         *)
LEMMA CtlKeeps ==
    ASSUME TypeOK, KernelInv, NEW op, NEW d \in Fds, NEW c \in Contexts,
           c[1] = d, NEW mask \in SUBSET Events, EpollCtl(op, d, c, mask)
    PROVE  /\ epoll' \in [Fds -> [ctx : Contexts \cup {None},
                                  mask : SUBSET Events]]
           /\ queued' \subseteq Fds
           /\ ready' = ready
           /\ KernelInv'
<1> DEFINE New == [ctx |-> c, mask |-> mask]
<1>1. /\ New \in [ctx : Contexts \cup {None}, mask : SUBSET Events]
      /\ Absent \in [ctx : Contexts \cup {None}, mask : SUBSET Events]
      /\ New.ctx = c
  BY DEF Absent
<1>2. CASE ~CtlWorks(op, d)
  BY <1>2 DEF EpollCtl, TypeOK, KernelInv
<1>3. CASE CtlWorks(op, d) /\ op = "DEL"
  <2>1. epoll' = [epoll EXCEPT ![d] = Absent] /\ queued' = queued \ {d}
    BY <1>3 DEF EpollCtl
  <2>2. epoll' \in [Fds -> [ctx : Contexts \cup {None}, mask : SUBSET Events]]
    BY <1>1, <2>1 DEF TypeOK
  <2> QED
    BY <1>3, <2>1, <2>2 DEF EpollCtl, TypeOK, KernelInv
<1>4. CASE CtlWorks(op, d) /\ op # "DEL"
  <2>1. /\ epoll' = [epoll EXCEPT ![d] = New]
        /\ queued' \in {queued \cup {d}, queued \ {d}}
        /\ ready' = ready
    BY <1>4 DEF EpollCtl
  <2>2. epoll' \in [Fds -> [ctx : Contexts \cup {None}, mask : SUBSET Events]]
    BY <1>1, <2>1 DEF TypeOK
  <2>3. ASSUME NEW x \in Fds
        PROVE  epoll'[x] # Absent \/ x \in queued' =>
                   epoll'[x].ctx \in Contexts /\ epoll'[x].ctx[1] = x
    <3>1. CASE x = d
      BY <1>1, <2>1, <3>1 DEF TypeOK
    <3>2. CASE x # d
      BY <1>1, <2>1, <3>2 DEF TypeOK, KernelInv
    <3> QED
      BY <3>1, <3>2
  <2> QED
    BY <2>1, <2>2, <2>3 DEF TypeOK, KernelInv
<1> QED
  BY <1>2, <1>3, <1>4

-----------------------------------------------------------------------------
(* What triggerEvent does *)

SlotType == [scheduler : BOOLEAN, cb : Handlers, fiber : Handlers]

(* Triggering event e of context c schedules caller k, who waits for it.   *)
Wakes(c, e, k) == Handler(c, e).caller = k /\ Awaited(Handler(c, e))

LEMMA HandlerFields ==
    ASSUME TypeOK, NEW c \in Contexts, NEW e \in Events
    PROVE  /\ slot[c][e] \in SlotType
           /\ Handler(c, e).caller \in Handlers
           /\ Handler(c, e).request.event = e
           /\ Handler(c, e).request.fd = c[1]
<1>1. slot[c][e] \in SlotType
  BY DEF TypeOK, SlotType
<1> QED
  BY <1>1 DEF Handler, SlotType

LEMMA TriggerEffect ==
    ASSUME TypeOK, NEW c \in Contexts, NEW es \in SUBSET Events,
           NEW left \in SUBSET Events, TriggerEvents(c, es, left)
    PROVE  /\ events' = [events EXCEPT ![c] = left]
           /\ slot' \in [Contexts -> [Events -> SlotType]]
           /\ \A x \in Contexts, e \in Events :
                 slot'[x][e] = IF x = c /\ e \in es
                               THEN Triggered(slot[x][e]) ELSE slot[x][e]
           /\ pc' = [k \in Callers |->
                        IF \E e \in es : Wakes(c, e, k)
                        THEN "idle" ELSE pc[k]]
           /\ stray \subseteq stray' /\ stray' \subseteq Callers
           /\ \A k \in stray' \ stray : \E e \in es :
                 /\ slot[c][e].scheduler
                 /\ ~Awaited(Handler(c, e))
           /\ proc' = IF \E e \in es : NullSchedule(c, e)
                      THEN "crashed" ELSE proc
<1> DEFINE woken == {h \in {Handler(c, e) : e \in es} : h.caller # None}
           awake == {h.caller : h \in {g \in woken : Awaited(g)}}
           lost == {h.caller : h \in {g \in woken :
                       ~Awaited(g) /\ slot[c][g.request.event].scheduler}}
<1>1. /\ events' = [events EXCEPT ![c] = left]
      /\ slot' = [slot EXCEPT ![c] = [e \in Events |->
                    IF e \in es THEN Triggered(@[e]) ELSE @[e]]]
      /\ pc' = [k \in Callers |-> IF k \in awake THEN "idle" ELSE pc[k]]
      /\ stray' = stray \cup lost
      /\ proc' = IF \E e \in es : NullSchedule(c, e) THEN "crashed" ELSE proc
  BY DEF TriggerEvents
<1>2. slot \in [Contexts -> [Events -> SlotType]]
  BY DEF TypeOK, SlotType
<1>3. \A s \in SlotType : Triggered(s) \in SlotType
  BY DEF SlotType, Triggered
<1>4. /\ slot' \in [Contexts -> [Events -> SlotType]]
      /\ \A x \in Contexts, e \in Events :
             slot'[x][e] = IF x = c /\ e \in es
                           THEN Triggered(slot[x][e]) ELSE slot[x][e]
  <2>1. [e \in Events |-> IF e \in es THEN Triggered(slot[c][e])
                          ELSE slot[c][e]] \in [Events -> SlotType]
    BY <1>2, <1>3
  <2> QED
    BY <1>1, <1>2, <2>1
<1>5. ASSUME NEW k \in Callers
      PROVE  k \in awake <=> \E e \in es : Wakes(c, e, k)
  <2>1. k # None
    BY IOAssumption DEF IOAssumption
  <2> QED
    BY <2>1, Zenon DEF Wakes
<1>6. \A k \in lost : \E e \in es : /\ slot[c][e].scheduler
                                    /\ ~Awaited(Handler(c, e))
                                    /\ k = Handler(c, e).caller
                                    /\ k # None
  <2>1. \A e \in es : Handler(c, e).request.event = e
    BY HandlerFields
  <2> QED
    BY <2>1, Zenon
<1>7. lost \subseteq Callers
  BY <1>6, HandlerFields DEF Handlers
<1>8. pc' = [k \in Callers |-> IF \E e \in es : Wakes(c, e, k)
                               THEN "idle" ELSE pc[k]]
  BY <1>1, <1>5
<1> HIDE DEF lost, awake, woken
<1> QED
  BY <1>1, <1>4, <1>6, <1>7, <1>8 DEF TypeOK

-----------------------------------------------------------------------------
(* Types *)

KernelType ==
    /\ epoll \in [Fds -> [ctx : Contexts \cup {None}, mask : SUBSET Events]]
    /\ queued \subseteq Fds
    /\ ready \in [Fds -> SUBSET (Events \cup {"HUP"})]

LEMMA EventsFinite ==
    ASSUME NEW es \in SUBSET Events
    PROVE  IsFiniteSet(es) /\ Cardinality(es) \in Int
<1>1. Events = {"READ"} \cup {"WRITE"}
  BY DEF Events
<1>2. IsFiniteSet(Events)
  BY <1>1, FS_Singleton, FS_Union
<1>3. IsFiniteSet(es)
  BY <1>2, FS_Subset
<1> QED
  BY <1>3, FS_CardinalityType

(* The context that the table has for a descriptor.                        *)
LEMMA TableContext ==
    ASSUME TypeOK, NEW d \in Fds, m_fdContexts[d] # 0
    PROVE  /\ <<d, m_fdContexts[d]>> \in Contexts
           /\ <<d, m_fdContexts[d]>>[1] = d
<1>1. m_fdContexts[d] \in 1..MaxGen
  BY IOAssumption DEF IOAssumption, TypeOK
<1> QED
  BY <1>1 DEF Contexts

(* What delEvent, cancelEvent and cancelAll have in common.                *)
LEMMA UnregisterKeeps ==
    ASSUME TypeOK, KernelInv, NEW d \in Fds, NEW es, Unregister(d, es)
    PROVE  /\ <<d, m_fdContexts[d]>> \in Contexts
           /\ es \in SUBSET Events /\ es \subseteq events[<<d, m_fdContexts[d]>>]
           /\ es # {}
           /\ KernelType' /\ KernelInv' /\ ready' = ready
           /\ m_pendingEventCount' = Less(Cardinality(es))
           /\ m_pendingEventCount' \in 0..(CountMod - 1)
           /\ drift' = drift /\ drift' \in 0..(CountMod - 1)
           /\ drift' = (drift + Cardinality(es \ events[<<d, m_fdContexts[d]>>]))
                          % CountMod
<1> DEFINE c == <<d, m_fdContexts[d]>>
           left == events[c] \ es
<1>1. c \in Contexts /\ c[1] = d
  BY TableContext DEF Unregister
<1>2. es \in SUBSET Events /\ left \in SUBSET Events
  BY <1>1 DEF Unregister, TypeOK
<1>3. \E op : EpollCtl(op, d, c, left)
  BY DEF Unregister
<1>4. KernelType' /\ KernelInv' /\ ready' = ready
  <2> HIDE DEF c, left
  <2> QED
    BY <1>1, <1>2, <1>3, CtlKeeps DEF KernelType, TypeOK
<1>5. Less(Cardinality(es)) \in 0..(CountMod - 1)
  BY <1>2, EventsFinite, CountRange
<1>6. drift' = drift /\ drift' \in 0..(CountMod - 1)
  BY DEF Unregister, TypeOK
<1>7. Cardinality(es \ events[c]) = 0
  <2>1. es \ events[c] = {}
    BY DEF Unregister
  <2> QED
    BY <2>1, FS_EmptySet
<1>8. drift' = (drift + Cardinality(es \ events[c])) % CountMod
  <2>1. 0 \in Int
    OBVIOUS
  <2>2. (drift + 0) % CountMod = drift
    BY <2>1, CountRange
  <2> QED
    BY <1>6, <1>7, <2>2
<1> QED
  BY <1>1, <1>2, <1>4, <1>5, <1>6, <1>8 DEF Unregister

LEMMA BaseInit == Init => BaseInv
<1> SUFFICES ASSUME Init PROVE BaseInv
  OBVIOUS
<1> USE IOAssumption DEF IOAssumption, Init
<1>1. TypeOK
  <2>1. 1 \in 0..MaxGen /\ 0 \in 0..MaxGen
    OBVIOUS
  <2>2. NoSlot \in SlotType
    BY DEF NoSlot, SlotType, Handlers
  <2>3. slot \in [Contexts -> [Events -> SlotType]]
    BY <2>2
  <2>4. m_pendingEventCount \in 0..(CountMod - 1) /\ drift \in 0..(CountMod - 1)
    BY CountModPositive
  <2>5. epoll \in [Fds -> [ctx : Contexts \cup {None}, mask : SUBSET Events]]
    BY DEF Absent
  <2>6. m_stopCommand \in BOOLEAN
    BY Zenon
  <2>7. m_fdContexts \in [Fds -> 0..MaxGen] /\ made \in [Fds -> 0..MaxGen]
    BY <2>1
  <2> QED
    BY <2>3, <2>4, <2>5, <2>6, <2>7 DEF TypeOK, SlotType
<1>2. CallerInv
  BY DEF CallerInv
<1>3. KernelInv
  BY DEF KernelInv
<1> QED
  BY <1>1, <1>2, <1>3 DEF BaseInv

(* The steps that change neither the table nor a context.                  *)
LEMMA BaseKernel ==
    ASSUME BaseInv,
           \/ \E d \in Fds, e \in Events \cup {"HUP"} : BecomeReady(d, e)
           \/ \E k \in Callers, d \in Fds, e \in Events : Consume(k, d, e)
           \/ \E p \in Pollers : EpollWait(p) \/ LeaveIdle(p)
           \/ Stop
    PROVE  BaseInv'
<1> USE DEF BaseInv, table, contexts, callers, pollers, kernel
<1>1. ASSUME NEW d \in Fds, NEW e \in Events \cup {"HUP"}, BecomeReady(d, e)
      PROVE  BaseInv'
  <2>1. TypeOK'
    BY <1>1 DEF BecomeReady, TypeOK
  <2>2. KernelInv'
    BY <1>1 DEF BecomeReady, KernelInv, TypeOK
  <2> QED
    BY <1>1, <2>1, <2>2 DEF BecomeReady, CallerInv
<1>2. ASSUME NEW k \in Callers, NEW d \in Fds, NEW e \in Events,
             Consume(k, d, e)
      PROVE  BaseInv'
  BY <1>2 DEF Consume, TypeOK, CallerInv, KernelInv
<1>3. ASSUME NEW p \in Pollers, EpollWait(p) PROVE BaseInv'
  <2> DEFINE Result(d) == [ctx |-> epoll[d].ctx, mask |-> Reported(d)]
             Results == [ctx : Contexts, mask : SUBSET (Events \cup {"HUP"})]
  <2>1. ASSUME NEW d \in queued PROVE Result(d) \in Results
    <3>1. d \in Fds /\ epoll[d].ctx \in Contexts
      BY DEF TypeOK, KernelInv
    <3>2. Reported(d) \subseteq Events \cup {"HUP"}
      BY <3>1 DEF Reported, TypeOK
    <3> QED
      BY <3>1, <3>2
  <2>2. results' \in [Pollers -> SUBSET Results]
    BY <1>3, <2>1 DEF EpollWait, TypeOK
  <2> QED
    BY <1>3, <2>2 DEF EpollWait, TypeOK, CallerInv, KernelInv
<1>4. ASSUME NEW p \in Pollers, LeaveIdle(p) PROVE BaseInv'
  BY <1>4 DEF LeaveIdle, TypeOK, CallerInv, KernelInv
<1>5. ASSUME Stop PROVE BaseInv'
  <2>1. m_stopCommand' \in BOOLEAN
    BY <1>5, Zenon DEF Stop
  <2> QED
    BY <1>5, <2>1 DEF Stop, TypeOK, CallerInv, KernelInv
<1> QED
  BY <1>1, <1>2, <1>3, <1>4, <1>5

(* The size given to the table for a descriptor makes room for it.         *)
LEMMA NewSizeFits ==
    ASSUME NEW d \in Fds
    PROVE  NewSize(d) \in Nat /\ d < NewSize(d)
  BY IOAssumption DEF IOAssumption, NewSize

LEMMA ResizeKeeps ==
    ASSUME TypeOK, NEW n \in Nat, Resize(n)
    PROVE  /\ m_fdContexts' \in [Fds -> 0..MaxGen]
           /\ made' \in [Fds -> 0..MaxGen]
           /\ \A d \in Fds : d < n => m_fdContexts'[d] # 0
<1> DEFINE New(d) == d < n /\ m_fdContexts[d] = 0
<1>1. /\ \A d \in Fds : New(d) => made[d] < MaxGen
      /\ made' = [d \in Fds |-> IF New(d) THEN made[d] + 1 ELSE made[d]]
      /\ m_fdContexts' = [d \in Fds |-> IF d >= n THEN 0
                                        ELSE IF New(d) THEN made[d] + 1
                                        ELSE m_fdContexts[d]]
  BY DEF Resize
<1>2. ASSUME NEW d \in Fds
      PROVE  /\ made'[d] \in 0..MaxGen /\ m_fdContexts'[d] \in 0..MaxGen
             /\ d < n => m_fdContexts'[d] # 0
  <2>1. d \in Nat /\ MaxGen \in Nat
    BY IOAssumption DEF IOAssumption
  <2>2. made[d] \in 0..MaxGen /\ m_fdContexts[d] \in 0..MaxGen
    BY DEF TypeOK
  <2> QED
    BY <1>1, <2>1, <2>2
<1> QED
  BY <1>1, <1>2

(* addEvent.                                                               *)
LEMMA BaseAdd ==
    ASSUME BaseInv, NEW k \in Callers,
           (\E r \in Requests : AddEvent(k, r)) \/ AddResize(k) \/ AddBody(k)
    PROVE  BaseInv'
<1> USE DEF BaseInv, table, contexts, callers, pollers, kernel
<1>1. ASSUME NEW r \in Requests, AddEvent(k, r) PROVE BaseInv'
  <2>1. r.fd \in Fds
    BY DEF Requests
  <2>2. m_fdContexts[r.fd] # 0 => /\ <<r.fd, m_fdContexts[r.fd]>> \in Contexts
                                  /\ <<r.fd, m_fdContexts[r.fd]>>[1] = r.fd
    BY <2>1, TableContext
  <2>3. TypeOK'
    BY <1>1, <2>2, ZenonT(60) DEF AddEvent, TypeOK
  <2>4. CallerInv'
    BY <1>1, <2>2, ZenonT(60) DEF AddEvent, TypeOK, CallerInv
  <2> QED
    BY <1>1, <2>3, <2>4 DEF AddEvent, KernelInv
<1>2. ASSUME AddResize(k) PROVE BaseInv'
  <2>1. want[k] \in Requests /\ want[k].fd \in Fds
    BY <1>2 DEF AddResize, CallerInv, Requests
  <2> DEFINE c == <<want[k].fd, m_fdContexts'[want[k].fd]>>
  <2>2. /\ m_fdContexts' \in [Fds -> 0..MaxGen]
        /\ made' \in [Fds -> 0..MaxGen]
        /\ m_fdContexts'[want[k].fd] # 0
    <3>1. NewSize(want[k].fd) \in Nat /\ want[k].fd < NewSize(want[k].fd)
      BY <2>1, NewSizeFits
    <3>2. Resize(NewSize(want[k].fd))
      BY <1>2 DEF AddResize
    <3> QED
      BY <2>1, <3>1, <3>2, ResizeKeeps
  <2>3. c \in Contexts /\ c[1] = want[k].fd
    <3>1. m_fdContexts'[want[k].fd] \in 1..MaxGen
      <4>1. MaxGen \in Nat
        BY IOAssumption DEF IOAssumption
      <4>2. m_fdContexts'[want[k].fd] \in 0..MaxGen
        BY <2>1, <2>2
      <4> QED
        BY <2>2, <4>1, <4>2
    <3> QED
      BY <2>1, <3>1 DEF Contexts
  <2>4. /\ held' = [held EXCEPT ![k] = c]
        /\ pc' = [pc EXCEPT ![k] = "body"]
        /\ UNCHANGED <<contexts, want, pollers, stray, proc, kernel>>
    BY <1>2 DEF AddResize
  <2> HIDE DEF c
  <2>5. TypeOK'
    BY <2>2, <2>3, <2>4 DEF TypeOK
  <2>6. CallerInv'
    BY <1>2, <2>3, <2>4 DEF AddResize, TypeOK, CallerInv
  <2> QED
    BY <2>4, <2>5, <2>6 DEF KernelInv
<1>3. ASSUME AddBody(k) PROVE BaseInv'
  <2> DEFINE c == held[k]
             e == want[k].event
  <2>1. c \in Contexts /\ c[1] \in Fds /\ e \in Events /\ want[k] \in Requests
    BY <1>3 DEF AddBody, CallerInv, Requests, Contexts
  <2>2. /\ held' = [held EXCEPT ![k] = None]
        /\ UNCHANGED <<table, want, pollers, stray>>
    BY <1>3 DEF AddBody
  <2>3. CASE proc' = "aborted" /\ UNCHANGED <<contexts, pc, kernel>>
    BY <2>2, <2>3 DEF TypeOK, CallerInv, KernelInv
  <2>4. CASE /\ pc' = [pc EXCEPT ![k] = "idle"]
             /\ UNCHANGED <<contexts, proc, kernel>>
    BY <2>2, <2>4 DEF TypeOK, CallerInv, KernelInv
  <2>5. CASE /\ \E op : EpollCtl(op, c[1], c, Interest(c, e))
             /\ m_pendingEventCount' = (m_pendingEventCount + 1) % CountMod
             /\ events' = [events EXCEPT ![c] = @ \cup {e}]
             /\ slot' = [slot EXCEPT ![c][e] = Registered(@, k, want[k].kind)]
             /\ pc' = [pc EXCEPT ![k] = "waiting"]
             /\ UNCHANGED <<drift, proc>>
    <3>1. Interest(c, e) \in SUBSET Events
      BY <2>1 DEF Interest, TypeOK
    <3> HIDE DEF c, e
    <3>2. KernelType' /\ KernelInv'
      BY <2>1, <2>5, <3>1, CtlKeeps DEF KernelType, TypeOK
    <3>3. m_pendingEventCount' \in 0..(CountMod - 1)
      <4>1. 1 \in Int
        OBVIOUS
      <4> QED
        BY <2>5, <4>1, CountRange
    <3>4. slot' \in [Contexts -> [Events -> SlotType]]
      <4>1. slot \in [Contexts -> [Events -> SlotType]]
        BY DEF TypeOK, SlotType
      <4>2. Registered(slot[c][e], k, want[k].kind) \in SlotType
        BY <2>1, <4>1 DEF Registered, SlotType, Handlers
      <4> QED
        BY <2>1, <2>5, <4>1, <4>2
    <3>5. events' \in [Contexts -> SUBSET Events]
      BY <2>1, <2>5 DEF TypeOK
    <3>6. /\ pc' \in [Callers -> {"idle", "resize", "body", "waiting", "dropped"}]
          /\ held' \in [Callers -> Contexts \cup {None}]
      BY <2>2, <2>5 DEF TypeOK
    <3>7. TypeOK'
      BY <2>2, <2>5, <3>2, <3>3, <3>4, <3>5, <3>6
      DEF TypeOK, KernelType, SlotType
    <3>8. CallerInv'
      BY <1>3, <2>2, <2>5 DEF AddBody, TypeOK, CallerInv
    <3> QED
      BY <3>2, <3>7, <3>8
  <2> QED
    BY <1>3, <2>3, <2>4, <2>5 DEF AddBody
<1> QED
  BY <1>1, <1>2, <1>3

LEMMA TriggerKeeps ==
    ASSUME BaseInv, NEW c \in Contexts, NEW es \in SUBSET Events,
           NEW left \in SUBSET Events, TriggerEvents(c, es, left),
           KernelType', KernelInv', m_pendingEventCount' \in 0..(CountMod - 1),
           drift' \in 0..(CountMod - 1),
           UNCHANGED <<table, want, held, idling, m_stopCommand>>,
           results' \in [Pollers -> SUBSET [ctx : Contexts,
                             mask : SUBSET (Events \cup {"HUP"})]]
    PROVE  BaseInv'
<1>1. /\ events' = [events EXCEPT ![c] = left]
      /\ slot' \in [Contexts -> [Events -> SlotType]]
      /\ pc' = [k \in Callers |-> IF \E e \in es : Wakes(c, e, k)
                                  THEN "idle" ELSE pc[k]]
      /\ stray' \subseteq Callers
      /\ proc' = IF \E e \in es : NullSchedule(c, e)
                 THEN "crashed" ELSE proc
  BY TriggerEffect, ZenonT(60) DEF BaseInv
<1>2. /\ events' \in [Contexts -> SUBSET Events]
      /\ pc' \in [Callers -> {"idle", "resize", "body", "waiting", "dropped"}]
      /\ \A k \in Callers : pc'[k] \in {pc[k], "idle"}
      /\ proc' \in {"crashed", proc}
  BY <1>1 DEF BaseInv, TypeOK
<1>3. TypeOK'
  BY <1>1, <1>2 DEF BaseInv, TypeOK, KernelType, SlotType, table
<1>4. CallerInv'
  BY <1>1, <1>2 DEF BaseInv, CallerInv
<1> QED
  BY <1>3, <1>4 DEF BaseInv

(* delEvent, cancelEvent, cancelAll and the loop over the results.         *)
LEMMA BaseRemove ==
    ASSUME BaseInv,
           \/ \E d \in Fds, e \in Events : DelEvent(d, e) \/ CancelEvent(d, e)
           \/ \E d \in Fds : CancelAll(d)
           \/ \E p \in Pollers : \E r \in results[p] : ProcessEvent(p, r)
    PROVE  BaseInv'
<1> USE DEF BaseInv, table, contexts, callers, pollers, kernel
<1>1. ASSUME NEW d \in Fds, NEW e \in Events, DelEvent(d, e) PROVE BaseInv'
  <2> DEFINE c == <<d, m_fdContexts[d]>>
  <2>1. /\ c \in Contexts /\ KernelType' /\ KernelInv'
        /\ m_pendingEventCount' \in 0..(CountMod - 1)
        /\ drift' \in 0..(CountMod - 1)
    BY <1>1, UnregisterKeeps DEF DelEvent
  <2>2. /\ events' = [events EXCEPT ![c] = @ \ {e}]
        /\ slot' = [slot EXCEPT ![c][e] = NoSlot]
        /\ pc' = [k \in Callers |->
                     IF Awaited(Handler(c, e)) /\ k = Handler(c, e).caller
                     THEN "dropped" ELSE pc[k]]
        /\ UNCHANGED <<table, want, held, pollers, stray, proc>>
    BY <1>1 DEF DelEvent
  <2> HIDE DEF c
  <2>3. slot' \in [Contexts -> [Events -> SlotType]]
    <3>1. slot \in [Contexts -> [Events -> SlotType]]
      BY DEF TypeOK, SlotType
    <3>2. NoSlot \in SlotType
      BY DEF NoSlot, SlotType, Handlers
    <3> QED
      BY <2>1, <2>2, <3>1, <3>2
  <2>4. /\ pc' \in [Callers -> {"idle", "resize", "body", "waiting", "dropped"}]
        /\ \A k \in Callers : pc'[k] \in {pc[k], "dropped"}
    BY <2>2 DEF TypeOK
  <2>5. events' \in [Contexts -> SUBSET Events]
    BY <2>1, <2>2 DEF TypeOK
  <2>6. TypeOK'
    BY <2>1, <2>2, <2>3, <2>4, <2>5 DEF TypeOK, KernelType, SlotType
  <2>7. CallerInv'
    BY <2>2, <2>4 DEF CallerInv
  <2> QED
    BY <2>1, <2>6, <2>7
<1>2. ASSUME NEW d \in Fds, NEW es, Unregister(d, es), WakeCancelled(d, es),
             UNCHANGED <<table, want, held, pollers>>
      PROVE  BaseInv'
  <2> DEFINE c == <<d, m_fdContexts[d]>>
  <2>1. /\ c \in Contexts /\ es \in SUBSET Events
        /\ KernelType' /\ KernelInv'
        /\ m_pendingEventCount' \in 0..(CountMod - 1)
        /\ drift' \in 0..(CountMod - 1)
    BY <1>2, UnregisterKeeps
  <2>2. events[c] \ es \in SUBSET Events
    BY <2>1 DEF TypeOK
  <2>3. TriggerEvents(c, es, events[c] \ es)
    BY <1>2 DEF WakeCancelled
  <2> HIDE DEF c
  <2> QED
    BY <1>2, <2>1, <2>2, <2>3, TriggerKeeps DEF TypeOK
<1>3. ASSUME NEW p \in Pollers, NEW r \in results[p], ProcessEvent(p, r)
      PROVE  BaseInv'
  <2> DEFINE left == events[r.ctx] \ Occurred(r)
  <2>1. /\ r.ctx \in Contexts /\ r.ctx[1] \in Fds
        /\ left \in SUBSET Events
    BY DEF TypeOK, Contexts
  <2>2. /\ results' \in [Pollers -> SUBSET [ctx : Contexts,
                             mask : SUBSET (Events \cup {"HUP"})]]
        /\ UNCHANGED <<table, want, held, idling, m_stopCommand>>
    BY <1>3 DEF ProcessEvent, TypeOK
  <2>3. Occurred(r) \in SUBSET Events
    BY DEF TypeOK, Occurred
  <2>4. CASE ~Concerns(r)
    BY <1>3, <2>2, <2>4, ZenonT(60) DEF ProcessEvent, TypeOK, CallerInv, KernelInv
  <2>5. CASE Concerns(r)
    <3>1. /\ \E op : EpollCtl(op, r.ctx[1], r.ctx, left)
          /\ TriggerEvents(r.ctx, Occurred(r), left)
          /\ m_pendingEventCount' = Less(Cardinality(Occurred(r)))
          /\ drift' = (drift + Cardinality(Occurred(r) \ events[r.ctx]))
                         % CountMod
      BY <1>3, <2>5 DEF ProcessEvent
    <3> HIDE DEF left
    <3>2. KernelType' /\ KernelInv'
      BY <2>1, <3>1, CtlKeeps DEF KernelType, TypeOK
    <3>3. m_pendingEventCount' \in 0..(CountMod - 1)
      BY <2>3, <3>1, EventsFinite, CountRange
    <3>4. drift' \in 0..(CountMod - 1)
      <4>1. Cardinality(Occurred(r) \ events[r.ctx]) \in Int
        <5>1. Occurred(r) \ events[r.ctx] \in SUBSET Events
          BY <2>3
        <5> QED
          BY <5>1, EventsFinite
      <4> QED
        BY <3>1, <4>1, CountRange
    <3> QED
      BY <2>1, <2>2, <2>3, <3>1, <3>2, <3>3, <3>4, TriggerKeeps
  <2> QED
    BY <2>4, <2>5
<1> QED
  BY <1>1, <1>2, <1>3 DEF CancelEvent, CancelAll

LEMMA BaseAlways == Spec => []BaseInv
<1>1. BaseInv /\ [Next]_vars => BaseInv'
  <2> SUFFICES ASSUME BaseInv, [Next]_vars PROVE BaseInv'
    OBVIOUS
  <2>1. CASE UNCHANGED vars
    BY <2>1
    DEF vars, table, contexts, callers, pollers, kernel, BaseInv, TypeOK,
        CallerInv, KernelInv
  <2> QED
    BY <2>1, BaseKernel, BaseAdd, BaseRemove DEF Next, PollerStep
<1> QED
  BY <1>1, BaseInit, PTL DEF Spec

(* Every variable of the IO manager keeps its type, whatever callers and   *)
(* pollers do: in particular addEvent always has a context to use, also    *)
(* after the table was shrunk by another caller.                           *)
THEOREM IOTypes == Spec => []TypeOK
<1>1. BaseInv => TypeOK
  BY DEF BaseInv
<1> QED
  BY <1>1, BaseAlways, PTL

-----------------------------------------------------------------------------
(* What a step may do to the registrations.  Four kinds of steps are told  *)
(* apart, so that the invariants below need not look at every action.      *)

(* Nothing is registered or triggered.                                     *)
Quiet ==
    /\ UNCHANGED <<events, slot, m_pendingEventCount, drift, stray>>
    /\ proc' \in {proc, "aborted"}
    /\ \A k \in Callers :
          /\ pc'[k] = "waiting" <=> pc[k] = "waiting"
          /\ pc[k] = "waiting" => want'[k] = want[k]

(* Caller k registers the event it wants in the context it holds.          *)
Registers(k, c, e) ==
    /\ proc = "up"
    /\ pc[k] = "body"
    /\ c[1] = want[k].fd /\ e = want[k].event /\ <<c[1], e>> \in Uses[k]
    /\ want[k] \in Requests
    /\ e \notin events[c]
    /\ m_pendingEventCount' = (m_pendingEventCount + 1) % CountMod
    /\ events' = [events EXCEPT ![c] = @ \cup {e}]
    /\ slot' = [slot EXCEPT ![c][e] = Registered(@, k, want[k].kind)]
    /\ pc' = [pc EXCEPT ![k] = "waiting"]
    /\ UNCHANGED <<want, drift, stray, proc>>

(* The events es of context c are triggered: all of them registered, or    *)
(* what a poller was told by epoll_wait.                                   *)
Triggers(c, es, left) ==
    /\ proc = "up"
    /\ es \cap events[c] # {}
    /\ \/ es \subseteq events[c]
       \/ \E p \in Pollers : \E r \in results[p] : r.ctx = c /\ es = Occurred(r)
    /\ left = events[c] \ es
    /\ TriggerEvents(c, es, left)
    /\ m_pendingEventCount' = Less(Cardinality(es))
    /\ drift' = (drift + Cardinality(es \ events[c])) % CountMod
    /\ UNCHANGED want

(* Event e of context c is deleted.                                        *)
Deletes(c, e) ==
    /\ proc = "up"
    /\ e \in events[c]
    /\ events' = [events EXCEPT ![c] = @ \ {e}]
    /\ slot' = [slot EXCEPT ![c][e] = NoSlot]
    /\ pc' = [k \in Callers |->
                 IF Awaited(Handler(c, e)) /\ k = Handler(c, e).caller
                 THEN "dropped" ELSE pc[k]]
    /\ m_pendingEventCount' = Less(Cardinality({e}))
    /\ UNCHANGED <<want, drift, stray, proc>>

LEMMA Steps ==
    ASSUME BaseInv, [Next]_vars
    PROVE  \/ Quiet
           \/ \E k \in Callers, c \in Contexts, e \in Events : Registers(k, c, e)
           \/ \E c \in Contexts, es, left \in SUBSET Events : Triggers(c, es, left)
           \/ \E c \in Contexts, e \in Events : Deletes(c, e)
<1> USE DEF BaseInv, table, contexts, callers, pollers, kernel
<1>1. ASSUME NEW d \in Fds, NEW e \in Events \cup {"HUP"}, BecomeReady(d, e)
      PROVE  Quiet
  BY <1>1 DEF BecomeReady, Quiet
<1>2. ASSUME NEW k \in Callers, NEW d \in Fds, NEW e \in Events,
             Consume(k, d, e)
      PROVE  Quiet
  BY <1>2 DEF Consume, Quiet
<1>3. ASSUME NEW p \in Pollers, EpollWait(p) \/ LeaveIdle(p) PROVE Quiet
  BY <1>3 DEF EpollWait, LeaveIdle, Quiet
<1>4. ASSUME Stop PROVE Quiet
  BY <1>4 DEF Stop, Quiet
<1>5. ASSUME NEW k \in Callers, NEW r \in Requests, AddEvent(k, r) PROVE Quiet
  BY <1>5 DEF AddEvent, Quiet, TypeOK
<1>6. ASSUME NEW k \in Callers, AddResize(k) PROVE Quiet
  BY <1>6 DEF AddResize, Quiet, TypeOK
<1>7. ASSUME NEW k \in Callers, AddBody(k)
      PROVE  Quiet \/ \E c \in Contexts, e \in Events : Registers(k, c, e)
  <2>1. /\ held[k] \in Contexts /\ held[k][1] = want[k].fd
        /\ want[k] \in Requests /\ want[k].event \in Events
        /\ <<want[k].fd, want[k].event>> \in Uses[k]
    BY <1>7 DEF AddBody, CallerInv, Requests
  <2>2. CASE proc' = "aborted" /\ UNCHANGED <<contexts, pc, kernel>>
    BY <1>7, <2>2 DEF AddBody, Quiet
  <2>3. CASE /\ pc' = [pc EXCEPT ![k] = "idle"]
             /\ UNCHANGED <<contexts, proc, kernel>>
    BY <1>7, <2>3 DEF AddBody, Quiet, TypeOK
  <2>4. CASE Registers(k, held[k], want[k].event)
    BY <2>1, <2>4
  <2> QED
    BY <1>7, <2>1, <2>2, <2>3, <2>4 DEF AddBody, Registers
<1>8. ASSUME NEW d \in Fds, NEW e \in Events, DelEvent(d, e)
      PROVE  \E c \in Contexts : Deletes(c, e)
  <2>1. /\ <<d, m_fdContexts[d]>> \in Contexts
        /\ e \in events[<<d, m_fdContexts[d]>>]
        /\ m_pendingEventCount' = Less(Cardinality({e})) /\ drift' = drift
    BY <1>8, UnregisterKeeps DEF DelEvent
  <2>2. Deletes(<<d, m_fdContexts[d]>>, e)
    BY <1>8, <2>1 DEF DelEvent, Unregister, Deletes
  <2> QED
    BY <2>1, <2>2
<1>9. ASSUME NEW d \in Fds, NEW es, Unregister(d, es), WakeCancelled(d, es),
             UNCHANGED <<table, want, held, pollers>>
      PROVE  \E c \in Contexts, fs, left \in SUBSET Events :
                 Triggers(c, fs, left)
  <2> DEFINE c == <<d, m_fdContexts[d]>>
  <2>1. /\ c \in Contexts /\ es \in SUBSET Events /\ es \subseteq events[c]
        /\ es # {} /\ events[c] \ es \in SUBSET Events
        /\ m_pendingEventCount' = Less(Cardinality(es))
        /\ drift' = (drift + Cardinality(es \ events[c])) % CountMod
    BY <1>9, UnregisterKeeps DEF TypeOK
  <2>2. TriggerEvents(c, es, events[c] \ es)
    BY <1>9 DEF WakeCancelled
  <2>3. Triggers(c, es, events[c] \ es)
    BY <1>9, <2>1, <2>2 DEF Triggers, Unregister
  <2> QED
    BY <2>1, <2>3
<1>10. ASSUME NEW p \in Pollers, NEW r \in results[p], ProcessEvent(p, r)
       PROVE  Quiet \/ \E c \in Contexts, es, left \in SUBSET Events :
                            Triggers(c, es, left)
  <2>1. /\ r.ctx \in Contexts /\ Occurred(r) \in SUBSET Events
        /\ events[r.ctx] \ Occurred(r) \in SUBSET Events
    BY DEF TypeOK, Occurred
  <2>2. CASE ~Concerns(r)
    BY <1>10, <2>2 DEF ProcessEvent, Quiet
  <2>3. CASE Concerns(r)
    <3>1. Triggers(r.ctx, Occurred(r), events[r.ctx] \ Occurred(r))
      BY <1>10, <2>3 DEF ProcessEvent, Concerns, Triggers
    <3> QED
      BY <2>1, <3>1
  <2> QED
    BY <2>2, <2>3
<1>11. CASE UNCHANGED vars
  BY <1>11 DEF vars, Quiet
<1> QED
  BY <1>1, <1>2, <1>3, <1>4, <1>5, <1>6, <1>7, <1>8, <1>9, <1>10, <1>11
  DEF Next, PollerStep, CancelEvent, CancelAll

(* The context's slots after a registration and after a deletion.          *)
LEMMA SlotChange ==
    ASSUME TypeOK, NEW c \in Contexts, NEW e \in Events, NEW s \in SlotType,
           slot' = [slot EXCEPT ![c][e] = s]
    PROVE  \A x \in Contexts, f \in Events :
               slot'[x][f] = IF x = c /\ f = e THEN s ELSE slot[x][f]
<1>1. slot \in [Contexts -> [Events -> SlotType]]
  BY DEF TypeOK, SlotType
<1> QED
  BY <1>1

-----------------------------------------------------------------------------
(* The slots of a context *)

(* An event is registered if and only if its slot has a scheduler, and     *)
(* then somebody is in the slot.                                           *)
SlotInv ==
    \A c \in Contexts, e \in Events :
        /\ e \in events[c] <=> slot[c][e].scheduler = TRUE
        /\ e \in events[c] => Handler(c, e).caller # None

(* Whom a slot names depends on the slot alone.                            *)
LEMMA SameSlotSameHandler ==
    ASSUME NEW c \in Contexts, NEW e \in Events
    PROVE  /\ slot'[c][e] = slot[c][e] => Handler(c, e)' = Handler(c, e)
           /\ (slot'[c][e].cb = slot[c][e].cb /\ slot'[c][e].fiber = slot[c][e].fiber) =>
                 Handler(c, e)' = Handler(c, e)
  BY DEF Handler

(* addEvent leaves the caller in the slot, and with callers of one kind    *)
(* the slot names it.                                                      *)
LEMMA RegisteredSlot ==
    ASSUME TypeOK, NEW k \in Callers, NEW c \in Contexts, NEW e \in Events,
           Registers(k, c, e)
    PROVE  /\ \A x \in Contexts, f \in Events : <<x, f>> # <<c, e>> =>
                 slot'[x][f] = slot[x][f]
           /\ slot'[c][e].scheduler = TRUE
           /\ Handler(c, e)'.caller # None
           /\ slot'[c][e].cb # None => want[k].kind = "cb" \/ slot[c][e].cb # None
           /\ want[k].kind = "cb" \/ slot[c][e].cb = None =>
                 Handler(c, e)' = [caller |-> k, request |-> want[k]]
<1> DEFINE s == Registered(slot[c][e], k, want[k].kind)
<1>1. k # None /\ k \in Handlers
  BY IOAssumption DEF IOAssumption, Handlers
<1>2. slot[c][e] \in SlotType
  BY DEF TypeOK, SlotType
<1>3. /\ s \in SlotType
      /\ s.scheduler = TRUE
      /\ s.cb = (IF want[k].kind = "cb" THEN k ELSE slot[c][e].cb)
      /\ s.fiber = (IF want[k].kind = "fiber" THEN k ELSE slot[c][e].fiber)
  BY <1>1, <1>2 DEF Registered, SlotType
<1>4. /\ want[k].kind \in {"fiber", "cb"}
      /\ want[k] = [fd |-> c[1], event |-> e, kind |-> want[k].kind]
  BY IOAssumption DEF IOAssumption, Registers, Requests
<1>5. slot' = [slot EXCEPT ![c][e] = s]
  BY DEF Registers
<1> HIDE DEF s
<1>6. \A x \in Contexts, f \in Events :
          slot'[x][f] = IF x = c /\ f = e THEN s ELSE slot[x][f]
  BY <1>3, <1>5, SlotChange
<1>7. slot'[c][e] = s
  BY <1>6
<1>8. Handler(c, e)'.caller = (IF s.cb # None THEN s.cb ELSE s.fiber)
  BY <1>7 DEF Handler
<1>9. ASSUME want[k].kind = "cb" \/ slot[c][e].cb = None
      PROVE  Handler(c, e)' = [caller |-> k, request |-> want[k]]
  <2>1. /\ (IF s.cb # None THEN s.cb ELSE s.fiber) = k
        /\ (IF s.cb # None THEN "cb" ELSE "fiber") = want[k].kind
    BY <1>1, <1>3, <1>4, <1>9
  <2> QED
    BY <1>4, <1>7, <2>1 DEF Handler
<1> QED
  BY <1>1, <1>3, <1>4, <1>6, <1>7, <1>8, <1>9

LEMMA SlotStep ==
    ASSUME BaseInv, SlotInv, [Next]_vars
    PROVE  SlotInv'
<1> USE DEF BaseInv
<1>1. CASE Quiet
  BY <1>1 DEF Quiet, SlotInv, Handler
<1>2. ASSUME NEW k \in Callers, NEW c \in Contexts, NEW e \in Events,
             Registers(k, c, e)
      PROVE  SlotInv'
  <2> SUFFICES ASSUME NEW x \in Contexts, NEW f \in Events
               PROVE  /\ f \in events'[x] <=> slot'[x][f].scheduler = TRUE
                      /\ f \in events'[x] => Handler(x, f)'.caller # None
    BY DEF SlotInv
  <2>1. events'[x] = IF x = c THEN events[x] \cup {e} ELSE events[x]
    BY <1>2 DEF Registers, TypeOK
  <2>2. CASE x = c /\ f = e
    BY <1>2, <2>1, <2>2, RegisteredSlot, ZenonT(60)
  <2>3. CASE ~(x = c /\ f = e)
    <3>1. slot'[x][f] = slot[x][f]
      BY <1>2, <2>3, RegisteredSlot, ZenonT(60)
    <3> QED
      BY <2>1, <2>3, <3>1, SameSlotSameHandler DEF SlotInv
  <2> QED
    BY <2>2, <2>3
<1>3. ASSUME NEW c \in Contexts, NEW es \in SUBSET Events,
             NEW left \in SUBSET Events, Triggers(c, es, left)
      PROVE  SlotInv'
  <2> SUFFICES ASSUME NEW x \in Contexts, NEW f \in Events
               PROVE  /\ f \in events'[x] <=> slot'[x][f].scheduler = TRUE
                      /\ f \in events'[x] => Handler(x, f)'.caller # None
    BY DEF SlotInv
  <2>1. left = events[c] \ es /\ TriggerEvents(c, es, left)
    BY <1>3 DEF Triggers
  <2>2. /\ events' = [events EXCEPT ![c] = left]
        /\ slot'[x][f] = IF x = c /\ f \in es
                         THEN Triggered(slot[x][f]) ELSE slot[x][f]
    <3>1. TriggerEvents(c, es, left)
      BY <2>1
    <3>2. events' = [events EXCEPT ![c] = left]
      BY <3>1, TriggerEffect, ZenonT(60)
    <3>3. \A y \in Contexts, e \in Events :
                 slot'[y][e] = IF y = c /\ e \in es
                               THEN Triggered(slot[y][e]) ELSE slot[y][e]
      BY <3>1, TriggerEffect
    <3> QED
      BY <3>2, <3>3
  <2>3. events'[x] = IF x = c THEN events[x] \ es ELSE events[x]
    BY <2>1, <2>2 DEF TypeOK
  <2>4. CASE x = c /\ f \in es
    <3>1. slot'[x][f].scheduler = FALSE
      BY <2>2, <2>4, HandlerFields DEF Triggered, SlotType
    <3> QED
      BY <2>3, <2>4, <3>1
  <2>5. CASE ~(x = c /\ f \in es)
    BY <2>2, <2>3, <2>5, SameSlotSameHandler DEF SlotInv
  <2> QED
    BY <2>4, <2>5
<1>4. ASSUME NEW c \in Contexts, NEW e \in Events, Deletes(c, e)
      PROVE  SlotInv'
  <2> SUFFICES ASSUME NEW x \in Contexts, NEW f \in Events
               PROVE  /\ f \in events'[x] <=> slot'[x][f].scheduler = TRUE
                      /\ f \in events'[x] => Handler(x, f)'.caller # None
    BY DEF SlotInv
  <2>1. NoSlot \in SlotType /\ NoSlot.scheduler = FALSE
    BY DEF NoSlot, SlotType, Handlers
  <2>2. slot'[x][f] = IF x = c /\ f = e THEN NoSlot ELSE slot[x][f]
    <3>1. slot' = [slot EXCEPT ![c][e] = NoSlot]
      BY <1>4 DEF Deletes
    <3>2. slot \in [Contexts -> [Events -> SlotType]]
      BY DEF TypeOK, SlotType
    <3> QED
      BY <3>1, <3>2
  <2>3. events'[x] = IF x = c THEN events[x] \ {e} ELSE events[x]
    BY <1>4 DEF Deletes, TypeOK
  <2>4. CASE x = c /\ f = e
    BY <2>1, <2>2, <2>3, <2>4
  <2>5. CASE ~(x = c /\ f = e)
    BY <2>2, <2>3, <2>5, SameSlotSameHandler DEF SlotInv
  <2> QED
    BY <2>4, <2>5
<1> QED
  BY <1>1, <1>2, <1>3, <1>4, Steps

LEMMA SlotAlways == Spec => [](BaseInv /\ SlotInv)
<1>1. Init => SlotInv
  BY DEF Init, SlotInv, NoSlot
<1>2. BaseInv /\ SlotInv /\ [Next]_vars => SlotInv'
  BY SlotStep
<1> QED
  BY <1>1, <1>2, BaseAlways, PTL DEF Spec

(* The effect of triggering on one slot and on one caller.                 *)
LEMMA TriggersOne ==
    ASSUME TypeOK, NEW c \in Contexts, NEW es \in SUBSET Events,
           NEW left \in SUBSET Events, Triggers(c, es, left)
    PROVE  /\ \A x \in Contexts :
                 events'[x] = IF x = c THEN events[x] \ es ELSE events[x]
           /\ \A x \in Contexts, f \in Events : Handler(x, f)' = Handler(x, f)
           /\ \A x \in Contexts, f \in Events :
                 slot'[x][f].cb = slot[x][f].cb
           /\ \A k \in Callers :
                 pc'[k] = IF \E e \in es : Wakes(c, e, k)
                          THEN "idle" ELSE pc[k]
<1>1. left = events[c] \ es /\ TriggerEvents(c, es, left)
  BY DEF Triggers
<1>2. TriggerEvents(c, es, left)
  BY <1>1
<1>3. events' = [events EXCEPT ![c] = left]
  BY <1>2, TriggerEffect
<1>4. \A y \in Contexts, e \in Events :
          slot'[y][e] = IF y = c /\ e \in es
                        THEN Triggered(slot[y][e]) ELSE slot[y][e]
  BY <1>2, TriggerEffect, ZenonT(60)
<1>5. pc' = [k \in Callers |-> IF \E e \in es : Wakes(c, e, k)
                               THEN "idle" ELSE pc[k]]
  BY <1>2, TriggerEffect
<1>6. ASSUME NEW x \in Contexts, NEW f \in Events
      PROVE  slot'[x][f].cb = slot[x][f].cb /\ slot'[x][f].fiber = slot[x][f].fiber
  <2>1. slot[x][f] \in SlotType
    BY HandlerFields
  <2>2. /\ Triggered(slot[x][f]).cb = slot[x][f].cb
        /\ Triggered(slot[x][f]).fiber = slot[x][f].fiber
    BY <2>1 DEF Triggered, SlotType
  <2>3. slot'[x][f] \in {slot[x][f], Triggered(slot[x][f])}
    BY <1>4
  <2> QED
    BY <2>2, <2>3
<1>7. \A x \in Contexts, f \in Events : Handler(x, f)' = Handler(x, f)
  BY <1>6, SameSlotSameHandler
<1>8. \A x \in Contexts :
          events'[x] = IF x = c THEN events[x] \ es ELSE events[x]
  BY <1>1, <1>3 DEF TypeOK
<1> QED
  BY <1>5, <1>6, <1>7, <1>8

(* The effect of a deletion.                                               *)
LEMMA DeletesOne ==
    ASSUME TypeOK, NEW c \in Contexts, NEW e \in Events, Deletes(c, e)
    PROVE  /\ \A x \in Contexts :
                 events'[x] = IF x = c THEN events[x] \ {e} ELSE events[x]
           /\ \A x \in Contexts, f \in Events : <<x, f>> # <<c, e>> =>
                 slot'[x][f] = slot[x][f] /\ Handler(x, f)' = Handler(x, f)
           /\ slot'[c][e].cb = None
           /\ \A k \in Callers :
                 pc'[k] = IF Wakes(c, e, k) THEN "dropped" ELSE pc[k]
<1>1. slot' = [slot EXCEPT ![c][e] = NoSlot]
  BY DEF Deletes
<1>2. slot \in [Contexts -> [Events -> SlotType]]
  BY DEF TypeOK, SlotType
<1>3. \A x \in Contexts, f \in Events :
          slot'[x][f] = IF x = c /\ f = e THEN NoSlot ELSE slot[x][f]
  BY <1>1, <1>2
<1>4. \A x \in Contexts, f \in Events : <<x, f>> # <<c, e>> =>
          slot'[x][f] = slot[x][f]
  BY <1>3
<1>5. \A x \in Contexts, f \in Events : <<x, f>> # <<c, e>> =>
          Handler(x, f)' = Handler(x, f)
  BY <1>4, SameSlotSameHandler
<1>6. slot'[c][e].cb = None
  BY <1>3 DEF NoSlot
<1>7. \A x \in Contexts :
          events'[x] = IF x = c THEN events[x] \ {e} ELSE events[x]
  BY DEF Deletes, TypeOK
<1>8. \A k \in Callers : pc'[k] = IF Wakes(c, e, k) THEN "dropped" ELSE pc[k]
  BY DEF Deletes, Wakes
<1> QED
  BY <1>4, <1>5, <1>6, <1>7, <1>8

-----------------------------------------------------------------------------
(* Wake-ups, with callers of one kind *)

(* Only callback users leave a callback in a slot.                         *)
KindInv == \A c \in Contexts, e \in Events : slot[c][e].cb # None => "cb" \in Kinds

(* Caller k waits, and triggering event e of context c is its wake-up.     *)
WaitsAt(k, c, e) ==
    /\ pc[k] = "waiting"
    /\ Handler(c, e) = [caller |-> k, request |-> want[k]]

(* Whoever is registered waits for it.                                     *)
WaitInv ==
    \A c \in Contexts, e \in Events : e \in events[c] =>
        \E k \in Callers : WaitsAt(k, c, e)

(* Nobody is registered twice.                                             *)
UniqueInv ==
    \A k \in Callers, c, x \in Contexts, e, f \in Events :
        /\ e \in events[c] /\ WaitsAt(k, c, e)
        /\ f \in events[x] /\ WaitsAt(k, x, f)
        => c = x /\ e = f

(* Everybody who waits is registered.                                      *)
FoundInv ==
    \A k \in Callers : pc[k] = "waiting" =>
        \E c \in Contexts, e \in Events : e \in events[c] /\ WaitsAt(k, c, e)

(* After a crash nothing happens any more, so that who is still registered *)
(* then does not matter.                                                   *)
WakeInv ==
    /\ KindInv
    /\ FoundInv
    /\ stray = {}
    /\ proc = "up" => WaitInv /\ UniqueInv

LEMMA WaitsIsWakes ==
    ASSUME NEW k \in Callers, NEW c \in Contexts, NEW e \in Events
    PROVE  Wakes(c, e, k) <=> WaitsAt(k, c, e)
<1>1. Handler(c, e) = [caller |-> Handler(c, e).caller,
                       request |-> Handler(c, e).request]
  BY DEF Handler
<1> QED
  BY <1>1 DEF Wakes, WaitsAt, Awaited

LEMMA WakeInit == Init => WakeInv
  BY DEF Init, WakeInv, KindInv, FoundInv, WaitInv, UniqueInv, NoSlot

LEMMA WakeQuiet ==
    ASSUME BaseInv, WakeInv, Quiet
    PROVE  WakeInv'
<1> USE DEF WakeInv
<1>1. \A c \in Contexts, e \in Events : Handler(c, e)' = Handler(c, e)
  BY SameSlotSameHandler DEF Quiet
<1>2. \A k \in Callers, c \in Contexts, e \in Events :
          WaitsAt(k, c, e)' <=> WaitsAt(k, c, e)
  BY <1>1 DEF Quiet, WaitsAt
<1>3. KindInv' /\ stray' = {}
  BY DEF Quiet, KindInv
<1>4. FoundInv'
  BY <1>2 DEF Quiet, FoundInv
<1>5. proc' = "up" => proc = "up"
  BY DEF Quiet, BaseInv, TypeOK
<1>6. WaitInv => WaitInv'
  BY <1>2 DEF Quiet, WaitInv
<1>7. UniqueInv => UniqueInv'
  BY <1>2 DEF Quiet, UniqueInv
<1> QED
  BY <1>3, <1>4, <1>5, <1>6, <1>7

LEMMA WakeRegisters ==
    ASSUME SingleKind, BaseInv, WakeInv,
           NEW k \in Callers, NEW c \in Contexts, NEW e \in Events,
           Registers(k, c, e)
    PROVE  WakeInv'
<1> USE DEF BaseInv, WakeInv
<1>1. \A x \in Contexts, f \in Events : <<x, f>> # <<c, e>> =>
          slot'[x][f] = slot[x][f]
  BY RegisteredSlot
<1>2. \A x \in Contexts, f \in Events : <<x, f>> # <<c, e>> =>
          Handler(x, f)' = Handler(x, f)
  BY <1>1, SameSlotSameHandler
<1>3. want[k].kind \in Kinds /\ Kinds \subseteq {"fiber", "cb"}
  BY IOAssumption DEF IOAssumption, Registers, Requests
<1>4. slot'[c][e].cb # None => want[k].kind = "cb" \/ slot[c][e].cb # None
  BY RegisteredSlot
<1>5. KindInv'
  BY <1>1, <1>3, <1>4 DEF KindInv
<1>6. Handler(c, e)' = [caller |-> k, request |-> want[k]]
  <2>1. want[k].kind = "cb" \/ slot[c][e].cb = None
    BY <1>3 DEF KindInv, SingleKind
  <2> QED
    BY <2>1, RegisteredSlot
<1>7. /\ pc' = [pc EXCEPT ![k] = "waiting"]
      /\ pc[k] = "body" /\ proc = "up" /\ WaitInv /\ UniqueInv
      /\ want' = want /\ stray' = stray
      /\ \A x \in Contexts :
             events'[x] = IF x = c THEN events[x] \cup {e} ELSE events[x]
  BY DEF Registers, TypeOK
<1>8. WaitsAt(k, c, e)'
  BY <1>6, <1>7 DEF WaitsAt, TypeOK
<1>9. \A l \in Callers, x \in Contexts, f \in Events :
          <<x, f>> # <<c, e>> /\ l # k => (WaitsAt(l, x, f)' <=> WaitsAt(l, x, f))
  BY <1>2, <1>7 DEF WaitsAt, TypeOK
<1>10. \A x \in Contexts, f \in Events : ~WaitsAt(k, x, f)
  BY <1>7 DEF WaitsAt
<1>11. e \notin events[c]
  BY DEF Registers
<1>12. FoundInv'
  <2> SUFFICES ASSUME NEW l \in Callers, pc'[l] = "waiting"
               PROVE  \E x \in Contexts, f \in Events :
                          f \in events'[x] /\ WaitsAt(l, x, f)'
    BY DEF FoundInv
  <2>1. CASE l = k
    BY <1>7, <1>8, <2>1
  <2>2. CASE l # k
    <3>1. pc[l] = "waiting"
      BY <1>7, <2>2 DEF TypeOK
    <3>2. PICK x \in Contexts, f \in Events : f \in events[x] /\ WaitsAt(l, x, f)
      BY <3>1 DEF FoundInv
    <3>3. <<x, f>> # <<c, e>>
      BY <1>11, <3>2
    <3> QED
      BY <1>7, <1>9, <2>2, <3>2, <3>3
  <2> QED
    BY <2>1, <2>2
<1>13. WaitInv'
  <2> SUFFICES ASSUME NEW x \in Contexts, NEW f \in Events, f \in events'[x]
               PROVE  \E l \in Callers : WaitsAt(l, x, f)'
    BY DEF WaitInv
  <2>1. CASE <<x, f>> = <<c, e>>
    BY <1>8, <2>1
  <2>2. CASE <<x, f>> # <<c, e>>
    <3>1. f \in events[x]
      BY <1>7, <2>2
    <3>2. PICK l \in Callers : WaitsAt(l, x, f)
      BY <1>7, <3>1 DEF WaitInv
    <3> QED
      BY <1>9, <1>10, <2>2, <3>2
  <2> QED
    BY <2>1, <2>2
<1>14. ASSUME NEW l \in Callers, NEW x \in Contexts, NEW f \in Events,
              f \in events'[x], WaitsAt(l, x, f)'
       PROVE  \/ x = c /\ f = e /\ l = k
              \/ l # k /\ f \in events[x] /\ WaitsAt(l, x, f)
  <2>1. CASE <<x, f>> = <<c, e>>
    BY <1>6, <1>14, <2>1 DEF WaitsAt
  <2>2. CASE <<x, f>> # <<c, e>>
    <3>1. f \in events[x]
      BY <1>7, <1>14, <2>2
    <3>2. PICK m \in Callers : WaitsAt(m, x, f)
      BY <1>7, <3>1 DEF WaitInv
    <3>3. m = l
      BY <1>2, <1>14, <2>2, <3>2 DEF WaitsAt
    <3> QED
      BY <1>10, <3>1, <3>2, <3>3
  <2> QED
    BY <2>1, <2>2
<1>15. UniqueInv'
  <2> SUFFICES ASSUME NEW l \in Callers, NEW x \in Contexts, NEW y \in Contexts,
                      NEW f \in Events, NEW g \in Events,
                      f \in events'[x], WaitsAt(l, x, f)',
                      g \in events'[y], WaitsAt(l, y, g)'
               PROVE  x = y /\ f = g
    BY DEF UniqueInv
  <2> QED
    BY <1>7, <1>14 DEF UniqueInv
<1> QED
  BY <1>5, <1>7, <1>12, <1>13, <1>15

LEMMA WakeTriggers ==
    ASSUME BaseInv, SlotInv, WakeInv,
           NEW c \in Contexts, NEW es \in SUBSET Events,
           NEW left \in SUBSET Events, Triggers(c, es, left)
    PROVE  WakeInv'
<1> USE DEF BaseInv, WakeInv
<1>1. proc = "up" /\ WaitInv /\ UniqueInv /\ want' = want
  BY DEF Triggers
<1>2. \A x \in Contexts :
          events'[x] = IF x = c THEN events[x] \ es ELSE events[x]
  BY TriggersOne
<1>3. \A x \in Contexts, f \in Events : Handler(x, f)' = Handler(x, f)
  BY TriggersOne
<1>4. \A x \in Contexts, f \in Events : slot'[x][f].cb = slot[x][f].cb
  BY TriggersOne
<1>5. \A k \in Callers :
          pc'[k] = IF \E e \in es : WaitsAt(k, c, e) THEN "idle" ELSE pc[k]
  <2>1. \A k \in Callers : pc'[k] = IF \E e \in es : Wakes(c, e, k)
                                    THEN "idle" ELSE pc[k]
    BY TriggersOne
  <2>2. \A k \in Callers, e \in es : Wakes(c, e, k) <=> WaitsAt(k, c, e)
    BY WaitsIsWakes
  <2> QED
    BY <2>1, <2>2
<1>6. \A l \in Callers, x \in Contexts, f \in Events :
          /\ WaitsAt(l, x, f)' => WaitsAt(l, x, f)
          /\ WaitsAt(l, x, f) /\ pc'[l] = "waiting" => WaitsAt(l, x, f)'
  BY <1>1, <1>3, <1>5 DEF WaitsAt
<1>7. KindInv'
  BY <1>4 DEF KindInv
<1>8. FoundInv'
  <2> SUFFICES ASSUME NEW l \in Callers, pc'[l] = "waiting"
               PROVE  \E x \in Contexts, f \in Events :
                          f \in events'[x] /\ WaitsAt(l, x, f)'
    BY DEF FoundInv
  <2>1. pc[l] = "waiting" /\ ~\E e \in es : WaitsAt(l, c, e)
    BY <1>5
  <2>2. PICK x \in Contexts, f \in Events : f \in events[x] /\ WaitsAt(l, x, f)
    BY <2>1 DEF FoundInv
  <2> QED
    BY <1>2, <1>6, <2>1, <2>2
<1>9. stray' = {}
  <2>1. TriggerEvents(c, es, left)
    BY DEF Triggers
  <2>2. \A k \in stray' \ stray : \E e \in es :
            slot[c][e].scheduler /\ ~Awaited(Handler(c, e))
    BY <2>1, TriggerEffect
  <2>3. ASSUME NEW e \in es, slot[c][e].scheduler PROVE Awaited(Handler(c, e))
    <3>1. slot[c][e].scheduler = TRUE
      BY <2>3, HandlerFields DEF SlotType
    <3>2. e \in events[c]
      BY <3>1 DEF SlotInv
    <3>3. PICK k \in Callers : WaitsAt(k, c, e)
      BY <1>1, <3>2 DEF WaitInv
    <3> QED
      BY <3>3, WaitsIsWakes DEF Wakes
  <2> QED
    BY <2>2, <2>3
<1>10. ASSUME proc' = "up" PROVE WaitInv'
  <2> SUFFICES ASSUME NEW x \in Contexts, NEW f \in Events, f \in events'[x]
               PROVE  \E l \in Callers : WaitsAt(l, x, f)'
    BY DEF WaitInv
  <2>1. f \in events[x] /\ ~(x = c /\ f \in es)
    BY <1>2
  <2>2. PICK l \in Callers : WaitsAt(l, x, f)
    BY <1>1, <2>1 DEF WaitInv
  <2>3. ASSUME NEW g \in es, WaitsAt(l, c, g) PROVE FALSE
    <3>1. CASE g \in events[c]
      BY <1>1, <2>1, <2>2, <2>3, <3>1 DEF UniqueInv
    <3>2. CASE g \notin events[c]
      <4>1. slot[c][g].scheduler = FALSE
        BY <3>2, HandlerFields DEF SlotInv, SlotType
      <4>2. Handler(c, g).caller # None
        BY <2>3, IOAssumption DEF IOAssumption, WaitsAt
      <4>3. NullSchedule(c, g)
        BY <4>1, <4>2 DEF NullSchedule
      <4>4. TriggerEvents(c, es, left)
        BY DEF Triggers
      <4>5. proc' = IF \E e \in es : NullSchedule(c, e)
                    THEN "crashed" ELSE proc
        BY <4>4, TriggerEffect
      <4> QED
        BY <1>10, <4>3, <4>5
    <3> QED
      BY <3>1, <3>2
  <2>4. pc'[l] = "waiting"
    BY <1>5, <2>2, <2>3 DEF WaitsAt
  <2> QED
    BY <1>6, <2>2, <2>4
<1>11. UniqueInv'
  <2> SUFFICES ASSUME NEW l \in Callers, NEW x \in Contexts, NEW y \in Contexts,
                      NEW f \in Events, NEW g \in Events,
                      f \in events'[x], WaitsAt(l, x, f)',
                      g \in events'[y], WaitsAt(l, y, g)'
               PROVE  x = y /\ f = g
    BY DEF UniqueInv
  <2>1. f \in events[x] /\ g \in events[y]
    BY <1>2
  <2> QED
    BY <1>1, <1>6, <2>1 DEF UniqueInv
<1> QED
  BY <1>7, <1>8, <1>9, <1>10, <1>11

LEMMA WakeDeletes ==
    ASSUME BaseInv, WakeInv, NEW c \in Contexts, NEW e \in Events, Deletes(c, e)
    PROVE  WakeInv'
<1> USE DEF BaseInv, WakeInv
<1>1. /\ proc = "up" /\ WaitInv /\ UniqueInv
      /\ want' = want /\ stray' = {} /\ e \in events[c]
  BY DEF Deletes
<1>2. \A x \in Contexts :
          events'[x] = IF x = c THEN events[x] \ {e} ELSE events[x]
  BY DeletesOne
<1>3. \A x \in Contexts, f \in Events : <<x, f>> # <<c, e>> =>
          slot'[x][f] = slot[x][f] /\ Handler(x, f)' = Handler(x, f)
  BY DeletesOne
<1>4. KindInv'
  BY <1>3, DeletesOne DEF KindInv
<1>5. \A k \in Callers : pc'[k] = IF WaitsAt(k, c, e) THEN "dropped" ELSE pc[k]
  <2>1. \A k \in Callers : pc'[k] = IF Wakes(c, e, k) THEN "dropped" ELSE pc[k]
    BY DeletesOne
  <2> QED
    BY <2>1, WaitsIsWakes
<1>6. \A l \in Callers, x \in Contexts, f \in Events : <<x, f>> # <<c, e>> =>
          /\ WaitsAt(l, x, f)' => WaitsAt(l, x, f)
          /\ WaitsAt(l, x, f) /\ ~WaitsAt(l, c, e) => WaitsAt(l, x, f)'
  BY <1>1, <1>3, <1>5 DEF WaitsAt
<1>7. \A x \in Contexts, f \in Events :
          f \in events'[x] <=> f \in events[x] /\ <<x, f>> # <<c, e>>
  BY <1>2
<1>8. FoundInv'
  <2> SUFFICES ASSUME NEW l \in Callers, pc'[l] = "waiting"
               PROVE  \E x \in Contexts, f \in Events :
                          f \in events'[x] /\ WaitsAt(l, x, f)'
    BY DEF FoundInv
  <2>1. pc[l] = "waiting" /\ ~WaitsAt(l, c, e)
    BY <1>5
  <2>2. PICK x \in Contexts, f \in Events : f \in events[x] /\ WaitsAt(l, x, f)
    BY <2>1 DEF FoundInv
  <2>3. <<x, f>> # <<c, e>>
    BY <2>1, <2>2
  <2> QED
    BY <1>6, <1>7, <2>1, <2>2, <2>3
<1>9. WaitInv'
  <2> SUFFICES ASSUME NEW x \in Contexts, NEW f \in Events, f \in events'[x]
               PROVE  \E l \in Callers : WaitsAt(l, x, f)'
    BY DEF WaitInv
  <2>1. f \in events[x] /\ <<x, f>> # <<c, e>>
    BY <1>7
  <2>2. PICK l \in Callers : WaitsAt(l, x, f)
    BY <1>1, <2>1 DEF WaitInv
  <2>3. ~WaitsAt(l, c, e)
    BY <1>1, <2>1, <2>2 DEF UniqueInv
  <2> QED
    BY <1>6, <2>1, <2>2, <2>3
<1>10. UniqueInv'
  BY <1>1, <1>6, <1>7 DEF UniqueInv
<1> QED
  BY <1>1, <1>4, <1>8, <1>9, <1>10

LEMMA WakeAlways ==
    ASSUME SingleKind
    PROVE  Spec => [](BaseInv /\ SlotInv /\ WakeInv)
<1>1. BaseInv /\ SlotInv /\ WakeInv /\ [Next]_vars => WakeInv'
  BY Steps, WakeQuiet, WakeRegisters, WakeTriggers, WakeDeletes
<1> QED
  BY <1>1, WakeInit, SlotAlways, PTL DEF Spec

(* A caller that waits is registered, and triggering what it waits for     *)
(* schedules it: with any number of callers, pollers and descriptors, with *)
(* hang-ups, cancellations and a table that shrinks, if all callers        *)
(* register as fibers or all register callbacks.                           *)
THEOREM WaiterRegistered ==
    ASSUME SingleKind
    PROVE  Spec => []NotStranded
<1>1. ASSUME BaseInv, SlotInv, WakeInv PROVE NotStranded
  <2> SUFFICES ASSUME NEW k \in Callers, pc[k] = "waiting"
               PROVE  \E c \in Contexts :
                         /\ c[1] = want[k].fd
                         /\ want[k].event \in events[c]
                         /\ Handler(c, want[k].event) =
                               [caller |-> k, request |-> want[k]]
                         /\ slot[c][want[k].event].scheduler
    BY DEF NotStranded
  <2>1. PICK c \in Contexts, e \in Events : e \in events[c] /\ WaitsAt(k, c, e)
    BY <1>1 DEF WakeInv, FoundInv
  <2>2. want[k] = Handler(c, e).request
    BY <2>1 DEF WaitsAt
  <2>3. want[k].event = e /\ want[k].fd = c[1]
    BY <1>1, <2>2, HandlerFields DEF BaseInv
  <2>4. slot[c][e].scheduler
    BY <1>1, <2>1 DEF SlotInv
  <2> QED
    BY <2>1, <2>3, <2>4 DEF WaitsAt
<1> QED
  BY <1>1, WakeAlways, PTL

(* One registration, one wake-up: nobody is scheduled for an event it does *)
(* not wait for, under the same condition, even by pollers that use old    *)
(* results.                                                                *)
THEOREM WakesOnlyWaiters ==
    ASSUME SingleKind
    PROVE  Spec => []NoStrayWake
<1>1. WakeInv => NoStrayWake
  BY DEF WakeInv, NoStrayWake
<1> QED
  BY <1>1, WakeAlways, PTL
=============================================================================
