----------------------------- MODULE HookProofs -----------------------------
(***************************************************************************)
(* Proofs about the hooked calls and TcpServer, for any number of fibers   *)
(* and descriptors, on one worker or many.                                 *)
(***************************************************************************)
EXTENDS TcpServer, TLAPS

-----------------------------------------------------------------------------
(* What holds whatever the user does *)

(* Where a fiber is tells which kind of call it is in.                     *)
CallInv ==
    \A f \in Fibers :
        /\ pc[f] \in {"idle", "asleep", "sleeping"} => call[f] = NoCall
        /\ pc[f] = "made" => call[f].op = "socket" /\ call[f].fd \in Fds
        /\ pc[f] \in {"try", "armed", "waiting", "woken"} =>
               call[f].op \in Ops /\ call[f].fd \in Fds
        /\ pc[f] = "blocked" =>
               \/ call[f] = NoCall
               \/ call[f].op \in Ops /\ call[f].fd \in Fds
        /\ pc[f] \in {"closing", "deleted", "stopping"} =>
               call[f].op = "close" /\ call[f].fd \in Fds

(* Who waits is registered where it waits, and who is registered waits.    *)
WaitInv ==
    /\ \A f \in Fibers : pc[f] = "waiting" =>
           waiter[call[f].fd][EventOf(call[f].op)] = f
    /\ \A d \in Fds, e \in Events : waiter[d][e] # None =>
           /\ pc[waiter[d][e]] = "waiting"
           /\ call[waiter[d][e]].fd = d
           /\ EventOf(call[waiter[d][e]].op) = e

(* The task of stop() only ever closes.                                    *)
StopperInv ==
    /\ pc[Stopper] \in {"idle", "stopping", "closing", "deleted"}
    /\ stopping = "cancelled" =>
           pc[Stopper] = "stopping" /\ call[Stopper].fd = Listen

BaseInv == TypeOK /\ CallInv /\ WaitInv /\ StopperInv

-----------------------------------------------------------------------------
(* What holds for a disciplined user *)

(* Two fibers that use the same descriptor use it in different directions, *)
(* and the only one that may close it under the other does so on the same  *)
(* worker, when the other has been woken and has not run yet.              *)
Compatible(f, g) ==
    /\ call[f].op # "socket"
    /\ call[f].op = "close" => workers = "one" /\ pc[g] = "woken"
    /\ call[f].op \in Ops /\ call[g].op \in Ops =>
           EventOf(call[f].op) # EventOf(call[g].op)

UseInv ==
    \A f, g \in Fibers :
        f # g /\ call[f].fd = call[g].fd /\ call[f].fd # None =>
            Compatible(f, g)

(* epoll watches what is waited for, on open descriptors.                  *)
PollInv ==
    \A d \in Fds : /\ polled[d] = Awaited(d)
                   /\ Awaited(d) # {} => desc[d].open

(* A context is made once per use of a number, and deleted before the      *)
(* number is free again.                                                   *)
ContextInv ==
    /\ \A d \in Fds :
           /\ desc[d].open => desc[d].gen # 0
           /\ ~desc[d].open => m_data[d] = NoCtx
           /\ ~InFlux(d) => m_data[d].gen = desc[d].gen
    /\ \A f \in Fibers :
           /\ pc[f] \in {"made", "closing", "deleted", "stopping"} =>
                  desc[call[f].fd].open
           /\ pc[f] \in {"made", "deleted"} => m_data[call[f].fd] = NoCtx

(* A fiber that has tried and is about to register still has its           *)
(* descriptor, so that epoll_ctl works.                                    *)
ArmedInv == \A f \in Fibers : pc[f] = "armed" => desc[call[f].fd].open

DisciplineInv == UseInv /\ PollInv /\ ContextInv /\ ArmedInv /\ proc # "aborted"

(* The kernel's flag is set on every descriptor that is ready for use.     *)
FlagInv == NeverBlocks /\ \A d \in Fds : ~InFlux(d) => desc[d].nonblock

-----------------------------------------------------------------------------
(* Types *)

Places == {"idle", "made", "try", "armed", "waiting", "woken", "blocked",
           "closing", "deleted", "stopping", "asleep", "sleeping"}
CallType == [op : Ops \cup {"socket", "close", "none"},
             fd : Fds \cup {None}, timed : BOOLEAN]
CtxType == [gen : 0 .. MaxGen, userNonblock : BOOLEAN,
            recvTimeout : BOOLEAN, sendTimeout : BOOLEAN]
TimerType == [fiber : Fibers, fd : Fds, event : Events,
              state : {"armed", "due"}, live : BOOLEAN]
DescType == [open : BOOLEAN, gen : 0 .. MaxGen, nonblock : BOOLEAN]

LEMMA Types ==
    HookTypeOK <=>
        /\ workers \in {"one", "many"}
        /\ proc \in {"up", "aborted", "crashed"}
        /\ pc \in [Fibers -> Places]
        /\ call \in [Fibers -> CallType]
        /\ cancelled \in [Fibers -> BOOLEAN]
        /\ m_data \in [Fds -> CtxType]
        /\ waiter \in [Fds -> [Events -> Fibers \cup {None}]]
        /\ timers \subseteq TimerType
        /\ desc \in [Fds -> DescType]
        /\ ready \in [Fds -> SUBSET Events]
        /\ polled \in [Fds -> SUBSET Events]
  BY DEF HookTypeOK, Places, CallType, CtxType, TimerType, DescType

LEMMA Literals ==
    /\ NoCall \in CallType /\ NoCall.fd = None /\ NoCall.op = "none"
    /\ NoCtx \in CtxType /\ NoCtx.gen = 0
    /\ \A op \in Ops : EventOf(op) \in Events /\ op # "socket" /\ op # "close"
                       /\ op # "none"
<1>1. 0 \in 0 .. MaxGen
  BY HookAssumption DEF HookAssumption
<1> QED
  BY <1>1
  DEF NoCall, NoCtx, CallType, CtxType, EventOf, Ops, Events

LEMMA TimerTypes ==
    ASSUME HookTypeOK, NEW f \in Fibers
    PROVE  /\ Disarmed(f) \subseteq TimerType
           /\ \A ts \in SUBSET TimerType : Expired(f, ts) \subseteq TimerType
<1>1. timers \subseteq TimerType
  BY Types
<1>2. Disarmed(f) \subseteq TimerType
  BY <1>1 DEF Disarmed
<1>3. \A t \in TimerType : [t EXCEPT !.live = FALSE] \in TimerType
  BY DEF TimerType
<1> QED
  BY <1>2, <1>3 DEF Expired

(* A call returns.                                                         *)
LEMMA ReturnTypes ==
    ASSUME HookTypeOK, NEW f \in Fibers, NEW ts \in SUBSET TimerType,
           Return(f, ts)
    PROVE  /\ pc' \in [Fibers -> Places]
           /\ call' \in [Fibers -> CallType]
           /\ cancelled' \in [Fibers -> BOOLEAN]
           /\ timers' \subseteq TimerType
<1>1. timers' \subseteq TimerType
  BY TimerTypes DEF Return
<1>2. /\ pc \in [Fibers -> Places] /\ call \in [Fibers -> CallType]
      /\ cancelled \in [Fibers -> BOOLEAN]
  BY Types
<1>3. "idle" \in Places
  BY DEF Places
<1> QED
  BY <1>1, <1>2, <1>3, Literals DEF Return

(* Events are triggered.                                                   *)
LEMMA TriggerTypes ==
    ASSUME HookTypeOK, NEW d \in Fds, NEW es \in SUBSET Events, Trigger(d, es)
    PROVE  /\ waiter' \in [Fds -> [Events -> Fibers \cup {None}]]
           /\ polled' \in [Fds -> SUBSET Events]
           /\ Woken(d, es) \in [Fibers -> Places]
<1>1. /\ waiter \in [Fds -> [Events -> Fibers \cup {None}]]
      /\ polled \in [Fds -> SUBSET Events]
      /\ pc \in [Fibers -> Places]
  BY Types
<1>2. "woken" \in Places
  BY DEF Places
<1>3. Awaited(d) \ es \in SUBSET Events
  BY DEF Awaited
<1> QED
  BY <1>1, <1>2, <1>3 DEF Trigger, Woken

LEMMA OpenedType ==
    ASSUME HookTypeOK, NEW d \in Fds, MayMake(d)
    PROVE  Opened(d) \in [Fds -> DescType]
<1>1. desc \in [Fds -> DescType] /\ MaxGen \in Nat
  BY Types, HookAssumption DEF HookAssumption
<1>2. desc[d].gen + 1 \in 0 .. MaxGen
  BY <1>1 DEF MayMake, DescType
<1>3. [open |-> TRUE, gen |-> desc[d].gen + 1, nonblock |-> FALSE] \in DescType
  BY <1>2 DEF DescType
<1> QED
  BY <1>1, <1>3 DEF Opened

LEMMA TypesAfter ==
    ASSUME workers' \in {"one", "many"},
           proc' \in {"up", "aborted", "crashed"},
           pc' \in [Fibers -> Places],
           call' \in [Fibers -> CallType],
           cancelled' \in [Fibers -> BOOLEAN],
           m_data' \in [Fds -> CtxType],
           waiter' \in [Fds -> [Events -> Fibers \cup {None}]],
           timers' \subseteq TimerType,
           desc' \in [Fds -> DescType],
           ready' \in [Fds -> SUBSET Events],
           polled' \in [Fds -> SUBSET Events]
    PROVE  HookTypeOK'
  BY DEF HookTypeOK, Places, CallType, CtxType, TimerType, DescType

(* A call on a descriptor.                                                 *)
LEMMA CallTypes ==
    ASSUME NEW op \in Ops \cup {"socket", "close"}, NEW d \in Fds,
           NEW b \in BOOLEAN
    PROVE  /\ [op |-> op, fd |-> d, timed |-> b] \in CallType
           /\ [op |-> op, fd |-> d, timed |-> b].op = op
           /\ [op |-> op, fd |-> d, timed |-> b].fd = d
  BY DEF CallType

LEMMA CancelTypes ==
    ASSUME HookTypeOK, NEW f \in Fibers, NEW d \in Fds, NEW next \in Places,
           Cancel(f, d, next)
    PROVE  HookTypeOK'
<1>1. CancelAll(d) \in SUBSET Events
  BY DEF CancelAll, Awaited
<1>2. Trigger(d, CancelAll(d))
  BY DEF Cancel
<1>3. /\ waiter' \in [Fds -> [Events -> Fibers \cup {None}]]
      /\ polled' \in [Fds -> SUBSET Events]
      /\ Woken(d, CancelAll(d)) \in [Fibers -> Places]
  BY <1>1, <1>2, TriggerTypes
<1>4. pc' \in [Fibers -> Places]
  BY <1>3 DEF Cancel
<1>5. [op |-> "close", fd |-> d, timed |-> FALSE] \in CallType
  BY CallTypes
<1>6. call' \in [Fibers -> CallType]
  BY <1>5, Types DEF Cancel
<1> QED
  BY <1>3, <1>4, <1>6, Types, TypesAfter DEF Cancel

(* The calls that a fiber begins.                                          *)
LEMMA BeginTypes ==
    ASSUME HookTypeOK, NEW f \in Fibers,
           Begin(f) \/ \E op \in Ops : Call(f, op, Listen)
    PROVE  HookTypeOK'
<1> USE DEF fibers, kernel
<1>1. ASSUME NEW d \in Fds, Socket(f, d) PROVE HookTypeOK'
  <2>1. desc' \in [Fds -> DescType]
    BY <1>1, OpenedType DEF Socket
  <2>2. [op |-> "socket", fd |-> d, timed |-> FALSE] \in CallType
    BY CallTypes
  <2>3. call' \in [Fibers -> CallType]
    BY <1>1, <2>2, Types DEF Socket
  <2>4. pc' \in [Fibers -> Places]
    BY <1>1, Types DEF Socket, Places
  <2> QED
    BY <1>1, <2>1, <2>3, <2>4, Types, TypesAfter DEF Socket
<1>2. ASSUME NEW d \in Fds, Close(f, d) PROVE HookTypeOK'
  <2>1. CASE Cancel(f, d, "closing")
    BY <2>1, CancelTypes DEF Places
  <2>2. CASE /\ pc' = [pc EXCEPT ![f] = "deleted"]
             /\ call' = [call EXCEPT ![f] =
                            [op |-> "close", fd |-> d, timed |-> FALSE]]
             /\ UNCHANGED <<workers, proc, cancelled, m_data, waiter, timers,
                            kernel>>
    <3>1. [op |-> "close", fd |-> d, timed |-> FALSE] \in CallType
      BY CallTypes
    <3>2. call' \in [Fibers -> CallType]
      BY <2>2, <3>1, Types
    <3>3. pc' \in [Fibers -> Places]
      BY <2>2, Types DEF Places
    <3> QED
      BY <2>2, <3>2, <3>3, Types, TypesAfter
  <2> QED
    BY <1>2, <2>1, <2>2 DEF Close
<1>3. ASSUME NEW op \in Ops, NEW d \in Fds, Call(f, op, d) PROVE HookTypeOK'
  <2>1. HasTimeout(d, op) \in BOOLEAN
    <3>1. m_data[d] \in CtxType
      BY Types
    <3>2. m_data[d].recvTimeout \in BOOLEAN /\ m_data[d].sendTimeout \in BOOLEAN
      BY <3>1 DEF CtxType
    <3> QED
      BY <3>2 DEF HasTimeout, Ops
  <2>2. [op |-> op, fd |-> d, timed |-> HasTimeout(d, op)] \in CallType
    BY <2>1, CallTypes
  <2>3. \/ call' = call
        \/ call' = [call EXCEPT ![f] = [op |-> op, fd |-> d,
                                        timed |-> HasTimeout(d, op)]]
    BY <1>3 DEF Call
  <2>4. call' \in [Fibers -> CallType]
    BY <2>2, <2>3, Types
  <2>5. \E next \in {"blocked", "idle", "try"} : pc' = [pc EXCEPT ![f] = next]
    BY <1>3 DEF Call
  <2>6. pc' \in [Fibers -> Places]
    BY <2>5, Types DEF Places
  <2> QED
    BY <1>3, <2>4, <2>6, Types, TypesAfter DEF Call
<1>4. ASSUME NEW d \in Fds, NEW v \in BOOLEAN, SetFl(f, d, v) \/ SetNbio(f, d, v)
      PROVE  HookTypeOK'
  <2>1. /\ m_data' \in {m_data, [m_data EXCEPT ![d].userNonblock = v]}
        /\ \E b \in BOOLEAN : desc' = [desc EXCEPT ![d].nonblock = b]
    BY <1>4 DEF SetFl, SetNbio
  <2>2. m_data' \in [Fds -> CtxType]
    <3>1. CASE m_data' = m_data
      BY <3>1, Types
    <3>2. CASE m_data' = [m_data EXCEPT ![d].userNonblock = v]
      BY <3>2, Types DEF CtxType
    <3> QED
      BY <2>1, <3>1, <3>2
  <2>3. desc' \in [Fds -> DescType]
    <3>1. PICK b \in BOOLEAN : desc' = [desc EXCEPT ![d].nonblock = b]
      BY <2>1
    <3> QED
      BY <3>1, Types DEF DescType
  <2> QED
    BY <1>4, <2>2, <2>3, Types, TypesAfter DEF SetFl, SetNbio
<1>5. ASSUME NEW d \in Fds, NEW e \in Events, SetTimeout(f, d, e)
      PROVE  HookTypeOK'
  <2>1. m_data' \in [Fds -> CtxType]
    BY <1>5, Types, ZenonT(60) DEF SetTimeout, CtxType
  <2> QED
    BY <1>5, <2>1, Types, TypesAfter DEF SetTimeout
<1>6. ASSUME Sleep(f) \/ Usleep(f) PROVE HookTypeOK'
  <2>1. pc' \in [Fibers -> Places]
    BY <1>6, Types DEF Sleep, Usleep, Places
  <2> QED
    BY <1>6, <2>1, Types, TypesAfter DEF Sleep, Usleep
<1> QED
  BY <1>1, <1>2, <1>3, <1>4, <1>5, <1>6, HookAssumption DEF HookAssumption, Begin

(* A call goes on.                                                         *)
LEMMA GoOnTypes ==
    ASSUME HookTypeOK, CallInv, NEW f \in Fibers,
           GoOn(f) \/ \E timed \in BOOLEAN : MakeCtx(f, timed)
    PROVE  HookTypeOK'
<1> USE DEF fibers, kernel
<1>1. ASSUME NEW timed \in BOOLEAN, MakeCtx(f, timed) PROVE HookTypeOK'
  <2> DEFINE d == call[f].fd
             new == m_data[d] = NoCtx
             ctx == IF new THEN [NoCtx EXCEPT !.gen = desc[d].gen] ELSE m_data[d]
  <2>1. d \in Fds
    BY <1>1 DEF MakeCtx, CallInv
  <2>2. /\ m_data' = [m_data EXCEPT ![d] =
                         [ctx EXCEPT !.recvTimeout = @ \/ timed]]
        /\ desc' = [desc EXCEPT ![d].nonblock = @ \/ new]
        /\ Return(f, timers)
    BY <1>1 DEF MakeCtx
  <2>3. desc[d] \in DescType /\ m_data[d] \in CtxType
    BY <2>1, Types
  <2>4. ctx \in CtxType
    BY <2>3, Literals DEF DescType, CtxType
  <2>5. [ctx EXCEPT !.recvTimeout = @ \/ timed] \in CtxType
    <3>1. (ctx.recvTimeout \/ timed) \in BOOLEAN
      OBVIOUS
    <3> HIDE DEF ctx
    <3> QED
      BY <2>4, <3>1 DEF CtxType
  <2>6. m_data' \in [Fds -> CtxType]
    <3> HIDE DEF ctx
    <3> QED
      BY <2>2, <2>5, Types
  <2>7. desc' \in [Fds -> DescType]
    <3>1. (desc[d].nonblock \/ new) \in BOOLEAN
      OBVIOUS
    <3> HIDE DEF new
    <3> QED
      BY <2>2, <2>3, <3>1, Types DEF DescType
  <2>8. timers \in SUBSET TimerType
    BY Types
  <2>9. /\ pc' \in [Fibers -> Places]
        /\ call' \in [Fibers -> CallType]
        /\ cancelled' \in [Fibers -> BOOLEAN]
        /\ timers' \subseteq TimerType
    BY <2>2, <2>8, ReturnTypes
  <2> QED
    BY <1>1, <2>6, <2>7, <2>9, Types, TypesAfter DEF MakeCtx
<1>2. ASSUME TryReturns(f) PROVE HookTypeOK'
  <2> DEFINE d == call[f].fd
             e == EventOf(call[f].op)
  <2>1. d \in Fds /\ e \in Events
    BY <1>2, Literals DEF TryReturns, CallInv
  <2>2. \E used \in SUBSET {e} : ready' = [ready EXCEPT ![d] = @ \ used]
    <3>1. {e} \in SUBSET {e}
      OBVIOUS
    <3> QED
      BY <1>2, <3>1 DEF TryReturns
  <2>3. ready' \in [Fds -> SUBSET Events]
    BY <2>1, <2>2, Types
  <2>4. timers \in SUBSET TimerType
    BY Types
  <2>5. CASE Return(f, timers) /\ UNCHANGED desc
    BY <1>2, <2>3, <2>4, <2>5, ReturnTypes, Types, TypesAfter DEF TryReturns
  <2>6. ASSUME NEW x \in Fds, MayMake(x), desc' = Opened(x),
               call' = [call EXCEPT ![f] =
                            [op |-> "socket", fd |-> x, timed |-> FALSE]],
               pc' = [pc EXCEPT ![f] = "made"],
               cancelled' = [cancelled EXCEPT ![f] = FALSE],
               timers' = Expired(f, timers)
        PROVE  HookTypeOK'
    <3>1. desc' \in [Fds -> DescType] /\ timers' \subseteq TimerType
      BY <2>4, <2>6, OpenedType, TimerTypes
    <3>2. [op |-> "socket", fd |-> x, timed |-> FALSE] \in CallType
      BY CallTypes
    <3>3. call' \in [Fibers -> CallType]
      BY <2>6, <3>2, Types
    <3>4. pc' \in [Fibers -> Places] /\ cancelled' \in [Fibers -> BOOLEAN]
      BY <2>6, Types DEF Places
    <3> QED
      BY <1>2, <2>3, <3>1, <3>3, <3>4, Types, TypesAfter DEF TryReturns
  <2> QED
    BY <1>2, <2>5, <2>6 DEF TryReturns
<1>3. ASSUME TryAgain(f) PROVE HookTypeOK'
  <2> DEFINE d == call[f].fd
             e == EventOf(call[f].op)
             timer == [fiber |-> f, fd |-> d, event |-> e, state |-> "armed",
                       live |-> TRUE]
  <2>1. d \in Fds /\ e \in Events
    BY <1>3, Literals DEF TryAgain, CallInv
  <2>2. timer \in TimerType
    BY <2>1 DEF TimerType
  <2>3. timers' \in {timers, timers \cup {timer}}
    BY <1>3 DEF TryAgain
  <2>4. timers' \subseteq TimerType
    BY <2>2, <2>3, Types
  <2>5. pc' \in [Fibers -> Places]
    BY <1>3, Types DEF TryAgain, Places
  <2> QED
    BY <1>3, <2>4, <2>5, Types, TypesAfter DEF TryAgain
<1>4. ASSUME Register(f) PROVE HookTypeOK'
  <2> DEFINE d == call[f].fd
             e == EventOf(call[f].op)
  <2>1. d \in Fds /\ e \in Events
    BY <1>4, Literals DEF Register, CallInv
  <2>2. proc' \in {proc, "aborted"} /\ UNCHANGED <<workers, m_data, desc, ready>>
    BY <1>4 DEF Register
  <2>3. CASE /\ waiter' = [waiter EXCEPT ![d][e] = f]
             /\ polled' = [polled EXCEPT ![d] = @ \cup {e}]
             /\ pc' = [pc EXCEPT ![f] = "waiting"]
             /\ UNCHANGED <<call, cancelled, timers>>
    <3> HIDE DEF d, e
    <3>1. pc' \in [Fibers -> Places]
      BY <2>3, Types DEF Places
    <3>2. /\ waiter' \in [Fds -> [Events -> Fibers \cup {None}]]
          /\ polled' \in [Fds -> SUBSET Events]
      BY <2>1, <2>3, Types
    <3> QED
      BY <2>2, <2>3, <3>1, <3>2, Types, TypesAfter
  <2>4. CASE Return(f, Disarmed(f)) /\ UNCHANGED <<waiter, polled>>
    <3>1. Disarmed(f) \in SUBSET TimerType
      BY TimerTypes
    <3> QED
      BY <2>2, <2>4, <3>1, ReturnTypes, Types, TypesAfter
  <2> QED
    BY <1>4, <2>3, <2>4 DEF Register
<1>5. ASSUME Resume(f) PROVE HookTypeOK'
  <2>1. Disarmed(f) \in SUBSET TimerType
    BY TimerTypes
  <2>2. CASE Return(f, Disarmed(f))
    BY <1>5, <2>1, <2>2, ReturnTypes, Types, TypesAfter DEF Resume
  <2>3. CASE /\ timers' = Disarmed(f)
             /\ pc' = [pc EXCEPT ![f] = "try"]
             /\ UNCHANGED <<call, cancelled>>
    <3>1. pc' \in [Fibers -> Places]
      BY <2>3, Types DEF Places
    <3> QED
      BY <1>5, <2>1, <2>3, <3>1, Types, TypesAfter DEF Resume
  <2> QED
    BY <1>5, <2>2, <2>3 DEF Resume
<1>6. ASSUME CloseDel(f) PROVE HookTypeOK'
  <2>1. m_data' \in [Fds -> CtxType]
    BY <1>6, Types, Literals DEF CloseDel, Deleted
  <2>2. pc' \in [Fibers -> Places]
    BY <1>6, Types DEF CloseDel, Places
  <2> QED
    BY <1>6, <2>1, <2>2, Types, TypesAfter DEF CloseDel
<1>7. ASSUME CloseFd(f) PROVE HookTypeOK'
  <2> DEFINE d == call[f].fd
  <2>1. d \in Fds
    BY <1>7 DEF CloseFd, CallInv
  <2>2. desc' = [desc EXCEPT ![d].open = FALSE, ![d].nonblock = FALSE]
    BY <1>7 DEF CloseFd
  <2>3. desc' \in [Fds -> DescType]
    BY <2>1, <2>2, Types, ZenonT(60) DEF DescType
  <2>4. ready' \in [Fds -> SUBSET Events] /\ polled' \in [Fds -> SUBSET Events]
    BY <1>7, Types DEF CloseFd
  <2>5. timers \in SUBSET TimerType
    BY Types
  <2> QED
    BY <1>7, <2>3, <2>4, <2>5, ReturnTypes, Types, TypesAfter DEF CloseFd
<1>8. ASSUME SleepOver(f) PROVE HookTypeOK'
  <2>1. pc' \in [Fibers -> Places]
    BY <1>8, Types DEF SleepOver, Places
  <2> QED
    BY <1>8, <2>1, Types, TypesAfter DEF SleepOver
<1> QED
  BY <1>1, <1>2, <1>3, <1>4, <1>5, <1>6, <1>7, <1>8 DEF GoOn

(* The kernel, the pollers and the timers.                                 *)
LEMMA EnvironmentTypes ==
    ASSUME HookTypeOK, Environment
    PROVE  HookTypeOK'
<1> USE DEF fibers, kernel
<1>1. ASSUME NEW d \in Fds, NEW e \in Events, BecomeReady(d, e) PROVE HookTypeOK'
  <2>1. ready' \in [Fds -> SUBSET Events]
    BY <1>1, Types DEF BecomeReady
  <2> QED
    BY <1>1, <2>1, Types, TypesAfter DEF BecomeReady
<1>2. ASSUME NEW d \in Fds, Report(d) PROVE HookTypeOK'
  <2>1. ready[d] \cap polled[d] \in SUBSET Events
    BY Types
  <2> QED
    BY <1>2, <2>1, TriggerTypes, Types, TypesAfter DEF Report
<1>3. ASSUME NEW t \in timers, Collect(t) PROVE HookTypeOK'
  <2>1. [t EXCEPT !.state = "due"] \in TimerType
    BY Types DEF TimerType
  <2>2. timers' \subseteq TimerType
    BY <1>3, <2>1, Types DEF Collect
  <2> QED
    BY <1>3, <2>2, Types, TypesAfter DEF Collect
<1>4. ASSUME NEW t \in timers, RunTimer(t) PROVE HookTypeOK'
  <2>1. t.fiber \in Fibers /\ t.fd \in Fds /\ {t.event} \in SUBSET Events
    BY Types DEF TimerType
  <2>2. /\ timers' \subseteq TimerType
        /\ proc' \in {proc, "crashed"}
        /\ cancelled' \in {cancelled, [cancelled EXCEPT ![t.fiber] = TRUE]}
        /\ UNCHANGED <<workers, call, m_data, desc, ready>>
    BY <1>4, Types DEF RunTimer
  <2>3. cancelled' \in [Fibers -> BOOLEAN]
    BY <2>1, <2>2, Types
  <2>4. CASE Trigger(t.fd, {t.event}) /\ pc' = Woken(t.fd, {t.event})
    BY <2>1, <2>2, <2>3, <2>4, TriggerTypes, Types, TypesAfter
  <2>5. CASE UNCHANGED <<waiter, polled, pc>>
    BY <2>2, <2>3, <2>5, Types, TypesAfter
  <2> QED
    BY <1>4, <2>4, <2>5 DEF RunTimer
<1> QED
  BY <1>1, <1>2, <1>3, <1>4 DEF Environment

-----------------------------------------------------------------------------
(* What a step may do to the fibers, their registrations and the           *)
(* descriptors.  Nine kinds of steps are told apart, so that the           *)
(* invariants below need not look at every action.                         *)

(* Nobody moves; flags and timeouts may be set.                            *)
Calm ==
    /\ UNCHANGED <<pc, call, waiter, polled, workers>>
    /\ proc' \in {proc, "crashed"}
    /\ stopping' = "cancelled" => stopping = "cancelled"
    /\ \A d \in Fds :
          /\ desc'[d].open = desc[d].open
          /\ desc'[d].gen = desc[d].gen
          /\ m_data'[d].gen = m_data[d].gen
          /\ m_data'[d] = m_data[d] \/ (Disciplined => ~InFlux(d))
          /\ \/ desc'[d].nonblock = desc[d].nonblock
             \/ desc'[d].nonblock \in Fionbio \cup {TRUE}
             \/ m_data[d] = NoCtx /\ (Disciplined => ~InFlux(d))

(* Where a fiber may be in call c.                                         *)
Fits(next, c) ==
    /\ next \in {"idle", "asleep", "sleeping"} => c = NoCall
    /\ next = "made" => c.op = "socket" /\ c.fd \in Fds
    /\ next \in {"try", "armed", "waiting", "woken"} => c.op \in Ops /\ c.fd \in Fds
    /\ next = "blocked" => \/ c = NoCall
                           \/ c.op \in Ops /\ c.fd \in Fds
    /\ next \in {"closing", "deleted", "stopping"} =>
           c.op = "close" /\ c.fd \in Fds

(* Fiber f goes to next, in call c, without waiting before or after.       *)
Moves(f, next, c) ==
    /\ MayRun(f)
    /\ pc' = [pc EXCEPT ![f] = next]
    /\ call' = [call EXCEPT ![f] = c]
    /\ Fits(next, c)
    /\ pc[f] # "waiting" /\ next \notin {"waiting", "woken"}
    /\ f = Stopper => next \in {"deleted", "idle"} /\ stopping # "cancelled"
    /\ UNCHANGED <<waiter, workers, stopping>>

(* addEvent will not fail.                                                 *)
Registrable(f) ==
    LET d == call[f].fd IN
    /\ waiter[d][EventOf(call[f].op)] = None
    /\ CtlWorks(IF \E x \in Events : waiter[d][x] # None THEN "MOD" ELSE "ADD", d)

(* A move that changes no context and no descriptor.                       *)
Plain(f, next, c) ==
    /\ Moves(f, next, c)
    /\ UNCHANGED <<m_data, desc, polled>>
    /\ \/ proc' = proc
       \/ pc[f] = "armed" /\ ~Registrable(f)
    /\ next = "armed" => c = call[f] /\ desc[c.fd].open
    /\ next \notin {"made", "closing", "stopping"}
    /\ next = "deleted" => c.op = "close" /\ m_data[c.fd] = NoCtx
    /\ \/ c = NoCall
       \/ c = call[f] /\ pc[f] \notin {"made", "closing", "deleted", "stopping"}
       \/ /\ c.op \in Ops /\ c.fd \in Fds
          /\ pc[f] = "idle" /\ MayCall(c.fd, EventOf(c.op))
       \/ /\ c.op = "close" /\ c.fd \in Fds
          /\ pc[f] = "idle" /\ MayClose(c.fd) /\ m_data[c.fd] = NoCtx
    /\ pc[f] \notin {"made", "closing", "deleted", "stopping"}
    /\ next = "blocked" => \E d \in Fds :
          /\ desc[d].open /\ ~desc[d].nonblock
          /\ \/ Disciplined => ~InFlux(d)
             \/ pc[f] = "try" /\ call[f].fd = d

(* Fiber f opens descriptor d, with socket or accept.                      *)
Makes(f, d) ==
    /\ Moves(f, "made", [op |-> "socket", fd |-> d, timed |-> FALSE])
    /\ pc[f] \in {"idle", "try"}
    /\ MayMake(d)
    /\ desc' = Opened(d)
    /\ UNCHANGED <<proc, m_data, polled>>

(* Fiber f begins to wait for event e of d.                                *)
Waits(f, d, e) ==
    /\ MayRun(f)
    /\ pc[f] = "armed" /\ d = call[f].fd /\ e = EventOf(call[f].op)
    /\ f # Stopper
    /\ waiter[d][e] = None
    /\ desc[d].open
    /\ waiter' = [waiter EXCEPT ![d][e] = f]
    /\ polled' = [polled EXCEPT ![d] = @ \cup {e}]
    /\ pc' = [pc EXCEPT ![f] = "waiting"]
    /\ UNCHANGED <<call, workers, proc, stopping, m_data, desc>>

(* The fibers that wait for the events es of d are woken.                  *)
Wakes(d, es) ==
    /\ Trigger(d, es)
    /\ pc' = Woken(d, es)
    /\ UNCHANGED <<call, workers, stopping, m_data, desc>>
    /\ proc' \in {proc, "crashed"}

(* Fiber f begins to close d, or goes on with it, and wakes all of them.   *)
Closes(f, d, next) ==
    /\ MayRun(f)
    /\ \/ pc[f] = "idle" /\ MayClose(d)
       \/ pc[f] = "stopping" /\ call[f].fd = d
    /\ next \in {"closing", "stopping"}
    /\ Cancel(f, d, next)
    /\ \/ f # Stopper /\ UNCHANGED stopping
       \/ /\ f = Stopper
          /\ stopping' = "cancelled" => next = "stopping" /\ d = Listen

LEMMA ReturnMoves ==
    ASSUME NEW f \in Fibers, NEW ts, Return(f, ts), MayRun(f),
           HookTypeOK, pc[f] # "waiting",
           f = Stopper => stopping # "cancelled",
           UNCHANGED <<waiter, workers, stopping>>
    PROVE  Moves(f, "idle", NoCall)
  BY DEF Return, Moves, Fits

StepKinds ==
    \/ Calm
    \/ \E f \in Fibers, next \in Places, c \in CallType : Plain(f, next, c)
    \/ \E f \in Fibers, d \in Fds : Makes(f, d)
    \/ \E f \in Fibers, timed \in BOOLEAN :
           Moves(f, "idle", NoCall) /\ MakeCtx(f, timed)
    \/ \E f \in Fibers : Moves(f, "deleted", call[f]) /\ CloseDel(f)
    \/ \E f \in Fibers : Moves(f, "idle", NoCall) /\ CloseFd(f)
    \/ \E f \in Fibers, d \in Fds, e \in Events : Waits(f, d, e)
    \/ \E d \in Fds, es \in SUBSET Events : Wakes(d, es)
    \/ \E f \in Fibers, d \in Fds, next \in Places : Closes(f, d, next)

LEMMA Steps ==
    ASSUME BaseInv, [Next]_vars
    PROVE  StepKinds
<1> USE DEF BaseInv, TypeOK, fibers, kernel, serverVars
<1>1. CASE UNCHANGED vars
  BY <1>1 DEF vars, hookVars, Calm, StepKinds
<1>2. CASE start \/ stop \/ acceptEnd \/ stopClear
  BY <1>2 DEF start, stop, acceptEnd, stopClear, hookVars, Calm, StepKinds
<1>3. ASSUME NEW f \in Fibers, NEW op \in Ops, NEW d \in Fds, Call(f, op, d),
             f # Stopper, UNCHANGED serverVars
      PROVE  \E next \in Places, c \in CallType : Plain(f, next, c)
  <2> DEFINE c == [op |-> op, fd |-> d, timed |-> HasTimeout(d, op)]
  <2>1. call[f] = NoCall /\ pc[f] = "idle" /\ MayRun(f)
        /\ MayCall(d, EventOf(op))
    BY <1>3 DEF Call, CallInv
  <2>2. CASE Direct(d)
    <3>1. PICK next \in {"blocked", "idle"} :
              /\ pc' = [pc EXCEPT ![f] = next]
              /\ next = "blocked" => desc[d].open /\ ~desc[d].nonblock
      BY <1>3, <2>2 DEF Call
    <3>2. call' = [call EXCEPT ![f] = NoCall]
      BY <1>3, <2>1, <2>2, Types DEF Call
    <3>3. Moves(f, next, NoCall)
      BY <1>3, <2>1, <3>1, <3>2 DEF Call, Moves, Fits
    <3>4. Plain(f, next, NoCall)
      BY <1>3, <2>1, <3>1, <3>3 DEF Call, Plain, MayCall
    <3> QED
      BY <3>4, Literals DEF Places
  <2>3. CASE ~Direct(d)
    <3>1. HasTimeout(d, op) \in BOOLEAN
      <4>1. m_data[d] \in CtxType
        BY Types
      <4>2. m_data[d].recvTimeout \in BOOLEAN /\ m_data[d].sendTimeout \in BOOLEAN
        BY <4>1 DEF CtxType
      <4> QED
        BY <4>2 DEF HasTimeout, Ops
    <3>2. c \in CallType /\ c.op = op /\ c.fd = d
      BY <3>1, CallTypes
    <3>3. /\ pc' = [pc EXCEPT ![f] = "try"] /\ call' = [call EXCEPT ![f] = c]
          /\ UNCHANGED <<workers, proc, m_data, waiter, desc, polled>>
      BY <1>3, <2>3 DEF Call
    <3> HIDE DEF c
    <3>4. Moves(f, "try", c)
      BY <1>3, <2>1, <3>2, <3>3 DEF Moves, Fits
    <3>5. Plain(f, "try", c)
      BY <2>1, <3>2, <3>3, <3>4 DEF Plain
    <3> QED
      BY <3>2, <3>5 DEF Places
  <2> QED
    BY <2>2, <2>3
<1>4. ASSUME NEW f \in Fibers, NEW timed \in BOOLEAN, MakeCtx(f, timed),
             UNCHANGED serverVars
      PROVE  Moves(f, "idle", NoCall)
  BY <1>4, ReturnMoves DEF MakeCtx, StopperInv
<1>5. ASSUME NEW f \in Fibers, CloseDel(f), UNCHANGED serverVars
      PROVE  Moves(f, "deleted", call[f])
  <2>1. call' = [call EXCEPT ![f] = call[f]]
    BY <1>5, Types DEF CloseDel
  <2> QED
    BY <1>5, <2>1 DEF CloseDel, Moves, Fits, CallInv, StopperInv
<1>6. ASSUME NEW f \in Fibers, CloseFd(f), UNCHANGED serverVars
      PROVE  Moves(f, "idle", NoCall)
  BY <1>6, ReturnMoves DEF CloseFd, StopperInv
<1>7. ASSUME NEW f \in Fibers, NEW d \in Fds, Socket(f, d), f # Stopper,
             UNCHANGED serverVars
      PROVE  Makes(f, d)
  <2>1. Moves(f, "made", [op |-> "socket", fd |-> d, timed |-> FALSE])
    BY <1>7 DEF Socket, Moves, Fits
  <2> QED
    BY <1>7, <2>1 DEF Socket, Makes
<1>8. ASSUME NEW f \in Fibers, TryReturns(f), UNCHANGED serverVars
      PROVE  \/ \E next \in Places, c \in CallType : Plain(f, next, c)
             \/ \E d \in Fds : Makes(f, d)
  <2>1. MayRun(f) /\ pc[f] = "try" /\ f # Stopper
    BY <1>8 DEF TryReturns, StopperInv
  <2>2. CASE Return(f, timers) /\ UNCHANGED desc
    <3>1. Moves(f, "idle", NoCall)
      BY <1>8, <2>1, <2>2, ReturnMoves DEF TryReturns
    <3>2. Plain(f, "idle", NoCall)
      BY <1>8, <2>1, <2>2, <3>1 DEF TryReturns, Plain
    <3> QED
      BY <3>2, Literals DEF Places
  <2>3. ASSUME NEW d \in Fds, MayMake(d), desc' = Opened(d),
               call' = [call EXCEPT ![f] =
                            [op |-> "socket", fd |-> d, timed |-> FALSE]],
               pc' = [pc EXCEPT ![f] = "made"]
        PROVE  Makes(f, d)
    <3>1. Moves(f, "made", [op |-> "socket", fd |-> d, timed |-> FALSE])
      BY <1>8, <2>1, <2>3 DEF TryReturns, Moves, Fits
    <3> QED
      BY <1>8, <2>1, <2>3, <3>1 DEF TryReturns, Makes
  <2> QED
    BY <1>8, <2>2, <2>3 DEF TryReturns
<1>9. ASSUME NEW f \in Fibers, TryAgain(f), UNCHANGED serverVars
      PROVE  \E next \in Places, c \in CallType : Plain(f, next, c)
  <2>1. /\ MayRun(f) /\ pc[f] = "try" /\ f # Stopper
        /\ call[f] \in CallType /\ call[f].op \in Ops /\ call[f].fd \in Fds
        /\ desc[call[f].fd].open
    BY <1>9, Types DEF TryAgain, StopperInv, CallInv
  <2>2. PICK next \in {"armed", "blocked"} :
            /\ pc' = [pc EXCEPT ![f] = next]
            /\ next = "blocked" => ~desc[call[f].fd].nonblock
    BY <1>9 DEF TryAgain
  <2>3. call' = [call EXCEPT ![f] = call[f]]
    BY <1>9, Types DEF TryAgain
  <2>4. Moves(f, next, call[f])
    BY <1>9, <2>1, <2>2, <2>3 DEF TryAgain, Moves, Fits
  <2>5. Plain(f, next, call[f])
    BY <1>9, <2>1, <2>2, <2>4 DEF TryAgain, Plain
  <2> QED
    BY <2>1, <2>5 DEF Places
<1>10. ASSUME NEW f \in Fibers, Register(f), UNCHANGED serverVars
       PROVE  \/ \E next \in Places, c \in CallType : Plain(f, next, c)
              \/ \E d \in Fds, e \in Events : Waits(f, d, e)
  <2> DEFINE d == call[f].fd
             e == EventOf(call[f].op)
  <2>1. /\ MayRun(f) /\ pc[f] = "armed" /\ f # Stopper
        /\ d \in Fds /\ e \in Events
    BY <1>10, Literals DEF Register, StopperInv, CallInv
  <2>2. CASE /\ waiter[d][e] = None /\ desc[d].open /\ proc' = proc
             /\ waiter' = [waiter EXCEPT ![d][e] = f]
             /\ polled' = [polled EXCEPT ![d] = @ \cup {e}]
             /\ pc' = [pc EXCEPT ![f] = "waiting"]
             /\ UNCHANGED <<call, cancelled, timers>>
    <3>1. Waits(f, d, e)
      BY <1>10, <2>1, <2>2 DEF Register, Waits
    <3> QED
      BY <2>1, <3>1
  <2>3. CASE Return(f, Disarmed(f)) /\ UNCHANGED <<waiter, polled>>
    <3>1. Moves(f, "idle", NoCall)
      BY <1>10, <2>1, <2>3, ReturnMoves DEF Register
    <3>2. Plain(f, "idle", NoCall)
      BY <1>10, <2>1, <2>3, <3>1 DEF Register, Registrable, Plain
    <3> QED
      BY <3>2, Literals DEF Places
  <2> QED
    BY <1>10, <2>2, <2>3 DEF Register, CtlWorks
<1>11. ASSUME NEW f \in Fibers, Resume(f), UNCHANGED serverVars
       PROVE  \E next \in Places, c \in CallType : Plain(f, next, c)
  <2>1. /\ MayRun(f) /\ pc[f] = "woken" /\ f # Stopper
        /\ call[f] \in CallType /\ call[f].op \in Ops /\ call[f].fd \in Fds
    BY <1>11, Types DEF Resume, StopperInv, CallInv
  <2>2. CASE Return(f, Disarmed(f))
    <3>1. Moves(f, "idle", NoCall)
      BY <1>11, <2>1, <2>2, ReturnMoves DEF Resume
    <3>2. Plain(f, "idle", NoCall)
      BY <1>11, <2>1, <2>2, <3>1 DEF Resume, Plain
    <3> QED
      BY <3>2, Literals DEF Places
  <2>3. CASE pc' = [pc EXCEPT ![f] = "try"] /\ UNCHANGED <<call, cancelled>>
    <3>1. call' = [call EXCEPT ![f] = call[f]]
      BY <2>3, Types
    <3>2. Moves(f, "try", call[f])
      BY <1>11, <2>1, <2>3, <3>1 DEF Resume, Moves, Fits
    <3>3. Plain(f, "try", call[f])
      BY <1>11, <2>1, <3>2 DEF Resume, Plain
    <3> QED
      BY <2>1, <3>3 DEF Places
  <2> QED
    BY <1>11, <2>2, <2>3 DEF Resume
<1>12. ASSUME NEW f \in Fibers, Sleep(f) \/ Usleep(f) \/ SleepOver(f),
              f # Stopper, UNCHANGED serverVars
       PROVE  \E next \in Places, c \in CallType : Plain(f, next, c)
  <2>1. pc[f] \in {"idle", "sleeping"} /\ call[f] = NoCall
    BY <1>12 DEF Sleep, Usleep, SleepOver, CallInv
  <2>2. MayRun(f)
    BY <1>12 DEF Sleep, Usleep, SleepOver, Free, MayRun
  <2>3. PICK next \in {"idle", "asleep", "sleeping"} : pc' = [pc EXCEPT ![f] = next]
    BY <1>12 DEF Sleep, Usleep, SleepOver
  <2>4. call' = [call EXCEPT ![f] = NoCall]
    BY <1>12, <2>1, Types DEF Sleep, Usleep, SleepOver
  <2>5. Moves(f, next, NoCall)
    BY <1>12, <2>1, <2>2, <2>3, <2>4 DEF Sleep, Usleep, SleepOver, Moves, Fits
  <2>6. Plain(f, next, NoCall)
    BY <1>12, <2>1, <2>3, <2>5 DEF Sleep, Usleep, SleepOver, Plain
  <2> QED
    BY <2>3, <2>6, Literals DEF Places
<1>13. ASSUME NEW f \in Fibers, NEW d \in Fds, Close(f, d), f # Stopper,
              UNCHANGED serverVars
       PROVE  \/ \E next \in Places, c \in CallType : Plain(f, next, c)
              \/ \E next \in Places : Closes(f, d, next)
  <2> DEFINE c == [op |-> "close", fd |-> d, timed |-> FALSE]
  <2>1. MayRun(f) /\ pc[f] = "idle" /\ MayClose(d)
    BY <1>13 DEF Close
  <2>2. CASE m_data[d] # NoCtx
    <3>1. Closes(f, d, "closing")
      BY <1>13, <2>1, <2>2 DEF Close, Closes
    <3> QED
      BY <3>1 DEF Places
  <2>3. CASE m_data[d] = NoCtx
    <3>1. /\ pc' = [pc EXCEPT ![f] = "deleted"] /\ call' = [call EXCEPT ![f] = c]
          /\ UNCHANGED <<workers, proc, m_data, waiter, desc, polled>>
      BY <1>13, <2>3 DEF Close
    <3>2. c \in CallType /\ c.op = "close" /\ c.fd = d
      BY CallTypes
    <3> HIDE DEF c
    <3>3. Moves(f, "deleted", c)
      BY <1>13, <2>1, <3>1, <3>2 DEF Moves, Fits
    <3>4. Plain(f, "deleted", c)
      BY <2>1, <2>3, <3>1, <3>2, <3>3 DEF Plain
    <3> QED
      BY <3>2, <3>4 DEF Places
  <2> QED
    BY <2>2, <2>3
<1>14. ASSUME stopCancel \/ stopClose
       PROVE  \E next \in Places : Closes(Stopper, Listen, next)
  <2>1. CASE stopCancel
    <3>1. Closes(Stopper, Listen, "stopping")
      BY <2>1 DEF stopCancel, Closes
    <3> QED
      BY <3>1 DEF Places
  <2>2. CASE stopClose
    <3>1. Closes(Stopper, Listen, "closing")
      BY <2>2 DEF stopClose, Closes, StopperInv
    <3> QED
      BY <3>1 DEF Places
  <2> QED
    BY <1>14, <2>1, <2>2
<1>15. ASSUME NEW f \in Fibers, NEW d \in Fds, UNCHANGED serverVars,
              \/ \E v \in BOOLEAN : SetFl(f, d, v)
              \/ \E v \in Fionbio : SetNbio(f, d, v)
              \/ \E e \in Events : SetTimeout(f, d, e)
       PROVE  Calm
  <2>1. /\ UNCHANGED <<pc, call, waiter, polled, workers, proc, stopping>>
        /\ Disciplined => ~InFlux(d)
    BY <1>15 DEF SetFl, SetNbio, SetTimeout, Between
  <2> DEFINE Kept(x) ==
                 /\ desc'[x].open = desc[x].open
                 /\ desc'[x].gen = desc[x].gen
                 /\ m_data'[x].gen = m_data[x].gen
                 /\ x # d => m_data'[x] = m_data[x] /\ desc'[x] = desc[x]
                 /\ \/ desc'[d].nonblock = desc[d].nonblock
                    \/ desc'[d].nonblock \in Fionbio \cup {TRUE}
                    \/ m_data[d] = NoCtx
  <2>2. m_data \in [Fds -> CtxType] /\ desc \in [Fds -> DescType]
    BY Types
  <2>3. ASSUME NEW x \in Fds, NEW v \in BOOLEAN, SetFl(f, d, v) PROVE Kept(x)
    <3>1. CASE m_data[d] # NoCtx
      <4>1. /\ m_data' = [m_data EXCEPT ![d].userNonblock = v]
            /\ desc' = [desc EXCEPT ![d].nonblock = TRUE]
        BY <2>3, <3>1 DEF SetFl
      <4>2. m_data'[x].gen = m_data[x].gen /\ (x # d => m_data'[x] = m_data[x])
        BY <2>2, <4>1 DEF CtxType
      <4>3. desc'[d].nonblock = TRUE
        BY <2>2, <4>1 DEF DescType
      <4>4. /\ desc'[x].open = desc[x].open /\ desc'[x].gen = desc[x].gen
            /\ x # d => desc'[x] = desc[x]
        BY <2>2, <4>1 DEF DescType
      <4> QED
        BY <4>2, <4>3, <4>4
    <3>2. CASE m_data[d] = NoCtx
      BY <2>2, <2>3, <3>2 DEF SetFl, CtxType, DescType
    <3> QED
      BY <3>1, <3>2
  <2>4. ASSUME NEW x \in Fds, NEW v \in Fionbio, SetNbio(f, d, v) PROVE Kept(x)
    BY <2>2, <2>4 DEF SetNbio, CtxType, DescType
  <2>5. ASSUME NEW x \in Fds, NEW e \in Events, SetTimeout(f, d, e) PROVE Kept(x)
    BY <2>2, <2>5 DEF SetTimeout, CtxType, DescType
  <2>6. \A x \in Fds : Kept(x)
    BY <1>15, <2>3, <2>4, <2>5
  <2> QED
    BY <2>1, <2>6 DEF Calm
<1>16. ASSUME Environment, UNCHANGED serverVars
       PROVE  Calm \/ \E d \in Fds, es \in SUBSET Events : Wakes(d, es)
  <2>1. ASSUME \E d \in Fds, e \in Events : BecomeReady(d, e) PROVE Calm
    BY <1>16, <2>1 DEF BecomeReady, Calm
  <2>2. ASSUME \E t \in timers : Collect(t) PROVE Calm
    BY <1>16, <2>2 DEF Collect, Calm
  <2>3. ASSUME NEW d \in Fds, Report(d) PROVE \E es \in SUBSET Events : Wakes(d, es)
    <3>1. ready[d] \cap polled[d] \in SUBSET Events
      BY Types
    <3> QED
      BY <1>16, <2>3, <3>1 DEF Report, Wakes
  <2>4. ASSUME NEW t \in timers, RunTimer(t)
        PROVE  Calm \/ \E d \in Fds, es \in SUBSET Events : Wakes(d, es)
    <3>1. t.fd \in Fds /\ {t.event} \in SUBSET Events
      BY Types DEF TimerType
    <3>2. /\ proc' \in {proc, "crashed"}
          /\ UNCHANGED <<workers, call, m_data, desc>>
      BY <2>4 DEF RunTimer
    <3>3. CASE Trigger(t.fd, {t.event}) /\ pc' = Woken(t.fd, {t.event})
      BY <1>16, <3>1, <3>2, <3>3 DEF Wakes
    <3>4. CASE UNCHANGED <<waiter, polled, pc>>
      BY <1>16, <3>2, <3>4 DEF Calm
    <3> QED
      BY <2>4, <3>3, <3>4 DEF RunTimer
  <2> QED
    BY <1>16, <2>1, <2>2, <2>3, <2>4 DEF Environment
<1>17. ASSUME NEW f \in Handlers, Handler(f) PROVE StepKinds
  <2>1. f \in Fibers /\ f # Stopper /\ UNCHANGED serverVars
    BY <1>17 DEF Handlers, Handler
  <2>2. CASE MakeCtx(f, FALSE)
    BY <1>4, <2>1, <2>2 DEF StepKinds
  <2>3. CASE Begin(f)
    BY <1>3, <1>7, <1>12, <1>13, <1>15, <2>1, <2>3 DEF Begin, StepKinds
  <2> QED
    BY <1>17, <2>2, <2>3 DEF Handler
<1>18. ASSUME NEW f \in Fibers, Server(f) PROVE StepKinds
  <2>1. GoOn(f) /\ UNCHANGED serverVars
    BY <1>18 DEF Server
  <2>2. SleepOver(f) => f # Stopper
    BY DEF SleepOver, StopperInv
  <2> QED
    BY <1>5, <1>6, <1>8, <1>9, <1>10, <1>11, <1>12, <2>1, <2>2
    DEF GoOn, StepKinds
<1>19. ASSUME acceptNext \/ accepted PROVE StepKinds
  <2>1. Acceptor \in Fibers /\ Acceptor # Stopper /\ Listen \in Fds
        /\ "accept" \in Ops
    BY ServerAssumption, HookAssumption DEF ServerAssumption, HookAssumption, Ops
  <2> QED
    BY <1>3, <1>4, <1>19, <2>1 DEF acceptNext, accepted, StepKinds
<1>20. Stopper \in Fibers /\ Listen \in Fds
  BY ServerAssumption, HookAssumption DEF ServerAssumption, HookAssumption
<1> QED
  BY <1>1, <1>2, <1>14, <1>16, <1>17, <1>18, <1>19, <1>20
  DEF Next, AcceptLoop, StopTask, StepKinds

-----------------------------------------------------------------------------
(* The invariant of any program *)

(* The steps of one fiber keep the others where they are.                  *)
LEMMA MovesKeep ==
    ASSUME BaseInv, NEW f \in Fibers, NEW next \in Places, NEW c \in CallType,
           Moves(f, next, c)
    PROVE  CallInv' /\ WaitInv' /\ StopperInv'
<1> USE DEF BaseInv, TypeOK
<1>1. /\ pc' = [pc EXCEPT ![f] = next] /\ call' = [call EXCEPT ![f] = c]
      /\ pc \in [Fibers -> Places] /\ call \in [Fibers -> CallType]
  BY Types DEF Moves
<1>2. \A g \in Fibers : /\ g # f => pc'[g] = pc[g] /\ call'[g] = call[g]
                        /\ g = f => pc'[g] = next /\ call'[g] = c
  BY <1>1
<1>3. CallInv'
  BY <1>2 DEF CallInv, Moves, Fits
<1>4. WaitInv'
  <2>1. \A d \in Fds, e \in Events : waiter[d][e] # None => waiter[d][e] \in Fibers
    BY Types
  <2>2. \A d \in Fds, e \in Events : waiter[d][e] # f
    <3>1. f # None
      BY HookAssumption DEF HookAssumption
    <3> QED
      BY <3>1 DEF WaitInv, Moves
  <2> QED
    BY <1>2, <2>1, <2>2 DEF WaitInv, Moves
<1>5. StopperInv'
  BY <1>2, ServerAssumption DEF ServerAssumption, StopperInv, Moves
<1> QED
  BY <1>3, <1>4, <1>5

LEMMA WaitsKeeps ==
    ASSUME BaseInv, NEW f \in Fibers, NEW d \in Fds, NEW e \in Events,
           Waits(f, d, e)
    PROVE  CallInv' /\ WaitInv' /\ StopperInv'
<1> USE DEF BaseInv, TypeOK
<1>1. /\ pc' = [pc EXCEPT ![f] = "waiting"] /\ call' = call
      /\ waiter' = [waiter EXCEPT ![d][e] = f]
      /\ pc \in [Fibers -> Places]
      /\ waiter \in [Fds -> [Events -> Fibers \cup {None}]]
  BY Types DEF Waits
<1>2. /\ \A g \in Fibers : pc'[g] = IF g = f THEN "waiting" ELSE pc[g]
      /\ \A x \in Fds, y \in Events :
            waiter'[x][y] = IF x = d /\ y = e THEN f ELSE waiter[x][y]
  BY <1>1
<1>3. /\ pc[f] = "armed" /\ d = call[f].fd /\ e = EventOf(call[f].op)
      /\ waiter[d][e] = None /\ f # Stopper /\ stopping' = stopping
  BY DEF Waits
<1>4. CallInv'
  BY <1>1, <1>2, <1>3 DEF CallInv
<1>5. WaitInv'
  <2>1. ASSUME NEW g \in Fibers, pc'[g] = "waiting"
        PROVE  waiter'[call'[g].fd][EventOf(call'[g].op)] = g
    <3>1. CASE g = f
      BY <1>1, <1>2, <1>3, <3>1
    <3>2. CASE g # f
      <4>1. pc[g] = "waiting"
        BY <1>2, <2>1, <3>2
      <4>2. waiter[call[g].fd][EventOf(call[g].op)] = g
        BY <4>1 DEF WaitInv
      <4>3. call[g].fd \in Fds /\ EventOf(call[g].op) \in Events
        BY <4>1, Literals DEF CallInv
      <4>4. ~(call[g].fd = d /\ EventOf(call[g].op) = e)
        BY <1>3, <4>2, HookAssumption DEF HookAssumption
      <4> QED
        BY <1>1, <1>2, <4>2, <4>3, <4>4
    <3> QED
      BY <3>1, <3>2
  <2>2. ASSUME NEW x \in Fds, NEW y \in Events, waiter'[x][y] # None
        PROVE  /\ pc'[waiter'[x][y]] = "waiting"
               /\ call'[waiter'[x][y]].fd = x
               /\ EventOf(call'[waiter'[x][y]].op) = y
    <3>1. CASE x = d /\ y = e
      BY <1>1, <1>2, <1>3, <3>1
    <3>2. CASE ~(x = d /\ y = e)
      <4>1. waiter'[x][y] = waiter[x][y] /\ waiter[x][y] \in Fibers
        BY <1>1, <1>2, <2>2, <3>2
      <4>2. /\ pc[waiter[x][y]] = "waiting"
            /\ call[waiter[x][y]].fd = x
            /\ EventOf(call[waiter[x][y]].op) = y
        BY <2>2, <4>1 DEF WaitInv
      <4> QED
        BY <1>1, <1>2, <1>3, <4>1, <4>2
    <3> QED
      BY <3>1, <3>2
  <2> QED
    BY <2>1, <2>2 DEF WaitInv
<1>6. StopperInv'
  BY <1>1, <1>2, <1>3, ServerAssumption DEF ServerAssumption, StopperInv
<1> QED
  BY <1>4, <1>5, <1>6

(* What triggering does to one fiber and to one registration: whoever is   *)
(* woken was waiting, and nobody else is taken for woken.                  *)
LEMMA TriggerOne ==
    ASSUME BaseInv, NEW d \in Fds, NEW es \in SUBSET Events, Trigger(d, es)
    PROVE  /\ \A x \in Fds, y \in Events :
                 waiter'[x][y] = IF x = d /\ y \in es THEN None ELSE waiter[x][y]
           /\ \A x \in Fds :
                 polled'[x] = IF x = d THEN Awaited(d) \ es ELSE polled[x]
           /\ \A g \in Fibers :
                 Woken(d, es)[g] = IF /\ pc[g] = "waiting"
                                      /\ call[g].fd = d
                                      /\ EventOf(call[g].op) \in es
                                   THEN "woken" ELSE pc[g]
<1> USE DEF BaseInv, TypeOK
<1>1. /\ waiter \in [Fds -> [Events -> Fibers \cup {None}]]
      /\ polled \in [Fds -> SUBSET Events]
  BY Types
<1>2. \A x \in Fds, y \in Events :
          waiter'[x][y] = IF x = d /\ y \in es THEN None ELSE waiter[x][y]
  BY <1>1 DEF Trigger
<1>3. \A x \in Fds : polled'[x] = IF x = d THEN Awaited(d) \ es ELSE polled[x]
  BY <1>1 DEF Trigger
<1>4. ASSUME NEW g \in Fibers
      PROVE  Woken(d, es)[g] = IF /\ pc[g] = "waiting"
                                  /\ call[g].fd = d
                                  /\ EventOf(call[g].op) \in es
                               THEN "woken" ELSE pc[g]
  <2>1. g # None
    BY HookAssumption DEF HookAssumption
  <2>2. (\E e \in es : g = waiter[d][e]) <=>
            pc[g] = "waiting" /\ call[g].fd = d /\ EventOf(call[g].op) \in es
    BY <2>1 DEF WaitInv
  <2> QED
    BY <2>2 DEF Woken
<1> QED
  BY <1>2, <1>3, <1>4

LEMMA WakesKeep ==
    ASSUME BaseInv, NEW d \in Fds, NEW es \in SUBSET Events, Trigger(d, es),
           UNCHANGED <<call, stopping>>, pc' = Woken(d, es)
    PROVE  CallInv' /\ WaitInv' /\ StopperInv'
<1> USE DEF BaseInv, TypeOK
<1>1. \A x \in Fds, y \in Events :
          waiter'[x][y] = IF x = d /\ y \in es THEN None ELSE waiter[x][y]
  BY TriggerOne, ZenonT(60)
<1>2. \A g \in Fibers : pc'[g] = IF /\ pc[g] = "waiting"
                                    /\ call[g].fd = d
                                    /\ EventOf(call[g].op) \in es
                                 THEN "woken" ELSE pc[g]
  <2>1. \A g \in Fibers :
            Woken(d, es)[g] = IF /\ pc[g] = "waiting"
                                 /\ call[g].fd = d
                                 /\ EventOf(call[g].op) \in es
                              THEN "woken" ELSE pc[g]
    BY TriggerOne
  <2> QED
    BY <2>1
<1>3. CallInv'
  BY <1>2 DEF CallInv
<1>4. WaitInv'
  <2>1. ASSUME NEW g \in Fibers, pc'[g] = "waiting"
        PROVE  waiter'[call'[g].fd][EventOf(call'[g].op)] = g
    <3>1. /\ pc[g] = "waiting"
          /\ ~(call[g].fd = d /\ EventOf(call[g].op) \in es)
      BY <1>2, <2>1
    <3>2. call[g].fd \in Fds /\ EventOf(call[g].op) \in Events
      BY <3>1, Literals DEF CallInv
    <3> QED
      BY <1>1, <3>1, <3>2 DEF WaitInv
  <2>2. ASSUME NEW x \in Fds, NEW y \in Events, waiter'[x][y] # None
        PROVE  /\ pc'[waiter'[x][y]] = "waiting"
               /\ call'[waiter'[x][y]].fd = x
               /\ EventOf(call'[waiter'[x][y]].op) = y
    <3>1. /\ waiter'[x][y] = waiter[x][y] /\ ~(x = d /\ y \in es)
      BY <1>1, <2>2
    <3>2. waiter[x][y] \in Fibers
      BY <2>2, <3>1, Types
    <3>3. /\ pc[waiter[x][y]] = "waiting"
          /\ call[waiter[x][y]].fd = x
          /\ EventOf(call[waiter[x][y]].op) = y
      BY <2>2, <3>1 DEF WaitInv
    <3> QED
      BY <1>2, <3>1, <3>2, <3>3
  <2> QED
    BY <2>1, <2>2 DEF WaitInv
<1>5. StopperInv'
  BY <1>2, ServerAssumption DEF ServerAssumption, StopperInv
<1> QED
  BY <1>3, <1>4, <1>5

(* The fiber that closes was not waiting, and is not woken.                *)
LEMMA ClosesOne ==
    ASSUME BaseInv, NEW f \in Fibers, NEW d \in Fds, NEW next \in Places,
           Closes(f, d, next)
    PROVE  /\ CancelAll(d) \in SUBSET Events
           /\ Trigger(d, CancelAll(d))
           /\ \A x \in Fds, y \in Events :
                 waiter'[x][y] = IF x = d /\ y \in CancelAll(d)
                                 THEN None ELSE waiter[x][y]
           /\ \A g \in Fibers \ {f} :
                 /\ call'[g] = call[g]
                 /\ pc'[g] = IF /\ pc[g] = "waiting"
                                /\ call[g].fd = d
                                /\ EventOf(call[g].op) \in CancelAll(d)
                             THEN "woken" ELSE pc[g]
           /\ pc'[f] = next
           /\ call'[f].op = "close" /\ call'[f].fd = d
<1> USE DEF BaseInv, TypeOK
<1>1. CancelAll(d) \in SUBSET Events
  BY DEF CancelAll, Awaited
<1>2. Trigger(d, CancelAll(d))
  BY DEF Closes, Cancel
<1>3. \A x \in Fds, y \in Events :
          waiter'[x][y] = IF x = d /\ y \in CancelAll(d)
                          THEN None ELSE waiter[x][y]
  BY <1>1, <1>2, TriggerOne, ZenonT(60)
<1>4. Woken(d, CancelAll(d)) \in [Fibers -> Places]
  BY <1>1, <1>2, TriggerTypes
<1>5. pc' = [Woken(d, CancelAll(d)) EXCEPT ![f] = next]
  BY DEF Closes, Cancel
<1>6. pc'[f] = next /\ \A g \in Fibers \ {f} : pc'[g] = Woken(d, CancelAll(d))[g]
  BY <1>4, <1>5
<1>7. \A g \in Fibers \ {f} :
          pc'[g] = IF /\ pc[g] = "waiting"
                      /\ call[g].fd = d
                      /\ EventOf(call[g].op) \in CancelAll(d)
                   THEN "woken" ELSE pc[g]
  <2>1. \A g \in Fibers :
            Woken(d, CancelAll(d))[g] =
                IF /\ pc[g] = "waiting"
                   /\ call[g].fd = d
                   /\ EventOf(call[g].op) \in CancelAll(d)
                THEN "woken" ELSE pc[g]
    BY <1>1, <1>2, TriggerOne, ZenonT(60)
  <2> QED
    BY <1>6, <2>1
<1>8. call' = [call EXCEPT ![f] = [op |-> "close", fd |-> d, timed |-> FALSE]]
  BY DEF Closes, Cancel
<1>9. /\ \A g \in Fibers \ {f} : call'[g] = call[g]
      /\ call'[f].op = "close" /\ call'[f].fd = d
  BY <1>8, Types
<1> QED
  BY <1>1, <1>2, <1>3, <1>6, <1>7, <1>9

LEMMA ClosesKeep ==
    ASSUME BaseInv, NEW f \in Fibers, NEW d \in Fds, NEW next \in Places,
           Closes(f, d, next)
    PROVE  CallInv' /\ WaitInv' /\ StopperInv'
<1> USE DEF BaseInv, TypeOK
<1>1. \A x \in Fds, y \in Events :
          waiter'[x][y] = IF x = d /\ y \in CancelAll(d)
                          THEN None ELSE waiter[x][y]
  BY ClosesOne
<1>2. \A g \in Fibers \ {f} :
         /\ call'[g] = call[g]
         /\ pc'[g] = IF /\ pc[g] = "waiting"
                        /\ call[g].fd = d
                        /\ EventOf(call[g].op) \in CancelAll(d)
                     THEN "woken" ELSE pc[g]
  BY ClosesOne
<1>3. pc'[f] = next /\ call'[f].op = "close" /\ call'[f].fd = d
  BY ClosesOne
<1>4. next \in {"closing", "stopping"} /\ pc[f] \in {"idle", "stopping"}
  BY DEF Closes
<1>5. CallInv'
  BY <1>2, <1>3, <1>4 DEF CallInv
<1>6. WaitInv'
  <2>1. ASSUME NEW g \in Fibers, pc'[g] = "waiting"
        PROVE  waiter'[call'[g].fd][EventOf(call'[g].op)] = g
    <3>1. /\ g # f /\ pc[g] = "waiting" /\ call'[g] = call[g]
          /\ ~(call[g].fd = d /\ EventOf(call[g].op) \in CancelAll(d))
      BY <1>2, <1>3, <1>4, <2>1
    <3>2. call[g].fd \in Fds /\ EventOf(call[g].op) \in Events
      BY <3>1, Literals DEF CallInv
    <3> QED
      BY <1>1, <3>1, <3>2 DEF WaitInv
  <2>2. ASSUME NEW x \in Fds, NEW y \in Events, waiter'[x][y] # None
        PROVE  /\ pc'[waiter'[x][y]] = "waiting"
               /\ call'[waiter'[x][y]].fd = x
               /\ EventOf(call'[waiter'[x][y]].op) = y
    <3>1. /\ waiter'[x][y] = waiter[x][y] /\ ~(x = d /\ y \in CancelAll(d))
      BY <1>1, <2>2
    <3>2. waiter[x][y] \in Fibers
      BY <2>2, <3>1, Types
    <3>3. /\ pc[waiter[x][y]] = "waiting"
          /\ call[waiter[x][y]].fd = x
          /\ EventOf(call[waiter[x][y]].op) = y
      BY <2>2, <3>1 DEF WaitInv
    <3>4. waiter[x][y] # f
      BY <1>4, <3>3
    <3> QED
      BY <1>2, <3>1, <3>2, <3>3, <3>4
  <2> QED
    BY <2>1, <2>2 DEF WaitInv
<1>7. StopperInv'
  <2>1. Stopper \in Fibers
    BY ServerAssumption DEF ServerAssumption
  <2>2. CASE f = Stopper
    BY <1>3, <1>4, <2>2 DEF Closes, StopperInv
  <2>3. CASE f # Stopper
    BY <1>2, <2>1, <2>3 DEF Closes, StopperInv
  <2> QED
    BY <2>2, <2>3
<1> QED
  BY <1>5, <1>6, <1>7

LEMMA BaseStep ==
    ASSUME BaseInv, [Next]_vars
    PROVE  BaseInv'
<1> USE DEF BaseInv
<1>1. TypeOK'
  <2> USE DEF TypeOK
  <2>1. HookTypeOK'
    <3>1. CASE UNCHANGED hookVars
      BY <3>1, Types, TypesAfter DEF hookVars, fibers, kernel
    <3>2. Stopper \in Fibers /\ Acceptor \in Fibers /\ Listen \in Fds
      BY ServerAssumption, HookAssumption DEF ServerAssumption, HookAssumption
    <3>3. CASE stopCancel \/ stopClose
      BY <3>2, <3>3, CancelTypes DEF stopCancel, stopClose, Places
    <3>4. CASE acceptNext \/ accepted
      <4>1. "accept" \in Ops
        BY DEF Ops
      <4> QED
        BY <3>2, <3>4, <4>1, BeginTypes, GoOnTypes DEF acceptNext, accepted
    <3>5. CASE \E f \in Fibers : Server(f)
      BY <3>5, GoOnTypes DEF Server
    <3>6. CASE \E f \in Handlers : Handler(f)
      BY <3>6, BeginTypes, GoOnTypes DEF Handlers, Handler
    <3>7. CASE Environment
      BY <3>7, EnvironmentTypes
    <3> QED
      BY <3>1, <3>3, <3>4, <3>5, <3>6, <3>7
      DEF Next, vars, start, stop, acceptEnd, stopClear, AcceptLoop, StopTask
  <2>2. m_isStop' \in BOOLEAN
    <3>1. m_isStop' = m_isStop \/ m_isStop' = TRUE \/ m_isStop' = FALSE
      BY DEF Next, vars, serverVars, start, stop, acceptNext, acceptEnd, accepted,
             stopCancel, stopClose, stopClear, AcceptLoop, StopTask, Server, Handler
    <3> QED
      BY <3>1, Zenon
  <2>3. /\ m_socks' \subseteq {Listen}
        /\ accepting' \in {"no", "loop", "ended"}
        /\ stopping' \in {"no", "scheduled", "cancelled", "closing", "done"}
    BY DEF Next, vars, serverVars, start, stop, acceptNext, acceptEnd, accepted,
           stopCancel, stopClose, stopClear, AcceptLoop, StopTask, Server, Handler
  <2> QED
    BY <2>1, <2>2, <2>3
<1>2. CASE Calm
  BY <1>1, <1>2 DEF Calm, CallInv, WaitInv, StopperInv
<1>3. ASSUME NEW f \in Fibers, NEW next \in Places, NEW c \in CallType,
             Moves(f, next, c)
      PROVE  BaseInv'
  BY <1>1, <1>3, MovesKeep
<1>4. "idle" \in Places /\ "made" \in Places /\ "deleted" \in Places
  BY DEF Places
<1>5. \A d \in Fds : [op |-> "socket", fd |-> d, timed |-> FALSE] \in CallType
  BY CallTypes
<1>6. \A f \in Fibers : call[f] \in CallType
  BY Types DEF TypeOK
<1>7. ASSUME NEW f \in Fibers, NEW d \in Fds, NEW e \in Events, Waits(f, d, e)
      PROVE  BaseInv'
  BY <1>1, <1>7, WaitsKeeps
<1>8. ASSUME NEW d \in Fds, NEW es \in SUBSET Events, Wakes(d, es)
      PROVE  BaseInv'
  BY <1>1, <1>8, WakesKeep DEF Wakes
<1>9. ASSUME NEW f \in Fibers, NEW d \in Fds, NEW next \in Places,
             Closes(f, d, next)
      PROVE  BaseInv'
  BY <1>1, <1>9, ClosesKeep
<1> QED
  BY <1>2, <1>3, <1>4, <1>5, <1>6, <1>7, <1>8, <1>9, Steps, Literals
  DEF StepKinds, Plain, Makes

LEMMA BaseInit == Init => BaseInv
<1> SUFFICES ASSUME Init PROVE BaseInv
  OBVIOUS
<1> USE HookAssumption, ServerAssumption
        DEF HookAssumption, ServerAssumption, Init, HookInit
<1>1. HookTypeOK
  <2>1. 0 \in 0 .. MaxGen /\ 1 \in 0 .. MaxGen
    OBVIOUS
  <2>2. NoCtx \in CtxType /\ [NoCtx EXCEPT !.gen = 1] \in CtxType
    BY <2>1 DEF NoCtx, CtxType
  <2>3. m_data \in [Fds -> CtxType]
    BY <2>2
  <2>4. desc \in [Fds -> DescType]
    BY <2>1 DEF DescType
  <2>5. call \in [Fibers -> CallType] /\ pc \in [Fibers -> Places]
    BY Literals DEF Places
  <2> QED
    BY <2>3, <2>4, <2>5, Types
<1>2. TypeOK
  <2>1. m_isStop \in BOOLEAN
    BY Zenon
  <2> QED
    BY <1>1, <2>1 DEF TypeOK
<1>3. CallInv /\ StopperInv
  BY DEF CallInv, StopperInv
<1>4. WaitInv
  BY DEF WaitInv
<1> QED
  BY <1>2, <1>3, <1>4 DEF BaseInv

LEMMA BaseAlways == Spec => []BaseInv
<1>1. BaseInv /\ [Next]_vars => BaseInv'
  BY BaseStep
<1> QED
  BY <1>1, BaseInit, PTL DEF Spec

(* Every variable keeps its type, whatever the user does: a call never     *)
(* loses its descriptor, and a context is never made for a number that has *)
(* none.                                                                   *)
THEOREM HookTypes == Spec => []TypeOK
<1>1. BaseInv => TypeOK
  BY DEF BaseInv
<1> QED
  BY <1>1, BaseAlways, PTL

-----------------------------------------------------------------------------
(* Who may use a descriptor *)

(* The places that go with opening and closing a descriptor.               *)
LEMMA Closers ==
    ASSUME BaseInv, NEW g \in Fibers
    PROVE  /\ call[g].op = "close" => pc[g] \in {"closing", "deleted", "stopping"}
           /\ call[g].op = "socket" => pc[g] = "made"
           /\ pc[g] \notin {"made", "closing", "deleted", "stopping"} =>
                  call[g].op \notin {"socket", "close"}
<1>1. pc[g] \in Places
  BY Types DEF BaseInv, TypeOK
<1> QED
  BY <1>1, Literals DEF BaseInv, CallInv, Places

(* The steps of one fiber, on what it and another one share.               *)
LEMMA OthersStay ==
    ASSUME BaseInv, NEW f \in Fibers, NEW next, NEW c, Moves(f, next, c)
    PROVE  /\ pc'[f] = next /\ call'[f] = c
           /\ \A g \in Fibers : g # f => pc'[g] = pc[g] /\ call'[g] = call[g]
  BY Types DEF BaseInv, TypeOK, Moves

(* A fiber that can run shares no descriptor with one that is closing it.  *)
LEMMA NotUnderClose ==
    ASSUME BaseInv, UseInv, NEW f \in Fibers, NEW g \in Fibers, f # g,
           MayRun(f), call[g].fd = call[f].fd, call[f].fd # None
    PROVE  call[g].op # "close"
<1> SUFFICES ASSUME call[g].op = "close" PROVE FALSE
  OBVIOUS
<1>1. workers = "one"
  BY DEF UseInv, Compatible
<1>2. Running(g)
  BY Closers DEF Running
<1> QED
  BY <1>1, <1>2 DEF MayRun

LEMMA UseSame ==
    ASSUME BaseInv, UseInv, NEW f \in Fibers, NEW next, NEW c,
           Moves(f, next, c), c = call[f]
    PROVE  UseInv'
<1>1. /\ pc'[f] = next /\ call'[f] = call[f] /\ workers' = workers /\ MayRun(f)
      /\ \A g \in Fibers : g # f => pc'[g] = pc[g] /\ call'[g] = call[g]
  BY OthersStay DEF Moves
<1>2. \A g \in Fibers : g # f /\ call[g].fd = call[f].fd /\ call[f].fd # None =>
          call[g].op # "close"
  BY <1>1, NotUnderClose
<1> QED
  BY <1>1, <1>2 DEF UseInv, Compatible

LEMMA UseReturn ==
    ASSUME BaseInv, UseInv, NEW f \in Fibers, NEW next, Moves(f, next, NoCall)
    PROVE  UseInv'
<1>1. /\ call'[f] = NoCall /\ workers' = workers
      /\ \A g \in Fibers : g # f => pc'[g] = pc[g] /\ call'[g] = call[g]
  BY OthersStay DEF Moves
<1> QED
  BY <1>1, Literals DEF UseInv, Compatible

(* A new call: on a descriptor that nobody is opening or closing, and that *)
(* nobody uses in this direction.                                          *)
LEMMA UseNew ==
    ASSUME BaseInv, UseInv, NEW f \in Fibers, NEW next, NEW c,
           Moves(f, next, c), c.op \in Ops \cup {"socket"},
           \A g \in Fibers : g # f /\ call[g].fd = c.fd =>
               /\ c.op # "socket" /\ call[g].op \notin {"socket", "close"}
               /\ EventOf(call[g].op) # EventOf(c.op)
    PROVE  UseInv'
<1>1. /\ call'[f] = c /\ workers' = workers
      /\ \A g \in Fibers : g # f => pc'[g] = pc[g] /\ call'[g] = call[g]
  <2>1. workers' = workers
    BY DEF Moves
  <2>2. pc'[f] = next /\ call'[f] = c
    BY OthersStay
  <2>3. \A g \in Fibers : g # f => pc'[g] = pc[g] /\ call'[g] = call[g]
    BY OthersStay
  <2> QED
    BY <2>1, <2>2, <2>3
<1>2. c.op # "close"
  BY Literals
<1> QED
  BY <1>1, <1>2 DEF UseInv, Compatible

LEMMA UsePlain ==
    ASSUME Disciplined, BaseInv, UseInv, ContextInv, NEW f \in Fibers,
           NEW next \in Places, NEW c \in CallType, Plain(f, next, c)
    PROVE  UseInv'
<1>1. Moves(f, next, c)
  BY DEF Plain
<1>2. CASE c = NoCall
  BY <1>1, <1>2, UseReturn
<1>3. CASE c = call[f]
  BY <1>1, <1>3, UseSame
<1>4. CASE c.op \in Ops /\ c.fd \in Fds /\ MayCall(c.fd, EventOf(c.op))
  <2>1. /\ ~InFlux(c.fd)
        /\ \A g \in Using(c.fd) : EventOf(call[g].op) # EventOf(c.op)
    BY <1>4 DEF MayCall
  <2>2. \A g \in Fibers : call[g].fd = c.fd =>
            /\ call[g].op \notin {"socket", "close"}
            /\ EventOf(call[g].op) # EventOf(c.op)
    BY <2>1 DEF InFlux, Using
  <2>3. c.op # "socket"
    BY <1>4, Literals
  <2> QED
    BY <1>1, <1>4, <2>2, <2>3, UseNew
<1>5. CASE c.op = "close" /\ c.fd \in Fds /\ MayClose(c.fd) /\ m_data[c.fd] = NoCtx
  <2>1. ~InFlux(c.fd)
    BY <1>5 DEF MayClose
  <2>2. desc[c.fd].open
    BY <2>1 DEF InFlux
  <2>3. m_data[c.fd].gen # 0
    BY <1>5, <2>1, <2>2 DEF ContextInv
  <2> QED
    BY <1>5, <2>3, Literals
<1> QED
  BY <1>2, <1>3, <1>4, <1>5 DEF Plain

LEMMA UseMakes ==
    ASSUME Disciplined, BaseInv, UseInv, NEW f \in Fibers, NEW d \in Fds,
           Makes(f, d)
    PROVE  UseInv'
<1> DEFINE c == [op |-> "socket", fd |-> d, timed |-> FALSE]
<1>1. Moves(f, "made", c) /\ c.op = "socket" /\ c.fd = d
  BY DEF Makes
<1>2. \A g \in Fibers : call[g].fd # d
  BY DEF Makes, MayMake, Using
<1> HIDE DEF c
<1> QED
  BY <1>1, <1>2, UseNew

(* With a disciplined user a fiber closes a descriptor under another only  *)
(* on one worker, where the other one waits or has been woken; cancelAll   *)
(* reaches it if it waits.                                                 *)
LEMMA ClosedUnder ==
    ASSUME Disciplined, BaseInv, UseInv, PollInv, NEW f \in Fibers,
           NEW d \in Fds, NEW next \in Places, Closes(f, d, next),
           NEW g \in Fibers, g # f, call[g].fd = d
    PROVE  workers = "one" /\ pc'[g] = "woken" /\ call[g].op \in Ops
<1> USE DEF BaseInv, TypeOK
<1>1. pc'[g] = IF /\ pc[g] = "waiting"
                  /\ call[g].fd = d
                  /\ EventOf(call[g].op) \in CancelAll(d)
               THEN "woken" ELSE pc[g]
  BY ClosesOne
<1>2. d # None
  BY HookAssumption DEF HookAssumption
<1>3. CASE pc[f] = "stopping" /\ call[f].fd = d
  <2>1. call[f].op = "close"
    BY <1>3 DEF CallInv
  <2>2. workers = "one" /\ pc[g] = "woken"
    BY <1>2, <1>3, <2>1 DEF UseInv, Compatible
  <2> QED
    BY <1>1, <2>2 DEF CallInv
<1>4. CASE pc[f] = "idle" /\ MayClose(d)
  <2>1. ~InFlux(d) /\ workers = "one"
    <3>1. g \in Using(d)
      BY DEF Using
    <3> QED
      BY <1>4, <3>1, Types DEF MayClose
  <2>2. desc[d].open /\ call[g].op \notin {"socket", "close"}
    BY <2>1 DEF InFlux, Using
  <2>3. ~Running(g)
    BY <2>1 DEF Closes, MayRun
  <2>4. pc[g] \in {"waiting", "woken"}
    <3>1. pc[g] \in Places
      BY Types
    <3>2. call[g] # NoCall
      BY <1>2, Literals
    <3> QED
      BY <2>3, <3>1, <3>2 DEF Running, Places, CallInv
  <2>5. call[g].op \in Ops
    BY <2>4 DEF CallInv
  <2>6. ASSUME pc[g] = "waiting" PROVE EventOf(call[g].op) \in CancelAll(d)
    <3>1. EventOf(call[g].op) \in Events
      BY <2>5, Literals
    <3>2. waiter[d][EventOf(call[g].op)] = g /\ g # None
      BY <2>6, HookAssumption DEF WaitInv, HookAssumption
    <3>3. EventOf(call[g].op) \in Awaited(d)
      BY <3>1, <3>2 DEF Awaited
    <3>4. CtlWorks("DEL", d)
      BY <2>2, <3>3 DEF CtlWorks, PollInv
    <3> QED
      BY <3>3, <3>4 DEF CancelAll
  <2> QED
    BY <1>1, <2>1, <2>4, <2>5, <2>6
<1> QED
  BY <1>3, <1>4 DEF Closes

LEMMA UseCloses ==
    ASSUME Disciplined, BaseInv, UseInv, PollInv, NEW f \in Fibers,
           NEW d \in Fds, NEW next \in Places, Closes(f, d, next)
    PROVE  UseInv'
<1>1. \A g \in Fibers \ {f} :
          /\ call'[g] = call[g]
          /\ pc[g] = "woken" => pc'[g] = "woken"
  BY ClosesOne
<1>2. call'[f].op = "close" /\ call'[f].fd = d
  BY ClosesOne
<1>3. \A g \in Fibers : g # f /\ call[g].fd = d =>
          workers = "one" /\ pc'[g] = "woken" /\ call[g].op \in Ops
  BY ClosedUnder
<1>4. workers' = workers
  BY DEF Closes, Cancel
<1>5. \A op \in Ops : op # "socket" /\ op # "close"
  BY Literals
<1>6. "close" \notin Ops
  BY DEF Ops
<1> QED
  BY <1>1, <1>2, <1>3, <1>4, <1>5, <1>6 DEF UseInv, Compatible

LEMMA UseStep ==
    ASSUME Disciplined, BaseInv, UseInv, PollInv, ContextInv, [Next]_vars
    PROVE  UseInv'
<1>1. CASE Calm
  BY <1>1 DEF Calm, UseInv, Compatible
<1>2. ASSUME NEW f \in Fibers, NEW d \in Fds, NEW e \in Events, Waits(f, d, e)
      PROVE  UseInv'
  <2>1. \A g \in Fibers : pc[g] = "woken" => pc'[g] = "woken"
    BY <1>2, Types DEF Waits, BaseInv, TypeOK
  <2> QED
    BY <1>2, <2>1 DEF Waits, UseInv, Compatible
<1>3. ASSUME NEW d \in Fds, NEW es \in SUBSET Events, Wakes(d, es)
      PROVE  UseInv'
  <2>1. \A g \in Fibers : pc[g] = "woken" => pc'[g] = "woken"
    BY <1>3 DEF Wakes, Woken
  <2> QED
    BY <1>3, <2>1 DEF Wakes, UseInv, Compatible
<1> QED
  BY <1>1, <1>2, <1>3, Steps, UsePlain, UseMakes, UseReturn, UseSame, UseCloses
  DEF StepKinds

-----------------------------------------------------------------------------
(* What epoll watches *)

LEMMA PollStep ==
    ASSUME BaseInv, UseInv, PollInv, [Next]_vars
    PROVE  PollInv'
<1> USE DEF BaseInv, TypeOK
<1>1. ASSUME UNCHANGED <<waiter, polled>>,
             \A d \in Fds : desc[d].open => desc'[d].open
      PROVE  PollInv'
  BY <1>1 DEF PollInv, Awaited
<1>2. CASE Calm
  <2>1. UNCHANGED <<waiter, polled>>
    BY <1>2 DEF Calm
  <2>2. \A d \in Fds : desc[d].open => desc'[d].open
    BY <1>2 DEF Calm
  <2> QED
    BY <1>1, <2>1, <2>2
<1>3. ASSUME \E f \in Fibers, next \in Places, c \in CallType : Plain(f, next, c)
      PROVE  PollInv'
  <2>1. UNCHANGED <<waiter, polled, desc>>
    BY <1>3 DEF Plain, Moves
  <2> QED
    BY <1>1, <2>1
<1>4. ASSUME NEW f \in Fibers, NEW d \in Fds, Makes(f, d) PROVE PollInv'
  <2>1. UNCHANGED <<waiter, polled>> /\ desc' = Opened(d)
    BY <1>4 DEF Makes, Moves
  <2>2. \A x \in Fds : desc[x].open => desc'[x].open
    BY <2>1, Types DEF Opened
  <2> QED
    BY <1>1, <2>1, <2>2
<1>5. ASSUME NEW f \in Fibers, NEW timed \in BOOLEAN, MakeCtx(f, timed)
      PROVE  PollInv'
  <2>1. UNCHANGED <<waiter, polled>>
    BY <1>5 DEF MakeCtx
  <2>2. \A x \in Fds : desc[x].open => desc'[x].open
    BY <1>5, Types DEF MakeCtx, DescType
  <2> QED
    BY <1>1, <2>1, <2>2
<1>6. ASSUME NEW f \in Fibers, CloseDel(f) PROVE PollInv'
  BY <1>1, <1>6 DEF CloseDel, kernel
<1>7. ASSUME NEW f \in Fibers, CloseFd(f) PROVE PollInv'
  <2>0. call[f].fd \in Fds
    BY <1>7 DEF CloseFd, CallInv
  <2> PICK d \in Fds : d = call[f].fd
    BY <2>0
  <2>1. /\ d = call[f].fd /\ call[f].op = "close" /\ pc[f] = "deleted"
        /\ polled' = [polled EXCEPT ![d] = {}] /\ waiter' = waiter
        /\ desc' = [desc EXCEPT ![d].open = FALSE, ![d].nonblock = FALSE]
    BY <1>7 DEF CloseFd, CallInv
  <2>2. d # None
    BY <2>1, HookAssumption DEF HookAssumption
  <2>3. Awaited(d) = {}
    <3> SUFFICES ASSUME NEW e \in Events, waiter[d][e] # None PROVE FALSE
      BY DEF Awaited
    <3>1. waiter[d][e] \in Fibers
      BY <2>1, Types
    <3>2. pc[waiter[d][e]] = "waiting" /\ call[waiter[d][e]].fd = d
      BY <2>1 DEF WaitInv
    <3> QED
      BY <2>1, <2>2, <3>1, <3>2 DEF UseInv, Compatible
  <2>4. Awaited(d)' = {}
    BY <2>1, <2>3 DEF Awaited
  <2>5. \A x \in Fds : x # d => /\ polled'[x] = polled[x] /\ desc'[x] = desc[x]
                                /\ Awaited(x)' = Awaited(x)
    BY <2>1, Types DEF Awaited
  <2>6. polled'[d] = {}
    BY <2>1, Types
  <2> QED
    BY <2>4, <2>5, <2>6 DEF PollInv
<1>8. ASSUME NEW f \in Fibers, NEW d \in Fds, NEW e \in Events, Waits(f, d, e)
      PROVE  PollInv'
  <2>1. /\ waiter' = [waiter EXCEPT ![d][e] = f]
        /\ polled' = [polled EXCEPT ![d] = @ \cup {e}]
        /\ desc' = desc /\ desc[d].open
    BY <1>8 DEF Waits
  <2>2. f # None
    BY HookAssumption DEF HookAssumption
  <2>3. \A x \in Fds, y \in Events :
            waiter'[x][y] = IF x = d /\ y = e THEN f ELSE waiter[x][y]
    BY <2>1, Types
  <2>4. \A x \in Fds : Awaited(x)' = IF x = d THEN Awaited(x) \cup {e} ELSE Awaited(x)
    BY <2>2, <2>3 DEF Awaited
  <2>5. \A x \in Fds : polled'[x] = IF x = d THEN polled[x] \cup {e} ELSE polled[x]
    BY <2>1, Types
  <2> QED
    BY <2>1, <2>4, <2>5 DEF PollInv
<1>9. ASSUME NEW d \in Fds, NEW es \in SUBSET Events, Trigger(d, es),
             UNCHANGED desc
      PROVE  PollInv'
  <2>1. \A x \in Fds, y \in Events :
            waiter'[x][y] = IF x = d /\ y \in es THEN None ELSE waiter[x][y]
    BY <1>9, TriggerOne, ZenonT(60)
  <2>2. \A x \in Fds : polled'[x] = IF x = d THEN Awaited(d) \ es ELSE polled[x]
    BY <1>9, TriggerOne
  <2>3. \A x \in Fds : Awaited(x)' = IF x = d THEN Awaited(x) \ es ELSE Awaited(x)
    BY <2>1 DEF Awaited
  <2> QED
    BY <1>9, <2>2, <2>3 DEF PollInv
<1>10. ASSUME NEW d \in Fds, NEW es \in SUBSET Events, Wakes(d, es)
       PROVE  PollInv'
  BY <1>9, <1>10 DEF Wakes
<1>11. ASSUME NEW f \in Fibers, NEW d \in Fds, NEW next \in Places,
              Closes(f, d, next)
       PROVE  PollInv'
  <2>1. CancelAll(d) \in SUBSET Events /\ Trigger(d, CancelAll(d))
    BY <1>11, ClosesOne
  <2>2. UNCHANGED desc
    BY <1>11 DEF Closes, Cancel
  <2> QED
    BY <1>9, <2>1, <2>2
<1> QED
  BY <1>2, <1>3, <1>4, <1>5, <1>6, <1>7, <1>8, <1>10, <1>11, Steps DEF StepKinds

-----------------------------------------------------------------------------
(* The contexts of descriptors *)

(* A step of a fiber that is neither opening nor closing d does not end    *)
(* the time in which nobody may use it.                                    *)
LEMMA FluxMoves ==
    ASSUME BaseInv, NEW f \in Fibers, NEW next, NEW c, Moves(f, next, c),
           NEW d \in Fds, desc'[d].open => desc[d].open,
           call[f].op \in {"socket", "close"} => call[f].fd # d,
           ~InFlux(d)'
    PROVE  ~InFlux(d)
<1>1. \A g \in Fibers : g # f => call'[g] = call[g]
  BY OthersStay
<1>2. desc'[d].open /\ \A g \in Fibers :
          call'[g].fd = d => call'[g].op \notin {"socket", "close"}
  BY DEF InFlux, Using
<1>3. \A g \in Fibers : call[g].fd = d => call[g].op \notin {"socket", "close"}
  BY <1>1, <1>2
<1> QED
  BY <1>2, <1>3 DEF InFlux, Using

(* A close begins this time, for its descriptor, and changes it for none   *)
(* else.                                                                   *)
LEMMA FluxCloses ==
    ASSUME BaseInv, NEW f \in Fibers, NEW d \in Fds, NEW next \in Places,
           Closes(f, d, next), NEW x \in Fds, ~InFlux(x)'
    PROVE  ~InFlux(x)
<1>1. desc' = desc
  BY DEF Closes, Cancel
<1>2. call'[f].op = "close" /\ call'[f].fd = d
  BY ClosesOne
<1>3. \A g \in Fibers \ {f} : call'[g] = call[g]
  BY ClosesOne
<1>4. x # d
  BY <1>2 DEF InFlux, Using
<1>5. desc[x].open /\ \A g \in Fibers \ {f} :
          call[g].fd = x => call[g].op \notin {"socket", "close"}
  BY <1>1, <1>3 DEF InFlux, Using
<1>6. call[f].fd # x
  <2>1. x # None
    BY HookAssumption DEF HookAssumption
  <2>2. call[f] = NoCall \/ call[f].fd = d
    BY DEF Closes, BaseInv, CallInv
  <2> QED
    BY <1>4, <2>1, <2>2, Literals
<1> QED
  BY <1>5, <1>6 DEF InFlux, Using

(* Who is opening or closing a descriptor keeps it in flux.                *)
LEMMA FluxOwner ==
    ASSUME BaseInv, NEW f \in Fibers,
           pc[f] \in {"made", "closing", "deleted", "stopping"}
    PROVE  /\ call[f].fd \in Fds /\ call[f].op \in {"socket", "close"}
           /\ InFlux(call[f].fd)
<1>1. call[f].fd \in Fds /\ call[f].op \in {"socket", "close"}
  BY DEF BaseInv, CallInv
<1> QED
  BY <1>1 DEF InFlux, Using

(* A descriptor is opened or closed by one fiber at a time.                *)
LEMMA OneOwner ==
    ASSUME BaseInv, UseInv, NEW f \in Fibers, NEW g \in Fibers,
           pc[f] \in {"made", "closing", "deleted", "stopping"},
           pc[g] \in {"made", "closing", "deleted", "stopping"},
           call[f].fd = call[g].fd
    PROVE  f = g
<1>1. call[f].fd # None
  BY FluxOwner, HookAssumption DEF HookAssumption
<1>2. call[f].op \in {"socket", "close"}
  BY FluxOwner
<1> QED
  BY <1>1, <1>2 DEF UseInv, Compatible

LEMMA ContextCalm ==
    ASSUME Disciplined, BaseInv, ContextInv, Calm
    PROVE  ContextInv'
<1>1. /\ UNCHANGED <<pc, call>>
      /\ \A d \in Fds :
            /\ desc'[d].open = desc[d].open
            /\ desc'[d].gen = desc[d].gen
            /\ m_data'[d].gen = m_data[d].gen
            /\ m_data'[d] = m_data[d] \/ ~InFlux(d)
  BY DEF Calm
<1>2. \A d \in Fds : InFlux(d)' <=> InFlux(d)
  BY <1>1 DEF InFlux, Using
<1>3. ASSUME NEW d \in Fds
      PROVE  /\ desc'[d].open => desc'[d].gen # 0
             /\ ~desc'[d].open => m_data'[d] = NoCtx
             /\ ~InFlux(d)' => m_data'[d].gen = desc'[d].gen
  <2>1. ~InFlux(d) => desc[d].open
    BY DEF InFlux
  <2> QED
    BY <1>1, <1>2, <2>1 DEF ContextInv
<1>4. ASSUME NEW f \in Fibers, pc[f] \in {"made", "closing", "deleted", "stopping"}
      PROVE  /\ desc'[call[f].fd].open
             /\ pc[f] \in {"made", "deleted"} => m_data'[call[f].fd] = NoCtx
  <2>1. call[f].fd \in Fds /\ InFlux(call[f].fd)
    BY <1>4, FluxOwner
  <2> QED
    BY <1>1, <1>4, <2>1 DEF ContextInv
<1> QED
  BY <1>1, <1>3, <1>4 DEF ContextInv

LEMMA ContextPlain ==
    ASSUME Disciplined, BaseInv, ContextInv, NEW f \in Fibers,
           NEW next \in Places, NEW c \in CallType, Plain(f, next, c)
    PROVE  ContextInv'
<1>1. /\ Moves(f, next, c) /\ UNCHANGED <<m_data, desc>>
      /\ pc[f] \notin {"made", "closing", "deleted", "stopping"}
      /\ next \notin {"made", "closing", "stopping"}
  BY DEF Plain
<1>2. pc'[f] = next /\ call'[f] = c
  BY <1>1, OthersStay
<1>3. \A g \in Fibers : g # f => pc'[g] = pc[g] /\ call'[g] = call[g]
  BY <1>1, OthersStay
<1>4. call[f].op \notin {"socket", "close"}
  BY <1>1, Closers
<1>5. \A d \in Fds : ~InFlux(d)' => ~InFlux(d)
  BY <1>1, <1>4, FluxMoves
<1>6. next # "deleted"
  <2> SUFFICES ASSUME next = "deleted" PROVE FALSE
    OBVIOUS
  <2>1. c.op = "close" /\ m_data[c.fd] = NoCtx
    BY DEF Plain
  <2>2. c.fd \in Fds /\ MayClose(c.fd)
    BY <1>4, <2>1, Literals DEF Plain
  <2>3. ~InFlux(c.fd)
    BY <2>2 DEF MayClose
  <2>4. desc[c.fd].open
    BY <2>3 DEF InFlux
  <2> QED
    BY <2>1, <2>2, <2>3, <2>4, Literals DEF ContextInv
<1> QED
  BY <1>1, <1>2, <1>3, <1>5, <1>6 DEF ContextInv

LEMMA ContextMakes ==
    ASSUME Disciplined, BaseInv, ContextInv, NEW f \in Fibers, NEW d \in Fds,
           Makes(f, d)
    PROVE  ContextInv'
<1> USE DEF BaseInv, TypeOK
<1> DEFINE c == [op |-> "socket", fd |-> d, timed |-> FALSE]
<1>1. /\ Moves(f, "made", c) /\ c.op = "socket" /\ c.fd = d
      /\ desc' = Opened(d) /\ m_data' = m_data /\ pc[f] \in {"idle", "try"}
      /\ ~desc[d].open /\ \A g \in Fibers : call[g].fd # d
  BY DEF Makes, MayMake, Using
<1> HIDE DEF c
<1>2. pc'[f] = "made" /\ call'[f] = c
  BY <1>1, OthersStay
<1>3. \A g \in Fibers : g # f => pc'[g] = pc[g] /\ call'[g] = call[g]
  BY <1>1, OthersStay
<1>4. desc[d].gen \in Nat
  BY Types, HookAssumption DEF HookAssumption, DescType
<1>5. /\ desc'[d].open /\ desc'[d].gen # 0
      /\ \A x \in Fds : x # d => desc'[x] = desc[x]
  BY <1>1, <1>4, Types DEF Opened
<1>6. InFlux(d)'
  BY <1>1, <1>2 DEF InFlux, Using
<1>7. ASSUME NEW x \in Fds, x # d, ~InFlux(x)' PROVE ~InFlux(x)
  <2>1. call[f].op \notin {"socket", "close"}
    BY <1>1, Closers
  <2> QED
    BY <1>1, <1>5, <1>7, <2>1, FluxMoves
<1>8. ASSUME NEW x \in Fds
      PROVE  /\ desc'[x].open => desc'[x].gen # 0
             /\ ~desc'[x].open => m_data'[x] = NoCtx
             /\ ~InFlux(x)' => m_data'[x].gen = desc'[x].gen
  <2>1. CASE x = d
    BY <1>5, <1>6, <2>1
  <2>2. CASE x # d
    BY <1>1, <1>5, <1>7, <2>2 DEF ContextInv
  <2> QED
    BY <2>1, <2>2
<1>9. ASSUME NEW g \in Fibers
      PROVE  /\ pc'[g] \in {"made", "closing", "deleted", "stopping"} =>
                    desc'[call'[g].fd].open
             /\ pc'[g] \in {"made", "deleted"} => m_data'[call'[g].fd] = NoCtx
  <2>1. CASE g = f
    BY <1>1, <1>2, <1>5, <2>1 DEF ContextInv
  <2>2. CASE g # f
    <3>1. pc[g] \in {"made", "closing", "deleted", "stopping"} => call[g].fd \in Fds
      BY FluxOwner
    <3> QED
      BY <1>1, <1>3, <1>5, <2>2, <3>1 DEF ContextInv
  <2> QED
    BY <2>1, <2>2
<1> QED
  BY <1>8, <1>9 DEF ContextInv

LEMMA ContextMakeCtx ==
    ASSUME BaseInv, UseInv, ContextInv, NEW f \in Fibers, NEW timed \in BOOLEAN,
           Moves(f, "idle", NoCall), MakeCtx(f, timed)
    PROVE  ContextInv'
<1> USE DEF BaseInv, TypeOK
<1> DEFINE d == call[f].fd
<1>1. pc[f] = "made" /\ d \in Fds /\ m_data[d] = NoCtx /\ desc[d].open
  BY DEF MakeCtx, CallInv, ContextInv
<1>2. m_data \in [Fds -> CtxType] /\ desc \in [Fds -> DescType]
  BY Types
<1>3. /\ m_data'[d].gen = desc[d].gen
      /\ \A x \in Fds : x # d => m_data'[x] = m_data[x]
  BY <1>1, <1>2 DEF MakeCtx, NoCtx
<1>4. \A x \in Fds : desc'[x].open = desc[x].open /\ desc'[x].gen = desc[x].gen
  BY <1>1, <1>2 DEF MakeCtx, DescType
<1>5. pc'[f] = "idle"
  BY OthersStay
<1>6. \A g \in Fibers : g # f => pc'[g] = pc[g] /\ call'[g] = call[g]
  BY OthersStay
<1>7. ASSUME NEW x \in Fds, x # d, ~InFlux(x)' PROVE ~InFlux(x)
  BY <1>4, <1>7, FluxMoves
<1>8. ASSUME NEW x \in Fds
      PROVE  /\ desc'[x].open => desc'[x].gen # 0
             /\ ~desc'[x].open => m_data'[x] = NoCtx
             /\ ~InFlux(x)' => m_data'[x].gen = desc'[x].gen
  <2>1. CASE x = d
    BY <1>1, <1>3, <1>4, <2>1 DEF ContextInv
  <2>2. CASE x # d
    BY <1>3, <1>4, <1>7, <2>2 DEF ContextInv
  <2> QED
    BY <2>1, <2>2
<1>9. ASSUME NEW g \in Fibers
      PROVE  /\ pc'[g] \in {"made", "closing", "deleted", "stopping"} =>
                    desc'[call'[g].fd].open
             /\ pc'[g] \in {"made", "deleted"} => m_data'[call'[g].fd] = NoCtx
  <2>1. CASE g = f
    BY <1>5, <2>1
  <2>2. CASE g # f
    <3>1. pc[g] \in {"made", "closing", "deleted", "stopping"} =>
              call[g].fd \in Fds /\ call[g].fd # d
      BY <1>1, <2>2, FluxOwner, OneOwner
    <3> QED
      BY <1>3, <1>4, <1>6, <2>2, <3>1 DEF ContextInv
  <2> QED
    BY <2>1, <2>2
<1> QED
  BY <1>8, <1>9 DEF ContextInv

LEMMA ContextCloseDel ==
    ASSUME BaseInv, UseInv, ContextInv, NEW f \in Fibers,
           Moves(f, "deleted", call[f]), CloseDel(f)
    PROVE  ContextInv'
<1> USE DEF BaseInv, TypeOK
<1> DEFINE d == call[f].fd
<1>1. /\ pc[f] = "closing" /\ d \in Fds /\ call[f].op = "close"
      /\ desc[d].open /\ desc' = desc /\ call' = call
  BY DEF CloseDel, CallInv, ContextInv, kernel
<1>2. m_data'[d] = NoCtx /\ \A x \in Fds : x # d => m_data'[x] = m_data[x]
  BY <1>1, Types DEF CloseDel, Deleted
<1>3. pc'[f] = "deleted" /\ \A g \in Fibers : g # f => pc'[g] = pc[g]
  BY OthersStay
<1>4. \A x \in Fds : InFlux(x)' <=> InFlux(x)
  BY <1>1 DEF InFlux, Using
<1>5. InFlux(d)
  BY <1>1, FluxOwner
<1>6. ASSUME NEW x \in Fds
      PROVE  /\ desc'[x].open => desc'[x].gen # 0
             /\ ~desc'[x].open => m_data'[x] = NoCtx
             /\ ~InFlux(x)' => m_data'[x].gen = desc'[x].gen
  BY <1>1, <1>2, <1>4, <1>5 DEF ContextInv
<1>7. ASSUME NEW g \in Fibers
      PROVE  /\ pc'[g] \in {"made", "closing", "deleted", "stopping"} =>
                    desc'[call'[g].fd].open
             /\ pc'[g] \in {"made", "deleted"} => m_data'[call'[g].fd] = NoCtx
  <2>1. CASE g = f
    BY <1>1, <1>2, <2>1
  <2>2. CASE g # f
    <3>1. pc[g] \in {"made", "closing", "deleted", "stopping"} =>
              call[g].fd \in Fds /\ call[g].fd # d
      BY <1>1, <2>2, FluxOwner, OneOwner
    <3> QED
      BY <1>1, <1>2, <1>3, <2>2, <3>1 DEF ContextInv
  <2> QED
    BY <2>1, <2>2
<1> QED
  BY <1>6, <1>7 DEF ContextInv

LEMMA ContextCloseFd ==
    ASSUME BaseInv, UseInv, ContextInv, NEW f \in Fibers,
           Moves(f, "idle", NoCall), CloseFd(f)
    PROVE  ContextInv'
<1> USE DEF BaseInv, TypeOK
<1>0. call[f].fd \in Fds
  BY DEF CloseFd, CallInv
<1> PICK d \in Fds : d = call[f].fd
  BY <1>0
<1>1. /\ pc[f] = "deleted" /\ d = call[f].fd /\ m_data[d] = NoCtx /\ m_data' = m_data
      /\ desc' = [desc EXCEPT ![d].open = FALSE, ![d].nonblock = FALSE]
  BY DEF CloseFd, CallInv, ContextInv
<1>2. desc'[d].open = FALSE /\ \A x \in Fds : x # d => desc'[x] = desc[x]
  BY <1>1, Types DEF DescType
<1>3. pc'[f] = "idle"
  BY OthersStay
<1>4. \A g \in Fibers : g # f => pc'[g] = pc[g] /\ call'[g] = call[g]
  BY OthersStay
<1>5. ASSUME NEW x \in Fds, x # d, ~InFlux(x)' PROVE ~InFlux(x)
  BY <1>2, <1>5, FluxMoves
<1>6. InFlux(d)'
  BY <1>2 DEF InFlux
<1>7. ASSUME NEW x \in Fds
      PROVE  /\ desc'[x].open => desc'[x].gen # 0
             /\ ~desc'[x].open => m_data'[x] = NoCtx
             /\ ~InFlux(x)' => m_data'[x].gen = desc'[x].gen
  <2>1. CASE x = d
    BY <1>1, <1>2, <1>6, <2>1
  <2>2. CASE x # d
    BY <1>1, <1>2, <1>5, <2>2 DEF ContextInv
  <2> QED
    BY <2>1, <2>2
<1>8. ASSUME NEW g \in Fibers
      PROVE  /\ pc'[g] \in {"made", "closing", "deleted", "stopping"} =>
                    desc'[call'[g].fd].open
             /\ pc'[g] \in {"made", "deleted"} => m_data'[call'[g].fd] = NoCtx
  <2>1. CASE g = f
    BY <1>3, <2>1
  <2>2. CASE g # f
    <3>1. pc[g] \in {"made", "closing", "deleted", "stopping"} =>
              call[g].fd \in Fds /\ call[g].fd # d
      BY <1>1, <2>2, FluxOwner, OneOwner
    <3>2. pc'[g] = pc[g] /\ call'[g].fd = call[g].fd
      BY <1>4, <2>2
    <3>3. pc[g] \in {"made", "closing", "deleted", "stopping"} =>
              /\ desc'[call[g].fd] = desc[call[g].fd]
              /\ m_data'[call[g].fd] = m_data[call[g].fd]
      BY <1>1, <1>2, <3>1
    <3> QED
      BY <3>2, <3>3 DEF ContextInv
  <2> QED
    BY <2>1, <2>2
<1> QED
  BY <1>7, <1>8 DEF ContextInv

LEMMA ContextCloses ==
    ASSUME Disciplined, BaseInv, ContextInv, NEW f \in Fibers, NEW d \in Fds,
           NEW next \in Places, Closes(f, d, next)
    PROVE  ContextInv'
<1>1. UNCHANGED <<m_data, desc>> /\ next \in {"closing", "stopping"}
  BY DEF Closes, Cancel
<1>2. pc'[f] = next /\ call'[f].op = "close" /\ call'[f].fd = d
  BY ClosesOne
<1>3. \A g \in Fibers \ {f} : /\ call'[g] = call[g]
                              /\ pc'[g] \in {pc[g], "woken"}
  BY ClosesOne
<1>4. desc[d].open
  <2>1. CASE pc[f] = "stopping" /\ call[f].fd = d
    BY <2>1 DEF ContextInv
  <2>2. CASE MayClose(d)
    BY <2>2 DEF MayClose, InFlux
  <2> QED
    BY <2>1, <2>2 DEF Closes
<1>5. ASSUME NEW x \in Fds, ~InFlux(x)' PROVE ~InFlux(x)
  BY <1>5, FluxCloses
<1>6. ASSUME NEW x \in Fds
      PROVE  /\ desc'[x].open => desc'[x].gen # 0
             /\ ~desc'[x].open => m_data'[x] = NoCtx
             /\ ~InFlux(x)' => m_data'[x].gen = desc'[x].gen
  BY <1>1, <1>5 DEF ContextInv
<1>7. ASSUME NEW g \in Fibers
      PROVE  /\ pc'[g] \in {"made", "closing", "deleted", "stopping"} =>
                    desc'[call'[g].fd].open
             /\ pc'[g] \in {"made", "deleted"} => m_data'[call'[g].fd] = NoCtx
  BY <1>1, <1>2, <1>3, <1>4 DEF ContextInv
<1> QED
  BY <1>6, <1>7 DEF ContextInv

LEMMA ContextStep ==
    ASSUME Disciplined, BaseInv, UseInv, ContextInv, [Next]_vars
    PROVE  ContextInv'
<1>1. ASSUME UNCHANGED <<call, m_data, desc>>,
             \A g \in Fibers : pc'[g] \in {pc[g], "waiting", "woken"}
      PROVE  ContextInv'
  <2>1. \A d \in Fds : InFlux(d)' <=> InFlux(d)
    BY <1>1 DEF InFlux, Using
  <2> QED
    BY <1>1, <2>1 DEF ContextInv
<1>2. ASSUME NEW f \in Fibers, NEW d \in Fds, NEW e \in Events, Waits(f, d, e)
      PROVE  ContextInv'
  <2>1. \A g \in Fibers : pc'[g] \in {pc[g], "waiting", "woken"}
    BY <1>2, Types DEF Waits, BaseInv, TypeOK
  <2> QED
    BY <1>1, <1>2, <2>1 DEF Waits
<1>3. ASSUME NEW d \in Fds, NEW es \in SUBSET Events, Wakes(d, es)
      PROVE  ContextInv'
  <2>1. \A g \in Fibers : pc'[g] \in {pc[g], "waiting", "woken"}
    BY <1>3 DEF Wakes, Woken
  <2> QED
    BY <1>1, <1>3, <2>1 DEF Wakes
<1> QED
  BY <1>2, <1>3, Steps, ContextCalm, ContextPlain, ContextMakes, ContextMakeCtx,
     ContextCloseDel, ContextCloseFd, ContextCloses
  DEF StepKinds

-----------------------------------------------------------------------------
(* A disciplined user *)

(* Who closes a descriptor under another fiber does so before that fiber   *)
(* runs again.                                                             *)
LEMMA ArmedStep ==
    ASSUME BaseInv, UseInv, ArmedInv, [Next]_vars
    PROVE  ArmedInv'
<1> USE DEF BaseInv, TypeOK
<1>0. desc \in [Fds -> DescType]
  BY Types
<1>1. ASSUME NEW g \in Fibers, pc[g] = "armed"
      PROVE  call[g].fd \in Fds /\ call[g].fd # None /\ desc[call[g].fd].open
  BY <1>1, HookAssumption DEF CallInv, ArmedInv, HookAssumption
<1>2. ASSUME \A d \in Fds : desc[d].open => desc'[d].open,
             \A g \in Fibers : pc'[g] = "armed" =>
                 pc[g] = "armed" /\ call'[g] = call[g]
      PROVE  ArmedInv'
  BY <1>1, <1>2 DEF ArmedInv
<1>3. CASE Calm
  BY <1>2, <1>3 DEF Calm
<1>4. ASSUME NEW f \in Fibers, NEW next \in Places, NEW c \in CallType,
             Plain(f, next, c)
      PROVE  ArmedInv'
  <2>1. /\ Moves(f, next, c) /\ desc' = desc
        /\ next = "armed" => desc[c.fd].open
    BY <1>4 DEF Plain
  <2>2. pc'[f] = next /\ call'[f] = c
    BY <2>1, OthersStay
  <2>3. \A g \in Fibers : g # f => pc'[g] = pc[g] /\ call'[g] = call[g]
    BY <2>1, OthersStay
  <2> QED
    BY <2>1, <2>2, <2>3 DEF ArmedInv
<1>5. ASSUME NEW f \in Fibers, NEW next, NEW c, Moves(f, next, c), next # "armed",
             \A d \in Fds : desc[d].open => desc'[d].open
      PROVE  ArmedInv'
  <2>1. pc'[f] = next
    BY <1>5, OthersStay
  <2>2. \A g \in Fibers : g # f => pc'[g] = pc[g] /\ call'[g] = call[g]
    BY <1>5, OthersStay
  <2> QED
    BY <1>2, <1>5, <2>1, <2>2
<1>6. ASSUME NEW f \in Fibers, NEW d \in Fds, Makes(f, d) PROVE ArmedInv'
  <2>1. \A x \in Fds : desc[x].open => desc'[x].open
    BY <1>0, <1>6 DEF Makes, Opened
  <2> QED
    BY <1>5, <1>6, <2>1 DEF Makes
<1>7. ASSUME NEW f \in Fibers, NEW timed \in BOOLEAN,
             Moves(f, "idle", NoCall), MakeCtx(f, timed)
      PROVE  ArmedInv'
  <2>1. call[f].fd \in Fds
    BY <1>7 DEF MakeCtx, CallInv
  <2>2. \A x \in Fds : desc[x].open => desc'[x].open
    BY <1>0, <1>7, <2>1 DEF MakeCtx, DescType
  <2> QED
    BY <1>5, <1>7, <2>2
<1>8. ASSUME NEW f \in Fibers, Moves(f, "deleted", call[f]), CloseDel(f)
      PROVE  ArmedInv'
  BY <1>5, <1>8 DEF CloseDel, kernel
<1>9. ASSUME NEW f \in Fibers, Moves(f, "idle", NoCall), CloseFd(f)
      PROVE  ArmedInv'
  <2>1. /\ pc[f] = "deleted" /\ call[f].op = "close" /\ call[f].fd \in Fds
        /\ desc' = [desc EXCEPT ![call[f].fd].open = FALSE,
                                ![call[f].fd].nonblock = FALSE]
    BY <1>9 DEF CloseFd, CallInv
  <2>2. pc'[f] = "idle"
    BY <1>9, OthersStay
  <2>3. ASSUME NEW g \in Fibers, pc'[g] = "armed" PROVE desc'[call'[g].fd].open
    <3>1. g # f /\ pc[g] = "armed" /\ call'[g] = call[g]
      BY <1>9, <2>2, <2>3, OthersStay
    <3>2. call[g].fd \in Fds /\ call[g].fd # None /\ desc[call[g].fd].open
      BY <1>1, <3>1
    <3>3. call[g].fd # call[f].fd
      BY <2>1, <3>1, <3>2 DEF UseInv, Compatible
    <3> QED
      BY <1>0, <2>1, <3>1, <3>2, <3>3
  <2> QED
    BY <2>3 DEF ArmedInv
<1>10. ASSUME NEW f \in Fibers, NEW d \in Fds, NEW e \in Events, Waits(f, d, e)
       PROVE  ArmedInv'
  <2>1. \A g \in Fibers : pc'[g] \in {pc[g], "waiting"}
    BY <1>10, Types DEF Waits
  <2> QED
    BY <1>2, <1>10, <2>1 DEF Waits
<1>11. ASSUME NEW d \in Fds, NEW es \in SUBSET Events, Wakes(d, es)
       PROVE  ArmedInv'
  <2>1. \A g \in Fibers : pc'[g] \in {pc[g], "woken"}
    BY <1>11 DEF Wakes, Woken
  <2> QED
    BY <1>2, <1>11, <2>1 DEF Wakes
<1>12. ASSUME NEW f \in Fibers, NEW d \in Fds, NEW next \in Places,
              Closes(f, d, next)
       PROVE  ArmedInv'
  <2>1. desc' = desc /\ next \in {"closing", "stopping"}
    BY <1>12 DEF Closes, Cancel
  <2>2. pc'[f] = next
    BY <1>12, ClosesOne
  <2>3. \A g \in Fibers \ {f} : call'[g] = call[g] /\ pc'[g] \in {pc[g], "woken"}
    BY <1>12, ClosesOne
  <2> QED
    BY <1>2, <2>1, <2>2, <2>3
<1> QED
  BY <1>3, <1>4, <1>6, <1>7, <1>8, <1>9, <1>10, <1>11, <1>12, Steps DEF StepKinds

(* addEvent is only asked for an event that nobody waits for, on a         *)
(* descriptor that epoll_ctl accepts.                                      *)
LEMMA NotAborted ==
    ASSUME BaseInv, UseInv, PollInv, ArmedInv, proc # "aborted", [Next]_vars
    PROVE  proc' # "aborted"
<1>1. ASSUME NEW f \in Fibers, pc[f] = "armed" PROVE Registrable(f)
  <2>1. call[f].op \in Ops /\ call[f].fd \in Fds
    BY <1>1 DEF BaseInv, CallInv
  <2>2. EventOf(call[f].op) \in Events /\ call[f].fd # None
    BY <2>1, Literals, HookAssumption DEF HookAssumption
  <2>3. waiter[call[f].fd][EventOf(call[f].op)] = None
    <3> SUFFICES ASSUME waiter[call[f].fd][EventOf(call[f].op)] # None
                 PROVE  FALSE
      OBVIOUS
    <3>1. PICK g \in Fibers : g = waiter[call[f].fd][EventOf(call[f].op)]
      BY <2>1, <2>2, Types DEF BaseInv, TypeOK
    <3>2. /\ pc[g] = "waiting" /\ call[g].fd = call[f].fd
          /\ EventOf(call[g].op) = EventOf(call[f].op)
      BY <2>1, <2>2, <3>1 DEF BaseInv, WaitInv
    <3>3. call[g].op \in Ops
      BY <3>2 DEF BaseInv, CallInv
    <3> QED
      BY <1>1, <2>1, <2>2, <3>2, <3>3 DEF UseInv, Compatible
  <2>4. PICK d \in Fds : d = call[f].fd
    BY <2>1
  <2>5. desc[d].open /\ polled[d] = {e \in Events : waiter[d][e] # None}
    BY <1>1, <2>4 DEF ArmedInv, PollInv, Awaited
  <2>6. CtlWorks(IF \E x \in Events : waiter[d][x] # None THEN "MOD" ELSE "ADD", d)
    BY <2>5 DEF CtlWorks
  <2> QED
    BY <2>3, <2>4, <2>6 DEF Registrable
<1>2. ASSUME NEW f \in Fibers, NEW next \in Places, NEW c \in CallType,
             Plain(f, next, c)
      PROVE  proc' # "aborted"
  BY <1>1, <1>2 DEF Plain
<1> QED
  BY <1>2, Steps
  DEF StepKinds, Calm, Makes, MakeCtx, CloseDel, CloseFd, Waits, Wakes, Closes,
      Cancel

LEMMA DisciplineInit == Init => DisciplineInv
<1> SUFFICES ASSUME Init PROVE DisciplineInv
  OBVIOUS
<1> USE DEF Init, HookInit
<1>1. \A f \in Fibers : pc[f] = "idle" /\ call[f] = NoCall
  OBVIOUS
<1>2. UseInv
  BY <1>1, Literals DEF UseInv
<1>3. PollInv
  BY DEF PollInv, Awaited
<1>4. \A d \in Fds :
          /\ desc[d].open <=> d = Listen
          /\ d = Listen => desc[d].gen = 1 /\ m_data[d].gen = 1
          /\ d # Listen => m_data[d] = NoCtx
  BY DEF NoCtx
<1>5. ContextInv
  BY <1>1, <1>4 DEF ContextInv, InFlux
<1>6. ArmedInv
  BY <1>1 DEF ArmedInv
<1> QED
  BY <1>2, <1>3, <1>5, <1>6 DEF DisciplineInv

LEMMA DisciplineStep ==
    ASSUME Disciplined, BaseInv, DisciplineInv, [Next]_vars
    PROVE  DisciplineInv'
<1>1. UseInv' /\ PollInv' /\ ContextInv' /\ ArmedInv'
  BY UseStep, PollStep, ContextStep, ArmedStep DEF DisciplineInv
<1>2. proc' # "aborted"
  BY NotAborted DEF DisciplineInv
<1> QED
  BY <1>1, <1>2 DEF DisciplineInv

LEMMA DisciplineAlways ==
    ASSUME Disciplined
    PROVE  Spec => []DisciplineInv
<1>1. BaseInv /\ DisciplineInv /\ [Next]_vars => DisciplineInv'
  BY DisciplineStep
<1> QED
  BY <1>1, BaseAlways, DisciplineInit, PTL DEF Spec

(* Whatever is closed, reused or cancelled under it, a fiber that yields   *)
(* in a hooked call is registered with IOManager for its event, on an open *)
(* descriptor that epoll watches, and addEvent's assertion holds: for a    *)
(* user with one reader and one writer per socket who does not close what  *)
(* other workers use.                                                      *)
THEOREM WaiterAlwaysKnown ==
    ASSUME Disciplined
    PROVE  Spec => []WaiterKnown
<1>1. BaseInv /\ DisciplineInv => WaiterKnown
  <2> SUFFICES ASSUME BaseInv, DisciplineInv PROVE WaiterKnown
    OBVIOUS
  <2>1. ASSUME NEW f \in Fibers, pc[f] = "waiting"
        PROVE  /\ waiter[call[f].fd][EventOf(call[f].op)] = f
               /\ desc[call[f].fd].open
               /\ EventOf(call[f].op) \in polled[call[f].fd]
    <3>1. call[f].op \in Ops /\ call[f].fd \in Fds
      BY <2>1 DEF BaseInv, CallInv
    <3>2. EventOf(call[f].op) \in Events /\ f # None
      BY <3>1, Literals, HookAssumption DEF HookAssumption
    <3>3. waiter[call[f].fd][EventOf(call[f].op)] = f
      BY <2>1 DEF BaseInv, WaitInv
    <3>4. EventOf(call[f].op) \in Awaited(call[f].fd)
      BY <3>2, <3>3 DEF Awaited
    <3> QED
      BY <3>1, <3>3, <3>4 DEF DisciplineInv, PollInv
  <2> QED
    BY <2>1 DEF WaiterKnown, DisciplineInv, BaseInv, WaitInv
<1> QED
  BY <1>1, BaseAlways, DisciplineAlways, PTL

(* From the return of socket or accept to the call of close a descriptor   *)
(* has the context that FdManager made for this use of its number: none is *)
(* left over from an earlier one.                                          *)
THEOREM ContextAlwaysOwn ==
    ASSUME Disciplined
    PROVE  Spec => []OwnContext
<1>1. DisciplineInv => OwnContext
  BY DEF DisciplineInv, ContextInv, OwnContext
<1> QED
  BY <1>1, DisciplineAlways, PTL

-----------------------------------------------------------------------------
(* The kernel's flag *)

(* Only a descriptor in flux can be without the flag.                      *)
LEMMA FlagStep ==
    ASSUME Disciplined, Fionbio \subseteq {TRUE}, BaseInv, UseInv, ContextInv,
           FlagInv, [Next]_vars, NEW x \in Fds, ~InFlux(x)'
    PROVE  desc'[x].nonblock
<1> USE DEF BaseInv, TypeOK
<1>1. desc \in [Fds -> DescType]
  BY Types
<1>2. ASSUME ~InFlux(x), desc'[x].nonblock = desc[x].nonblock
      PROVE  desc'[x].nonblock
  BY <1>2 DEF FlagInv
<1>3. CASE Calm
  <2>1. ~InFlux(x)
    BY <1>3 DEF Calm, InFlux, Using
  <2>2. m_data[x] # NoCtx
    BY <2>1, Literals DEF ContextInv, InFlux
  <2> QED
    BY <1>2, <1>3, <2>1, <2>2 DEF Calm
<1>4. ASSUME NEW f \in Fibers, NEW next \in Places, NEW c \in CallType,
             Plain(f, next, c)
      PROVE  desc'[x].nonblock
  <2>1. /\ Moves(f, next, c) /\ desc' = desc
        /\ pc[f] \notin {"made", "closing", "deleted", "stopping"}
    BY <1>4 DEF Plain
  <2>2. call[f].op \notin {"socket", "close"}
    BY <2>1, Closers
  <2>3. ~InFlux(x)
    BY <2>1, <2>2, FluxMoves
  <2> QED
    BY <1>2, <2>1, <2>3
<1>5. ASSUME NEW f \in Fibers, NEW d \in Fds, Makes(f, d)
      PROVE  desc'[x].nonblock
  <2> DEFINE c == [op |-> "socket", fd |-> d, timed |-> FALSE]
  <2>1. /\ Moves(f, "made", c) /\ c.op = "socket" /\ c.fd = d
        /\ desc' = Opened(d) /\ pc[f] \in {"idle", "try"}
    BY <1>5 DEF Makes
  <2> HIDE DEF c
  <2>2. call'[f] = c
    BY <2>1, OthersStay
  <2>3. x # d
    BY <2>1, <2>2 DEF InFlux, Using
  <2>4. desc'[x] = desc[x]
    BY <1>1, <2>1, <2>3 DEF Opened
  <2>5. call[f].op \notin {"socket", "close"}
    BY <2>1, Closers
  <2>6. ~InFlux(x)
    BY <2>1, <2>4, <2>5, FluxMoves
  <2> QED
    BY <1>2, <2>4, <2>6
<1>6. ASSUME NEW f \in Fibers, NEW timed \in BOOLEAN,
             Moves(f, "idle", NoCall), MakeCtx(f, timed)
      PROVE  desc'[x].nonblock
  <2>1. /\ call[f].fd \in Fds /\ m_data[call[f].fd] = NoCtx
    BY <1>6 DEF MakeCtx, CallInv, ContextInv
  <2>2. CASE x = call[f].fd
    BY <1>1, <1>6, <2>1, <2>2 DEF MakeCtx, DescType
  <2>3. CASE x # call[f].fd
    <3>1. desc'[x] = desc[x]
      BY <1>1, <1>6, <2>1, <2>3 DEF MakeCtx
    <3>2. ~InFlux(x)
      BY <1>6, <2>3, <3>1, FluxMoves
    <3> QED
      BY <1>2, <3>1, <3>2
  <2> QED
    BY <2>2, <2>3
<1>7. ASSUME NEW f \in Fibers, Moves(f, "deleted", call[f]), CloseDel(f)
      PROVE  desc'[x].nonblock
  <2>1. desc' = desc /\ call' = call
    BY <1>7 DEF CloseDel, kernel
  <2>2. ~InFlux(x)
    BY <2>1 DEF InFlux, Using
  <2> QED
    BY <1>2, <2>1, <2>2
<1>8. ASSUME NEW f \in Fibers, Moves(f, "idle", NoCall), CloseFd(f)
      PROVE  desc'[x].nonblock
  <2>1. /\ call[f].fd \in Fds
        /\ desc' = [desc EXCEPT ![call[f].fd].open = FALSE,
                                ![call[f].fd].nonblock = FALSE]
    BY <1>8 DEF CloseFd, CallInv
  <2>2. x # call[f].fd
    BY <1>1, <2>1 DEF InFlux, DescType
  <2>3. desc'[x] = desc[x]
    BY <1>1, <2>1, <2>2
  <2>4. ~InFlux(x)
    BY <1>8, <2>2, <2>3, FluxMoves
  <2> QED
    BY <1>2, <2>3, <2>4
<1>9. ASSUME NEW f \in Fibers, NEW d \in Fds, NEW next \in Places,
             Closes(f, d, next)
      PROVE  desc'[x].nonblock
  <2>1. desc' = desc
    BY <1>9 DEF Closes, Cancel
  <2>2. ~InFlux(x)
    BY <1>9, FluxCloses
  <2> QED
    BY <1>2, <2>1, <2>2
<1>10. ASSUME UNCHANGED <<call, desc>> PROVE desc'[x].nonblock
  <2>1. ~InFlux(x)
    BY <1>10 DEF InFlux, Using
  <2> QED
    BY <1>2, <1>10, <2>1
<1>11. ASSUME NEW f \in Fibers, NEW d \in Fds, NEW e \in Events, Waits(f, d, e)
       PROVE  desc'[x].nonblock
  BY <1>10, <1>11 DEF Waits
<1>12. ASSUME NEW d \in Fds, NEW es \in SUBSET Events, Wakes(d, es)
       PROVE  desc'[x].nonblock
  BY <1>10, <1>12 DEF Wakes
<1> QED
  BY <1>3, <1>4, <1>5, <1>6, <1>7, <1>8, <1>9, <1>11, <1>12, Steps DEF StepKinds

(* A call that gets as far as the system call is on a descriptor with the  *)
(* flag: who closes it under the call has the only worker until it is      *)
(* closed.                                                                 *)
LEMMA NoBlock ==
    ASSUME Disciplined, BaseInv, UseInv, FlagInv,
           NEW f \in Fibers, NEW next \in Places, NEW c \in CallType,
           Plain(f, next, c)
    PROVE  next # "blocked"
<1> SUFFICES ASSUME next = "blocked" PROVE FALSE
  OBVIOUS
<1>1. MayRun(f)
  BY DEF Plain, Moves
<1>2. PICK d \in Fds : /\ desc[d].open /\ ~desc[d].nonblock
                       /\ \/ ~InFlux(d)
                          \/ pc[f] = "try" /\ call[f].fd = d
  BY DEF Plain
<1>3. InFlux(d) /\ pc[f] = "try" /\ call[f].fd = d
  BY <1>2 DEF FlagInv
<1>4. PICK g \in Fibers : call[g].fd = d /\ call[g].op \in {"socket", "close"}
  BY <1>2, <1>3 DEF InFlux, Using
<1>5. g # f /\ d # None
  BY <1>3, <1>4, Literals, HookAssumption
  DEF HookAssumption, BaseInv, CallInv
<1>6. call[g].op # "close"
  BY <1>1, <1>3, <1>4, <1>5, NotUnderClose
<1>7. call[g].op # "socket"
  BY <1>3, <1>4, <1>5 DEF UseInv, Compatible
<1> QED
  BY <1>4, <1>6, <1>7

LEMMA NeverBlocksStep ==
    ASSUME Disciplined, BaseInv, UseInv, FlagInv, [Next]_vars
    PROVE  NeverBlocks'
<1> USE DEF BaseInv, TypeOK
<1>1. \A g \in Fibers : pc[g] # "blocked"
  BY DEF FlagInv, NeverBlocks
<1>2. ASSUME NEW f \in Fibers, NEW next, NEW c, Moves(f, next, c),
             next # "blocked"
      PROVE  NeverBlocks'
  <2>1. pc'[f] = next /\ \A g \in Fibers : g # f => pc'[g] = pc[g]
    BY <1>2, OthersStay
  <2> QED
    BY <1>1, <1>2, <2>1 DEF NeverBlocks
<1>3. CASE Calm
  BY <1>1, <1>3 DEF Calm, NeverBlocks
<1>4. ASSUME NEW f \in Fibers, NEW next \in Places, NEW c \in CallType,
             Plain(f, next, c)
      PROVE  NeverBlocks'
  <2>1. next # "blocked"
    BY <1>4, NoBlock
  <2> QED
    BY <1>2, <1>4, <2>1 DEF Plain
<1>5. ASSUME NEW f \in Fibers, NEW d \in Fds, Makes(f, d) PROVE NeverBlocks'
  BY <1>2, <1>5 DEF Makes
<1>6. ASSUME NEW f \in Fibers, NEW d \in Fds, NEW next \in Places,
             Closes(f, d, next)
      PROVE  NeverBlocks'
  <2>1. pc'[f] = next /\ next # "blocked"
    BY <1>6, ClosesOne DEF Closes
  <2>2. \A g \in Fibers \ {f} : pc'[g] \in {pc[g], "woken"}
    BY <1>6, ClosesOne
  <2> QED
    BY <1>1, <2>1, <2>2 DEF NeverBlocks
<1>7. ASSUME NEW f \in Fibers, NEW d \in Fds, NEW e \in Events, Waits(f, d, e)
      PROVE  NeverBlocks'
  BY <1>1, <1>7, Types DEF Waits, NeverBlocks
<1>8. ASSUME NEW d \in Fds, NEW es \in SUBSET Events, Wakes(d, es)
      PROVE  NeverBlocks'
  BY <1>1, <1>8 DEF Wakes, Woken, NeverBlocks
<1> QED
  BY <1>2, <1>3, <1>4, <1>5, <1>6, <1>7, <1>8, Steps DEF StepKinds

(* No hooked call blocks its worker: the kernel's flag is set on every     *)
(* descriptor but the ones that are being opened or closed, on which a     *)
(* disciplined user makes no call.  ioctl(FIONBIO) is the one way to clear *)
(* it that the hooks leave open.                                           *)
THEOREM CallsNeverBlock ==
    ASSUME Disciplined, Fionbio \subseteq {TRUE}
    PROVE  Spec => []NeverBlocks
<1>1. Init => FlagInv
  BY DEF Init, HookInit, FlagInv, NeverBlocks, InFlux
<1>2. BaseInv /\ DisciplineInv /\ FlagInv /\ [Next]_vars => FlagInv'
  <2> SUFFICES ASSUME BaseInv, DisciplineInv, FlagInv, [Next]_vars
               PROVE  FlagInv'
    OBVIOUS
  <2>1. UseInv /\ ContextInv
    BY DEF DisciplineInv
  <2>2. NeverBlocks'
    BY <2>1, NeverBlocksStep
  <2>3. ASSUME NEW x \in Fds, ~InFlux(x)' PROVE desc'[x].nonblock
    BY <2>1, <2>3, FlagStep
  <2> QED
    BY <2>2, <2>3 DEF FlagInv
<1>3. FlagInv => NeverBlocks
  BY DEF FlagInv
<1> QED
  BY <1>1, <1>2, <1>3, BaseAlways, DisciplineAlways, PTL DEF Spec

=============================================================================
