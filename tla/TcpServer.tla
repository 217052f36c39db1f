----------------------------- MODULE TcpServer -----------------------------
(***************************************************************************)
(* TcpServer on hooked sockets: the fiber of the accept loop, the task     *)
(* with which stop() closes the listening socket, and fibers that use the  *)
(* accepted ones as they like.                                             *)
(***************************************************************************)
EXTENDS Hook

CONSTANTS
    Acceptor,       \* the fiber that executes accept()
    Stopper         \* the fiber that executes the task of stop()

ASSUME ServerAssumption == Acceptor \in Fibers /\ Stopper \in Fibers \ {Acceptor}

VARIABLES
    m_isStop,
    m_socks,        \* the listening sockets
    accepting,      \* the accept loop: "no", "loop", "ended"
    stopping        \* the task of stop(): "no", "scheduled", "cancelled", "closing", "done"

serverVars == <<m_isStop, m_socks, accepting, stopping>>
vars == <<hookVars, serverVars>>

TypeOK ==
    /\ HookTypeOK
    /\ m_isStop \in BOOLEAN
    /\ m_socks \subseteq {Listen}
    /\ accepting \in {"no", "loop", "ended"}
    /\ stopping \in {"no", "scheduled", "cancelled", "closing", "done"}

(* After bind().                                                           *)
Init ==
    /\ HookInit
    /\ m_isStop = TRUE
    /\ m_socks = {Listen}
    /\ accepting = "no"
    /\ stopping = "no"

(* The caller's rule: not before the effects of an earlier stop() are over. *)
start ==
    /\ proc = "up"
    /\ m_isStop
    /\ Disciplined => accepting # "loop" /\ stopping \in {"no", "done"}
    /\ m_isStop' = FALSE
    /\ accepting' = IF m_socks # {} THEN "loop" ELSE accepting
    /\ UNCHANGED <<hookVars, m_socks, stopping>>

(* Only the first call's task finds listening sockets.                     *)
stop ==
    /\ proc = "up"
    /\ m_isStop' = TRUE
    /\ stopping' = IF stopping = "no" THEN "scheduled" ELSE stopping
    /\ UNCHANGED <<hookVars, m_socks, accepting>>

(* The loop: while (!m_isStop) accept.                                     *)
acceptNext ==
    /\ accepting = "loop"
    /\ ~m_isStop
    /\ Call(Acceptor, "accept", Listen)
    /\ UNCHANGED serverVars

acceptEnd ==
    /\ accepting = "loop"
    /\ m_isStop
    /\ MayRun(Acceptor)
    /\ pc[Acceptor] = "idle"
    /\ accepting' = "ended"
    /\ UNCHANGED <<hookVars, m_isStop, m_socks, stopping>>

(* A client gets a timeout, and is handed over.                            *)
accepted == MakeCtx(Acceptor, TRUE) /\ UNCHANGED serverVars

(* The task of stop(): sock->cancelAll(), sock->close(), m_socks.clear().  *)
stopCancel ==
    /\ stopping = "scheduled"
    /\ MayRun(Stopper)
    /\ pc[Stopper] = "idle"
    /\ MayClose(Listen)
    /\ Cancel(Stopper, Listen, "stopping")
    /\ stopping' = "cancelled"
    /\ UNCHANGED <<m_isStop, m_socks, accepting>>

(* Fault: the socket is cancelled and not closed.                          *)
stopForgets ==
    /\ stopping = "cancelled"
    /\ MayRun(Stopper)
    /\ Return(Stopper, timers)
    /\ stopping' = "closing"
    /\ UNCHANGED <<workers, proc, m_data, waiter, kernel, m_isStop, m_socks, accepting>>

stopClose ==
    /\ stopping = "cancelled"
    /\ MayRun(Stopper)
    /\ Cancel(Stopper, Listen, "closing")
    /\ stopping' = "closing"
    /\ UNCHANGED <<m_isStop, m_socks, accepting>>

stopClear ==
    /\ stopping = "closing"
    /\ MayRun(Stopper)
    /\ pc[Stopper] = "idle"
    /\ m_socks' = {}
    /\ stopping' = "done"
    /\ UNCHANGED <<hookVars, m_isStop, accepting>>

Handlers == Fibers \ {Acceptor, Stopper}

Server(f) == GoOn(f) /\ UNCHANGED serverVars
Handler(f) == (Begin(f) \/ MakeCtx(f, FALSE)) /\ UNCHANGED serverVars

AcceptLoop == acceptNext \/ acceptEnd \/ accepted
StopTask == stopCancel \/ stopClose \/ stopClear

Next ==
    \/ start \/ stop
    \/ AcceptLoop \/ StopTask
    \/ \E f \in Fibers : Server(f)
    \/ \E f \in Handlers : Handler(f)
    \/ Environment /\ UNCHANGED serverVars

(* A call of a handler that has the worker goes on, and, the list of tasks *)
(* being a queue, the fibers of the server get a worker in the end.        *)
ServerStep ==
    \/ AcceptLoop \/ StopTask
    \/ \E f \in {Acceptor, Stopper} : Server(f)
Fairness ==
    /\ \A f \in Handlers : WF_vars((GoOn(f) \/ MakeCtx(f, FALSE)) /\ UNCHANGED serverVars)
    /\ SF_vars(ServerStep)

Spec == Init /\ [][Next]_vars /\ Fairness

-----------------------------------------------------------------------------
(* Properties *)

(* On one worker stop() ends the accept loop, wherever it is: the fiber    *)
(* that waits for a client is woken, and does not wait again.              *)
StopEnds ==
    workers = "one" /\ m_isStop /\ accepting = "loop"
    ~> accepting = "ended" \/ proc # "up"
=============================================================================
