------------------------ MODULE RunnerTunnel_proofs ------------------------
(***************************************************************************)
(* Proofs about RunnerTunnel, for any number of connections and sessions:  *)
(* its types, that the registry never keeps an entry whose handler is      *)
(* gone, that only the owner of an entry takes it out, and that no session *)
(* is left running once its runner is gone.                                *)
(***************************************************************************)
EXTENDS RunnerTunnel, TLAPS

\* The connect hook works on a session in every phase that uses one.
HookHasSession ==
    \A c \in Conns : pc[c] \in InConnectHook \ {"query"} => cur[c] \in Sessions

\* The inductive invariant: RegisteredHasHandler needs to know nothing but
\* the types and, for the hook's writes to be typed, HookHasSession.
IInv == TypeOK /\ HookHasSession /\ RegisteredHasHandler

\* Where the handler of c stands when it enters the disconnect hook: past its
\* last await if the hook is skipped, in the store query otherwise; the other
\* handlers do not move.
LEMMA HookEntered ==
    ASSUME TypeOK, NEW c \in Conns, NEW reg, NEW n \in 0 .. 2,
           EnterDisconnectHook(c, reg, n)
    PROVE  /\ pc' \in [Conns -> Phases]
           /\ calls' \in [Conns -> 0 .. 2]
           /\ pc'[c] \in {"done", "offline"}
           /\ \A d \in Conns \ {c} : pc'[d] = pc[d]
<1> USE DEF TypeOK, Phases, Serving, InConnectHook
<1>1. CASE reg # NoConn \/ n = 0
  BY <1>1 DEF EnterDisconnectHook
<1>2. CASE ~(reg # NoConn \/ n = 0)
  <2>1. n - 1 \in 0 .. 2
    BY <1>2
  <2> QED  BY <1>2, <2>1 DEF EnterDisconnectHook
<1> QED  BY <1>1, <1>2

\* A handler that enters it, and is not or no longer the one registered.
LEMMA DisconnectInductive ==
    ASSUME IInv, NEW c \in Conns, NEW reg, EnterDisconnectHook(c, reg, calls[c]),
           current' \in {current, NoConn}, current' # c, open' \in SUBSET Conns,
           UNCHANGED <<helper, todo, cur, sessionVars>>
    PROVE  IInv'
<1>1. TypeOK /\ calls[c] \in 0 .. 2
  BY DEF IInv, TypeOK
<1>2. /\ pc' \in [Conns -> Phases] /\ calls' \in [Conns -> 0 .. 2]
      /\ pc'[c] \in {"done", "offline"}
      /\ \A d \in Conns \ {c} : pc'[d] = pc[d]
  BY <1>1, HookEntered
<1>3. TypeOK'
  BY <1>1, <1>2 DEF TypeOK, sessionVars
<1>4. HookHasSession'
  BY <1>2 DEF IInv, HookHasSession, InConnectHook
<1>5. RegisteredHasHandler'
  BY <1>1, <1>2 DEF IInv, RegisteredHasHandler, TypeOK
<1> QED  BY <1>3, <1>4, <1>5 DEF IInv

\* The connect hook moves to a session it has yet to reach, or out of the
\* loop into the wait for the helper tasks.
LEMMA NextSessionTyped ==
    ASSUME TypeOK, NEW c \in Conns, NEW rest \in SUBSET Sessions, NextSession(c, rest)
    PROVE  /\ pc' \in [Conns -> Phases]
           /\ todo' \in [Conns -> SUBSET Sessions]
           /\ cur' \in [Conns -> Sessions \cup {NoSession}]
           /\ pc'[c] \in {"wait", "post"}
           /\ pc'[c] = "post" => cur'[c] \in Sessions
           /\ \A d \in Conns \ {c} : pc'[d] = pc[d] /\ cur'[d] = cur[d]
<1> USE DEF TypeOK, Phases, Serving, InConnectHook
<1>1. CASE rest = {} \/ current = NoConn
  BY ZenonT(30), <1>1 DEF NextSession
<1>2. CASE ~(rest = {} \/ current = NoConn)
  <2>1. PICK s \in rest :
            /\ pc' = [pc EXCEPT ![c] = "post"]
            /\ todo' = [todo EXCEPT ![c] = rest \ {s}]
            /\ cur' = [cur EXCEPT ![c] = s]
    BY <1>2 DEF NextSession
  <2> QED  BY <2>1
<1> QED  BY <1>1, <1>2

LEMMA InitInductive == Init => IInv
BY ConstantsAssumption
   DEF Init, IInv, TypeOK, HookHasSession, RegisteredHasHandler, NoRelay, Phases,
       Serving, InConnectHook, Statuses, Labels, RelayStates

LEMMA NextInductive == IInv /\ [Next]_vars => IInv'
<1> SUFFICES ASSUME IInv, [Next]_vars PROVE IInv'
  OBVIOUS
<1> USE ConstantsAssumption
    DEF IInv, TypeOK, HookHasSession, RegisteredHasHandler, Phases, Serving, InConnectHook,
        Outcomes, Statuses, Labels, RelayStates, Writers, handlerVars, sessionVars
<1>1. ASSUME NEW c \in Conns, Accept(c) PROVE IInv'
  BY <1>1 DEF Accept
<1>2. ASSUME NEW c \in Conns, PeerGone(c) PROVE IInv'
  BY <1>2 DEF PeerGone
<1>3. ASSUME NEW c \in Conns, RejectHello(c) PROVE IInv'
  BY <1>3 DEF RejectHello
<1>4. ASSUME NEW c \in Conns, Register(c) PROVE IInv'
  BY <1>4 DEF Register
<1>5. ASSUME NEW c \in Conns, HelpersJoined(c) PROVE IInv'
  BY <1>5 DEF HelpersJoined
<1>6. ASSUME NEW c \in Conns, ConnectHookAborts(c) PROVE IInv'
  BY <1>6 DEF ConnectHookAborts
<1>7. ASSUME NEW c \in Conns, UndecodableHello(c) PROVE IInv'
  BY <1>7, HookEntered DEF UndecodableHello
<1>8. ASSUME NEW c \in Conns, LostBeforeHello(c) PROVE IInv'
  BY SMTT(30), <1>8, HookEntered DEF LostBeforeHello
<1>9. ASSUME NEW c \in Conns, Teardown(c) PROVE IInv'
  <2>1. current' \in {current, NoConn} /\ current' # c
    BY <1>9 DEF Teardown, Deregistered
  <2>2. open' \in SUBSET Conns
    BY <1>9 DEF Teardown
  <2> QED  BY <1>9, <2>1, <2>2, DisconnectInductive DEF Teardown
<1>10. ASSUME NEW c \in Conns, MarkOffline(c) PROVE IInv'
  BY SMTT(30), <1>10, HookEntered DEF MarkOffline
<1>11. ASSUME NEW c \in Conns, OfflineQueryFails(c) PROVE IInv'
  <2>1. current' = current /\ current # c /\ open' \in SUBSET Conns
    BY <1>11 DEF OfflineQueryFails
  <2> QED  BY <1>11, <2>1, DisconnectInductive DEF OfflineQueryFails
<1>12. ASSUME NEW c \in Conns, QueryReturns(c) PROVE IInv'
  BY <1>12, NextSessionTyped DEF QueryReturns
<1>13. ASSUME NEW c \in Conns, Posted(c) PROVE IInv'
  <2>1. cur[c] \in Sessions /\ todo[c] \in SUBSET Sessions
    BY <1>13 DEF Posted
  <2>2. relay' \in [Sessions -> [st : RelayStates, conn : Conns \cup {NoConn}]]
    BY SMTT(30), <1>13, <2>1 DEF Posted, EnsuredRelay
  <2>3. CASE status[cur[c]] # "failed"
    BY <1>13, <2>1, <2>2, <2>3, NextSessionTyped DEF Posted
  <2>4. CASE status[cur[c]] = "failed"
    BY SMTT(30), <1>13, <2>1, <2>2, <2>4 DEF Posted
  <2> QED  BY <2>3, <2>4
<1>14. ASSUME NEW c \in Conns, ReadLabel(c) PROVE IInv'
  <2>1. cur[c] \in Sessions /\ todo[c] \in SUBSET Sessions
    BY <1>14 DEF ReadLabel
  <2>2. CASE label[cur[c]] # "runner_disconnected"
    BY <1>14, <2>1, <2>2, NextSessionTyped DEF ReadLabel
  <2>3. CASE label[cur[c]] = "runner_disconnected"
    <3>1. /\ pc' = [pc EXCEPT ![c] = "clear"]
          /\ UNCHANGED <<current, open, helper, calls, todo, cur, sessionVars>>
      BY <1>14, <2>3 DEF ReadLabel
    <3>2. pc' \in [Conns -> Phases] /\ \A d \in Conns \ {c} : pc'[d] = pc[d]
      BY <3>1
    <3>3. HookHasSession'
      BY <2>1, <3>1
    <3>4. RegisteredHasHandler'
      BY <3>1
    <3> QED  BY <3>1, <3>2, <3>3, <3>4
  <2> QED  BY <2>2, <2>3
<1>15. ASSUME NEW c \in Conns, ClearFailure(c) PROVE IInv'
  BY <1>15 DEF ClearFailure, Persist
<1>16. ASSUME NEW c \in Conns, Cleared(c) PROVE IInv'
  BY <1>16, NextSessionTyped DEF Cleared
<1>17. ASSUME NEW c \in Conns, NEW o \in Outcomes, HelperEnds(c, o) PROVE IInv'
  BY <1>17 DEF HelperEnds
<1>18. ASSUME NEW s \in Sessions, RelayOpens(s) PROVE IInv'
  BY <1>18 DEF RelayOpens
<1>19. ASSUME NEW s \in Sessions, RelayResumes(s) PROVE IInv'
  BY <1>19 DEF RelayResumes, Published
<1>20. ASSUME NEW s \in Sessions, RelayEnds(s) PROVE IInv'
  BY <1>20 DEF RelayEnds, NoRelay
<1>21. ASSUME NEW s \in Sessions, RelayDrops(s) PROVE IInv'
  <2>1. relay' \in [Sessions -> [st : RelayStates, conn : Conns \cup {NoConn}]]
    BY <1>21 DEF RelayDrops
  <2>2. status' \in [Sessions -> Statuses]
    BY <1>21 DEF RelayDrops, DropStatus, Published
  <2>3. writes' \in SUBSET [s : Sessions, val : Labels, by : Writers]
    BY <1>21 DEF RelayDrops, Persist
  <2> QED  BY <1>21, <2>1, <2>2, <2>3 DEF RelayDrops
<1>22. ASSUME NEW s \in Sessions, RelayDropped(s) PROVE IInv'
  BY <1>22 DEF RelayDropped, NoRelay
<1>23. ASSUME NEW s \in Sessions, SessionInitialized(s) PROVE IInv'
  BY <1>23 DEF SessionInitialized, Persist
<1>24. ASSUME NEW s \in Sessions, ForwardMessage(s) PROVE IInv'
  <2>1. relay' \in [Sessions -> [st : RelayStates, conn : Conns \cup {NoConn}]]
    BY SMTT(30), <1>24 DEF ForwardMessage, EnsuredRelay
  <2> QED  BY <1>24, <2>1 DEF ForwardMessage
<1>25. ASSUME NEW s \in Sessions, StopSession(s) PROVE IInv'
  BY <1>25 DEF StopSession
<1>26. ASSUME NEW s \in Sessions, StopDelivered(s) PROVE IInv'
  BY <1>26 DEF StopDelivered
<1>27. ASSUME NEW s \in Sessions, StopNotDelivered(s) PROVE IInv'
  BY <1>27 DEF StopNotDelivered
<1>28. ASSUME NEW s \in Sessions, NEW ev \in Events, RelayReads(s, ev) PROVE IInv'
  BY SMTT(30), <1>28 DEF RelayReads, Persist, Published
<1>29. ASSUME NEW w \in writes, PersistLabel(w) PROVE IInv'
  BY <1>29 DEF PersistLabel
<1>30. CASE UNCHANGED vars
  BY <1>30 DEF vars
<1> QED
  BY SMTT(30), <1>1, <1>2, <1>3, <1>4, <1>5, <1>6, <1>7, <1>8, <1>9, <1>10, <1>11,
     <1>12, <1>13, <1>14, <1>15, <1>16, <1>17, <1>18, <1>19, <1>20, <1>21,
     <1>22, <1>23, <1>24, <1>25, <1>26, <1>27, <1>28, <1>29, <1>30 DEF Next,
     Environment, HandlerStep, ConnectHook, RelayStep

-----------------------------------------------------------------------------
(* A session that shows running *)

\* A handler that leaves its helpers behind owes a call of the disconnect hook.
CallOwed == \A c \in Conns : pc[c] = "gather" => calls[c] # 0

\* An open stream is attached to a connection.
RelayAttached ==
    \A s \in Sessions : relay[s].st \in {"reading", "running", "failing", "item"} =>
        relay[s].conn # NoConn

\* The inductive form of NoSessionStuckRunning: while a session shows running,
\* its runner is connected, or its relay has yet to see the drop, or a
\* disconnect hook has yet to mark every session failed.
RunningIsWatched ==
    \A s \in Sessions : status[s] = "running" =>
        \/ current # NoConn
        \/ relay[s].st \notin {"none", "dropping"}
        \/ \E c \in Conns : pc[c] = "offline"

WatchInv == CallOwed /\ RelayAttached /\ RunningIsWatched

\* A handler that moves without touching a session, keeps the hooks in their
\* query where they are, and clears the entry only on its way into one.
LEMMA HandlerFrame ==
    ASSUME WatchInv, CallOwed', UNCHANGED <<relay, status>>,
           \A c \in Conns : pc[c] = "offline" => pc'[c] = "offline",
           current # NoConn => current' # NoConn \/ \E c \in Conns : pc'[c] = "offline"
    PROVE  WatchInv'
BY DEF WatchInv, RelayAttached, RunningIsWatched

\* A step on one session: what it newly shows running has a runner or a relay.
LEMMA SessionFrame ==
    ASSUME WatchInv, NEW s \in Sessions, UNCHANGED <<current, pc, calls>>,
           \A t \in Sessions \ {s} : relay'[t] = relay[t] /\ status'[t] = status[t],
           relay'[s].st \in {"reading", "running", "failing", "item"} => relay'[s].conn # NoConn,
           status'[s] = "running" =>
               \/ current # NoConn
               \/ relay'[s].st \notin {"none", "dropping"}
               \/ status[s] = "running" /\ relay[s].st \in {"none", "dropping"}
    PROVE  WatchInv'
BY DEF WatchInv, CallOwed, RelayAttached, RunningIsWatched

\* The route handlers outside their hooks.
LEMMA RouteWatches ==
    ASSUME IInv, WatchInv, NEW c \in Conns,
           \/ Accept(c) \/ PeerGone(c) \/ RejectHello(c) \/ Register(c) \/ HelpersJoined(c)
           \/ \E o \in Outcomes : HelperEnds(c, o)
    PROVE  WatchInv'
<1> USE ConstantsAssumption
    DEF IInv, TypeOK, handlerVars, sessionVars, CallOwed, WatchInv, Phases, Serving, InConnectHook
<1>1. CASE Accept(c)
  BY <1>1, HandlerFrame DEF Accept
<1>2. CASE PeerGone(c)
  BY <1>2, HandlerFrame DEF PeerGone
<1>3. CASE RejectHello(c)
  BY <1>3, HandlerFrame DEF RejectHello
<1>4. CASE Register(c)
  BY <1>4, HandlerFrame DEF Register
<1>5. CASE HelpersJoined(c)
  BY <1>5, HandlerFrame DEF HelpersJoined
<1>6. CASE \E o \in Outcomes : HelperEnds(c, o)
  BY <1>6, HandlerFrame DEF HelperEnds
<1> QED  BY <1>1, <1>2, <1>3, <1>4, <1>5, <1>6

\* The ways into the disconnect hook: whoever clears the entry is in the hook's
\* query afterwards.
LEMMA DisconnectWatches ==
    ASSUME IInv, WatchInv, NEW c \in Conns,
           LostBeforeHello(c) \/ UndecodableHello(c) \/ Teardown(c)
    PROVE  WatchInv'
<1> USE DEF IInv, WatchInv
<1>1. PICK reg \in {current', NoConn}, n \in {1, calls[c]} :
         /\ EnterDisconnectHook(c, reg, n) /\ n \in 1 .. 2
         /\ reg = current' /\ pc[c] \in {"hello", "gather"}
         /\ UNCHANGED <<relay, status>>
  BY SMTT(30) DEF LostBeforeHello, UndecodableHello, Teardown, Deregistered, TypeOK, CallOwed,
     sessionVars
<1>2. /\ pc'[c] \in {"done", "offline"} /\ \A d \in Conns \ {c} : pc'[d] = pc[d]
  BY <1>1, HookEntered
<1>3. \A d \in Conns \ {c} : calls'[d] = calls[d]
  BY <1>1 DEF EnterDisconnectHook, TypeOK
<1>4. current' = NoConn => pc'[c] = "offline"
  BY <1>1 DEF EnterDisconnectHook, TypeOK
<1>5. CallOwed'
  BY <1>2, <1>3 DEF CallOwed
<1> QED  BY <1>1, <1>2, <1>4, <1>5, HandlerFrame

\* The disconnect hook marks every session failed.
LEMMA OfflineWatches ==
    ASSUME IInv, WatchInv, NEW c \in Conns, MarkOffline(c) PROVE WatchInv'
<1> USE DEF IInv, WatchInv
<1>1. /\ EnterDisconnectHook(c, current, calls[c]) /\ calls[c] \in 0 .. 2
      /\ UNCHANGED relay /\ \A s \in Sessions : status'[s] = "failed"
  BY DEF MarkOffline, TypeOK
<1>2. pc'[c] \in {"done", "offline"} /\ \A d \in Conns \ {c} : pc'[d] = pc[d]
  BY <1>1, HookEntered
<1>3. \A d \in Conns \ {c} : calls'[d] = calls[d]
  BY <1>1 DEF EnterDisconnectHook, TypeOK
<1> QED  BY <1>1, <1>2, <1>3 DEF CallOwed, RelayAttached, RunningIsWatched

\* The connect hook ensures relays and clears failures.
LEMMA ConnectWatches ==
    ASSUME IInv, WatchInv, NEW c \in Conns, ConnectHook(c) PROVE WatchInv'
<1> USE ConstantsAssumption
    DEF IInv, TypeOK, HookHasSession, sessionVars, InConnectHook
<1>1. ASSUME NEW rest \in SUBSET Sessions, NextSession(c, rest), UNCHANGED calls,
             pc[c] \in InConnectHook
      PROVE  CallOwed' /\ \A d \in Conns : pc[d] = "offline" => pc'[d] = "offline"
  BY <1>1, NextSessionTyped DEF WatchInv, CallOwed
<1>2. CASE QueryReturns(c)
  BY <1>1, <1>2, HandlerFrame DEF QueryReturns
<1>3. CASE Posted(c)
  <2>1. cur[c] \in Sessions /\ todo[c] \in SUBSET Sessions
    BY <1>3 DEF Posted
  <2>2. CallOwed' /\ \A d \in Conns : pc[d] = "offline" => pc'[d] = "offline"
    BY <1>1, <1>3, <2>1 DEF Posted, WatchInv, CallOwed
  <2>3. /\ relay'[cur[c]].st # "none" /\ UNCHANGED <<current, status>>
        /\ relay'[cur[c]].conn = relay[cur[c]].conn
        /\ relay'[cur[c]].st \in {relay[cur[c]].st, "opening"}
        /\ \A t \in Sessions \ {cur[c]} : relay'[t] = relay[t]
    BY <1>3, <2>1 DEF Posted, EnsuredRelay
  <2> QED  BY <2>1, <2>2, <2>3 DEF WatchInv, RelayAttached, RunningIsWatched
<1>4. CASE ReadLabel(c)
  BY <1>1, <1>4, HandlerFrame DEF ReadLabel, WatchInv, CallOwed
<1>5. CASE ClearFailure(c)
  <2>1. cur[c] \in Sessions
    BY <1>5 DEF ClearFailure
  <2>2. /\ UNCHANGED <<current, relay, calls>>
        /\ pc' = [pc EXCEPT ![c] = "persist"] /\ pc[c] = "clear"
        /\ \A s \in Sessions : status'[s] \in {status[s], "idle"}
    BY <1>5, <2>1 DEF ClearFailure
  <2> QED  BY <2>2 DEF WatchInv, CallOwed, RelayAttached, RunningIsWatched
<1>6. CASE Cleared(c)
  BY <1>1, <1>6, HandlerFrame DEF Cleared
<1>7. CASE ConnectHookAborts(c)
  BY <1>7, HandlerFrame DEF ConnectHookAborts, WatchInv, CallOwed
<1> QED  BY <1>2, <1>3, <1>4, <1>5, <1>6, <1>7 DEF ConnectHook

\* A relay shows running only while it goes on reading, and takes it back when
\* its stream is lost.
LEMMA RelayWatches ==
    ASSUME IInv, WatchInv, NEW s \in Sessions,
           RelayStep(s) \/ RelayEnds(s) \/ \E ev \in Events : RelayReads(s, ev)
    PROVE  WatchInv'
<1> USE ConstantsAssumption DEF IInv, TypeOK, handlerVars, sessionVars, Published
<1>1. relay[s].st \in {"reading", "running", "failing", "item"} => relay[s].conn # NoConn
  BY DEF WatchInv, RelayAttached
<1>2. CASE RelayOpens(s)
  BY <1>2, SessionFrame DEF RelayOpens
<1>3. CASE RelayResumes(s)
  <2>1. /\ relay' = [relay EXCEPT ![s].st = "reading"]
        /\ relay[s].st \in {"running", "failing", "item"} /\ UNCHANGED <<current, pc, calls>>
        /\ \A t \in Sessions \ {s} : status'[t] = status[t]
    BY <1>3 DEF RelayResumes
  <2> QED  BY <1>1, <2>1, SessionFrame
<1>4. CASE RelayDrops(s)
  <2>1. /\ relay' = [relay EXCEPT ![s].st = "dropping"]
        /\ UNCHANGED <<current, pc, calls>> /\ status'[s] # "running"
        /\ \A t \in Sessions \ {s} : status'[t] = status[t]
    BY <1>4 DEF RelayDrops, DropStatus
  <2> QED  BY <2>1, SessionFrame
<1>5. CASE RelayDropped(s)
  BY <1>5, SessionFrame DEF RelayDropped, NoRelay
<1>6. CASE RelayEnds(s)
  BY <1>1, <1>6, SessionFrame DEF RelayEnds, NoRelay
<1>7. ASSUME NEW ev \in Events, RelayReads(s, ev) PROVE WatchInv'
  <2>1. /\ relay' \in {relay, [relay EXCEPT ![s].st = ev]} /\ relay[s].st = "reading"
        /\ relay[s].conn = current /\ UNCHANGED <<current, pc, calls>>
        /\ \A t \in Sessions \ {s} : status'[t] = status[t]
    BY <1>7 DEF RelayReads
  <2> QED  BY <1>1, <2>1, SessionFrame
<1> QED  BY <1>2, <1>3, <1>4, <1>5, <1>6, <1>7 DEF RelayStep

\* The requests of the user and the label upserts.
LEMMA RequestWatches ==
    ASSUME IInv, WatchInv, NEW s \in Sessions,
           \/ SessionInitialized(s) \/ ForwardMessage(s) \/ StopSession(s) \/ StopDelivered(s)
           \/ StopNotDelivered(s)
    PROVE  WatchInv'
<1> USE DEF IInv, TypeOK, handlerVars
<1>1. CASE SessionInitialized(s)
  BY <1>1, SessionFrame DEF SessionInitialized, WatchInv, RelayAttached
<1>2. CASE ForwardMessage(s)
  <2>1. relay' = [relay EXCEPT ![s].st = "opening"] /\ UNCHANGED <<current, pc, calls, status>>
    BY <1>2 DEF ForwardMessage, EnsuredRelay
  <2> QED  BY <2>1, SessionFrame
<1>3. CASE StopSession(s) \/ StopDelivered(s) \/ StopNotDelivered(s)
  BY <1>3, HandlerFrame DEF StopSession, StopDelivered, StopNotDelivered, WatchInv, CallOwed
<1> QED  BY <1>1, <1>2, <1>3

LEMMA WatchInductive ==
    ASSUME ~StoreFails PROVE IInv /\ WatchInv /\ [Next]_vars => WatchInv'
<1> SUFFICES ASSUME IInv, WatchInv, [Next]_vars PROVE WatchInv'
  OBVIOUS
<1>1. ASSUME NEW c \in Conns, HandlerStep(c) PROVE WatchInv'
  BY <1>1, RouteWatches, DisconnectWatches, OfflineWatches DEF HandlerStep, OfflineQueryFails
<1>2. ASSUME NEW c \in Conns, \E o \in Outcomes : HelperEnds(c, o) PROVE WatchInv'
  BY <1>2, RouteWatches
<1>3. CASE Environment
  BY <1>3, RouteWatches, DisconnectWatches, RelayWatches, RequestWatches DEF Environment
<1>4. ASSUME NEW w \in writes, PersistLabel(w) PROVE WatchInv'
  BY <1>4, HandlerFrame DEF PersistLabel, handlerVars, WatchInv, CallOwed
<1>5. CASE UNCHANGED vars
  BY <1>5 DEF vars, handlerVars, sessionVars, WatchInv, CallOwed, RelayAttached, RunningIsWatched
<1> QED  BY <1>1, <1>2, <1>3, <1>4, <1>5, ConnectWatches, RelayWatches DEF Next

-----------------------------------------------------------------------------
(* The theorems *)

\* Every variable keeps its type, through any overlap of connections, hooks,
\* relays and label upserts.
THEOREM TypeCorrect == Spec => []TypeOK
<1>1. IInv => TypeOK
  BY DEF IInv
<1> QED  BY <1>1, InitInductive, NextInductive, PTL DEF Spec

\* runner_tunnel.py's finally block is always still ahead for the registered
\* connection: neither newest-wins replacement nor a handler that fails at
\* any await leaves an entry in the registry that nobody will remove.
THEOREM RegistryNeverLeaks == Spec => []RegisteredHasHandler
<1>1. IInv => RegisteredHasHandler
  BY DEF IInv
<1> QED  BY <1>1, InitInductive, NextInductive, PTL DEF Spec

\* With peers that send decodable frames, the generation guard of
\* TunnelRegistry.deregister does what registry.py says: an entry leaves the
\* registry only in the teardown of its own handler.
THEOREM OwnerAloneRemoves == ASSUME ~MalformedHello PROVE Spec => OnlyOwnerRemoves
<1>1. ASSUME [Next]_vars, current # NoConn, current' = NoConn
      PROVE  pc[current] = "gather"
  <2>1. PICK c \in Conns : Teardown(c)
    BY <1>1, ConstantsAssumption
       DEF Next, Environment, HandlerStep, ConnectHook, RelayStep, vars, handlerVars,
           sessionVars, Accept, PeerGone, RejectHello, UndecodableHello, Register,
           LostBeforeHello, HelpersJoined, MarkOffline, OfflineQueryFails, QueryReturns,
           Posted, ReadLabel, ClearFailure, Cleared, ConnectHookAborts, HelperEnds,
           RelayReads, RelayEnds, SessionInitialized, ForwardMessage, StopSession,
           StopDelivered, StopNotDelivered, RelayOpens, RelayResumes, RelayDrops,
           RelayDropped, PersistLabel
  <2>2. current = c
    BY <1>1, <2>1 DEF Teardown, Deregistered
  <2> QED  BY <2>1, <2>2 DEF Teardown
<1>2. [Next]_vars => [current # NoConn /\ current' = NoConn => pc[current] = "gather"]_vars
  BY <1>1
<1> QED  BY <1>2, PTL DEF Spec, OnlyOwnerRemoves

\* While store queries succeed, no session is left running once its runner is
\* gone: a relay that ended cleanly before the drop, a recovery that cleared a
\* failure and an overlapping teardown all leave a hook that marks it failed
\* (what app.py's on_runner_disconnect is for: leave no session "stuck").
THEOREM NeverStuckRunning == ASSUME ~StoreFails PROVE Spec => []NoSessionStuckRunning
<1>1. Init => WatchInv
  BY DEF Init, WatchInv, CallOwed, RelayAttached, RunningIsWatched, NoRelay
<1>2. WatchInv => NoSessionStuckRunning
  BY DEF WatchInv, RunningIsWatched, NoSessionStuckRunning, Quiet
<1> QED  BY <1>1, <1>2, InitInductive, NextInductive, WatchInductive, PTL DEF Spec
=============================================================================
