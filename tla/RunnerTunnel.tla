---------------------------- MODULE RunnerTunnel ----------------------------
(***************************************************************************)
(* The server's side of one runner's tunnel: the WebSocket route handler   *)
(* of every connection the runner makes (server/routes/runner_tunnel.py),  *)
(* the registry entry those handlers fight over                            *)
(* (runner/transports/ws_tunnel/registry.py), the connect and disconnect   *)
(* hooks (server/app.py), and the per-session SSE relay and status cache   *)
(* the hooks repair (server/routes/sessions.py).                           *)
(*                                                                         *)
(* All of it runs on one asyncio loop, so an action is what runs between   *)
(* two awaits.  Blocking store calls run in worker threads: their effect   *)
(* is an action of its own, in any order with respect to the loop.         *)
(***************************************************************************)
EXTENDS Naturals

CONSTANTS
    Conns,          \* the connections this runner id makes, in any overlap
    Sessions,       \* the conversations bound to this runner id
    NoConn,         \* "no entry in the registry"
    NoSession,      \* the connect hook is not working on a session
    MalformedHello, \* TRUE: a peer may send an undecodable first frame
    StoreFails,     \* TRUE: a conversation-store query may raise
    Events,         \* the kinds of events the runner's streams carry
    Stoppable       \* the host-spawned sessions, whose Stop ends the runner

ASSUME ConstantsAssumption ==
    /\ NoConn \notin Conns
    /\ NoSession \notin Sessions
    /\ {MalformedHello, StoreFails} \subseteq BOOLEAN
    /\ Events \subseteq {"idle", "item", "running", "failing"}
    /\ Stoppable \subseteq Sessions

VARIABLES
    current,     \* TunnelRegistry._sessions[runner_id]
    open,        \* connections whose socket the peer still holds open
    pc,          \* where each route handler is
    helper,      \* the sender, ping and receive tasks: how they ended, if one did
    calls,       \* invocations of on_runner_disconnect still ahead
    todo,        \* sessions the connect hook has not reached
    cur,         \* the session it is working on
    relay,       \* _runner_relay_tasks: one SSE relay task per session
    status,      \* _session_status_cache
    label,       \* the persisted last_task_error code
    writes,      \* label upserts handed to a worker thread, not yet run
    intentional, \* _intentional_stop_sessions
    stopping     \* stop requests awaiting the host's acknowledgement

handlerVars == <<pc, helper, calls, todo, cur>>
sessionVars == <<relay, status, label, writes, intentional, stopping>>
vars == <<current, open, handlerVars, sessionVars>>

\* The awaits of on_runner_connect: the store query, POST /v1/sessions, the
\* label read, the step after a read that saw runner_disconnected, and the
\* label upsert.
InConnectHook == {"query", "post", "judge", "clear", "persist"}
\* Phases in which the handler still owes the registry a deregister().
Serving == InConnectHook \cup {"wait", "gather"}
Phases == {"idle", "hello", "offline", "done"} \cup Serving
Outcomes == {"ended", "raised"}
Statuses == {"idle", "running", "failed"}
Labels == {"none", "runner_disconnected", "task_error"}
RelayStates == {"none", "opening", "reading", "running", "failing", "item", "dropping"}
Writers == Conns \cup {"relay", "user"}

TypeOK ==
    /\ current \in Conns \cup {NoConn}
    /\ open \in SUBSET Conns
    /\ pc \in [Conns -> Phases]
    /\ helper \in [Conns -> {"none"} \cup Outcomes]
    /\ calls \in [Conns -> 0 .. 2]
    /\ todo \in [Conns -> SUBSET Sessions]
    /\ cur \in [Conns -> Sessions \cup {NoSession}]
    /\ relay \in [Sessions -> [st : RelayStates, conn : Conns \cup {NoConn}]]
    /\ status \in [Sessions -> Statuses]
    /\ label \in [Sessions -> Labels]
    /\ writes \in SUBSET [s : Sessions, val : Labels, by : Writers]
    /\ intentional \in SUBSET Sessions
    /\ stopping \in SUBSET Sessions

NoRelay == [st |-> "none", conn |-> NoConn]

Init ==
    /\ current = NoConn
    /\ open = {}
    /\ pc = [c \in Conns |-> "idle"]
    /\ helper = [c \in Conns |-> "none"]
    /\ calls = [c \in Conns |-> 0]
    /\ todo = [c \in Conns |-> {}]
    /\ cur = [c \in Conns |-> NoSession]
    /\ relay = [s \in Sessions |-> NoRelay]
    /\ status = [s \in Sessions |-> "idle"]
    /\ label = [s \in Sessions |-> "none"]
    /\ writes = {}
    /\ intentional = {}
    /\ stopping = {}

-----------------------------------------------------------------------------
(* Helpers *)

\* _publish_status: "failed" is sticky against a trailing "idle".
Published(s, v) ==
    IF v = "idle" /\ status[s] = "failed" THEN status ELSE [status EXCEPT ![s] = v]

Persist(s, v, by) == writes' = writes \cup {[s |-> s, val |-> v, by |-> by]}
Persisting(s, by) == \E w \in writes : w.s = s /\ w.by = by

\* _ensure_runner_relay: any relay task of this runner that is not done is
\* reused, whichever connection it is attached to.
EnsuredRelay(s) ==
    IF relay[s].st = "none" THEN [relay EXCEPT ![s].st = "opening"] ELSE relay

\* Mutants: the guard dropped; the deregister forgotten.
Deregistered_Unguarded(c) == NoConn
Deregistered_Forgotten(c) == current

\* TunnelRegistry.deregister(runner_id, session): the generation guard.
Deregistered(c) == IF current = c THEN NoConn ELSE current

\* Mutant: the except branch calls the hook whether or not it is owed.
EnterDisconnectHook_Again(c, reg, n) ==
    IF reg # NoConn
    THEN pc' = [pc EXCEPT ![c] = "done"] /\ calls' = [calls EXCEPT ![c] = 0]
    ELSE pc' = [pc EXCEPT ![c] = "offline"] /\ calls' = [calls EXCEPT ![c] = n - 1]

\* The call of on_runner_disconnect: its guard is evaluated before the first
\* await, so a skipped call and the calls after it happen in the same step.
EnterDisconnectHook(c, reg, n) ==
    IF reg # NoConn \/ n = 0
    THEN pc' = [pc EXCEPT ![c] = "done"] /\ calls' = [calls EXCEPT ![c] = 0]
    ELSE pc' = [pc EXCEPT ![c] = "offline"] /\ calls' = [calls EXCEPT ![c] = n - 1]

\* The connect hook's loop: a session is skipped while the runner is offline,
\* otherwise the hook posts /v1/sessions for it and awaits.
NextSession(c, rest) ==
    IF rest = {} \/ current = NoConn
    THEN /\ pc' = [pc EXCEPT ![c] = "wait"]
         /\ todo' = [todo EXCEPT ![c] = {}]
         /\ cur' = [cur EXCEPT ![c] = NoSession]
    ELSE \E s \in rest :
         /\ pc' = [pc EXCEPT ![c] = "post"]
         /\ todo' = [todo EXCEPT ![c] = rest \ {s}]
         /\ cur' = [cur EXCEPT ![c] = s]

-----------------------------------------------------------------------------
(* The route handler *)

\* The upgrade is accepted; the handler awaits the hello frame.
Accept(c) ==
    /\ pc[c] = "idle"
    /\ pc' = [pc EXCEPT ![c] = "hello"]
    /\ open' = open \cup {c}
    /\ UNCHANGED <<current, helper, calls, todo, cur, sessionVars>>

\* The peer's socket closes or goes silent.
PeerGone(c) ==
    /\ c \in open
    /\ open' = open \ {c}
    /\ UNCHANGED <<current, handlerVars, sessionVars>>

\* A first frame that is not a hello, or of another protocol major, closes
\* the socket and returns: nothing was registered and no hook runs.
RejectHello(c) ==
    /\ pc[c] = "hello"
    /\ pc' = [pc EXCEPT ![c] = "done"]
    /\ open' = open \ {c}
    /\ UNCHANGED <<current, helper, calls, todo, cur, sessionVars>>

\* The peer leaves before its hello: receive_text raises WebSocketDisconnect.
LostBeforeHello(c) ==
    /\ pc[c] = "hello" /\ c \notin open
    /\ EnterDisconnectHook(c, current, 1)
    /\ UNCHANGED <<current, open, helper, todo, cur, sessionVars>>

\* decode_frame raises ValueError with session still None: the handler
\* deregisters the runner id without the generation guard.
UndecodableHello(c) ==
    /\ MalformedHello
    /\ pc[c] = "hello"
    /\ current' = NoConn
    /\ EnterDisconnectHook(c, NoConn, 1)
    /\ open' = open \ {c}
    /\ UNCHANGED <<helper, todo, cur, sessionVars>>

\* TunnelRegistry.register: newest wins.  The entry replaced is retired and
\* its in-flight requests abort, which a relay attached to it sees at its
\* next read (current is no longer its connection).
Register(c) ==
    /\ pc[c] = "hello"
    /\ current' = c
    /\ pc' = [pc EXCEPT ![c] = "query"]
    /\ UNCHANGED <<open, helper, calls, todo, cur, sessionVars>>

\* Mutant: no ping timeout, a dead socket goes unnoticed.
MayEnd_NoPingTimeout(c, o) == current # c /\ o = "ended"

MayEnd(c, o) == c \notin open \/ (current # c /\ o = "ended")

\* A helper task ends.  A stale session ends its sender (sentinel) and its
\* ping and receive loops normally; a lost socket raises out of receive or
\* send, or ends the ping loop.  One exception outweighs any normal end.
HelperEnds(c, o) ==
    /\ pc[c] \in Serving \ {"gather"}
    /\ helper[c] \notin {o, "raised"}
    /\ MayEnd(c, o)
    /\ helper' = [helper EXCEPT ![c] = o]
    /\ UNCHANGED <<current, open, pc, calls, todo, cur, sessionVars>>

\* asyncio.wait(FIRST_COMPLETED) returns; an exception of a completed task is
\* raised through the finally block, and its except branch calls the
\* disconnect hook a second time.
HelpersJoined(c) ==
    /\ pc[c] = "wait" /\ helper[c] # "none"
    /\ pc' = [pc EXCEPT ![c] = "gather"]
    /\ calls' = [calls EXCEPT ![c] = IF helper[c] = "ended" THEN 1 ELSE 2]
    /\ helper' = [helper EXCEPT ![c] = "none"]
    /\ UNCHANGED <<current, open, todo, cur, sessionVars>>

\* The finally block: the guarded deregister, then the disconnect hook, with
\* no await between them.  The socket is closed by whoever retired the entry.
Teardown(c) ==
    /\ pc[c] = "gather"
    /\ current' = Deregistered(c)
    /\ EnterDisconnectHook(c, Deregistered(c), calls[c])
    /\ open' = open \ {c}
    /\ UNCHANGED <<helper, todo, cur, sessionVars>>

-----------------------------------------------------------------------------
(* on_runner_disconnect, after its store query *)

\* Every session bound to the runner is marked failed.  The registry is not
\* consulted again after the query.
MarkOffline(c) ==
    /\ pc[c] = "offline"
    /\ status' = [s \in Sessions |-> "failed"]
    /\ EnterDisconnectHook(c, current, calls[c])
    /\ UNCHANGED <<current, open, helper, todo, cur, relay, label, writes, intentional, stopping>>

\* The query raises: the call is logged and over.
OfflineQueryFails(c) ==
    /\ StoreFails
    /\ pc[c] = "offline"
    /\ EnterDisconnectHook(c, current, calls[c])
    /\ UNCHANGED <<current, open, helper, todo, cur, sessionVars>>

-----------------------------------------------------------------------------
(* on_runner_connect *)

\* The store query returned the sessions bound to the runner.
QueryReturns(c) ==
    /\ pc[c] = "query"
    /\ NextSession(c, Sessions)
    /\ UNCHANGED <<current, open, helper, calls, sessionVars>>

\* POST /v1/sessions came back or raised, it makes no difference: the relay is
\* ensured, and a session that is not failed needs no recovery.
Posted(c) ==
    /\ pc[c] = "post"
    /\ relay' = EnsuredRelay(cur[c])
    /\ IF status[cur[c]] # "failed"
       THEN NextSession(c, todo[c])
       ELSE pc' = [pc EXCEPT ![c] = "judge"] /\ UNCHANGED <<todo, cur>>
    /\ UNCHANGED <<current, open, helper, calls, status, label, writes, intentional, stopping>>

\* The worker thread reads the label: only a runner_disconnected failure is
\* cleared by a passive reconnect.
ReadLabel(c) ==
    /\ pc[c] = "judge"
    /\ IF label[cur[c]] # "runner_disconnected"
       THEN NextSession(c, todo[c])
       ELSE pc' = [pc EXCEPT ![c] = "clear"] /\ UNCHANGED <<todo, cur>>
    /\ UNCHANGED <<current, open, helper, calls, sessionVars>>

\* Back on the loop: the cache is set to idle, whatever it holds by now, and
\* the label upsert is handed to a thread.
ClearFailure(c) ==
    /\ pc[c] = "clear"
    /\ status' = [status EXCEPT ![cur[c]] = "idle"]
    /\ Persist(cur[c], "none", c)
    /\ pc' = [pc EXCEPT ![c] = "persist"]
    /\ UNCHANGED <<current, open, helper, calls, todo, cur, relay, label, intentional, stopping>>

Cleared(c) ==
    /\ pc[c] = "persist" /\ ~Persisting(cur[c], c)
    /\ NextSession(c, todo[c])
    /\ UNCHANGED <<current, open, helper, calls, sessionVars>>

\* The hook outlives its 30 s budget at an await, or raises there.
ConnectHookAborts(c) ==
    /\ pc[c] \in InConnectHook
    /\ pc' = [pc EXCEPT ![c] = "wait"]
    /\ todo' = [todo EXCEPT ![c] = {}]
    /\ cur' = [cur EXCEPT ![c] = NoSession]
    /\ UNCHANGED <<current, open, helper, calls, sessionVars>>

-----------------------------------------------------------------------------
(* The SSE relay of a session *)

\* The relay's GET opens on whatever connection is current.
RelayOpens(s) ==
    /\ relay[s].st = "opening" /\ current # NoConn
    /\ relay' = [relay EXCEPT ![s] = [st |-> "reading", conn |-> current]]
    /\ UNCHANGED <<current, open, handlerVars, status, label, writes, intentional, stopping>>

\* An event of the runner: an idle edge is published at once; a running or a
\* failed edge is published after the label upsert it awaits; an item is
\* appended to the store.
RelayReads(s, ev) ==
    /\ relay[s].st = "reading" /\ relay[s].conn = current
    /\ \/ /\ ev = "idle"
          /\ status' = Published(s, "idle")
          /\ UNCHANGED <<relay, writes>>
       \/ /\ ev = "item"
          /\ relay' = [relay EXCEPT ![s].st = ev]
          /\ UNCHANGED <<status, writes>>
       \/ /\ ev \in {"running", "failing"}
          /\ relay' = [relay EXCEPT ![s].st = ev]
          /\ Persist(s, IF ev = "running" THEN "none" ELSE "task_error", "relay")
          /\ UNCHANGED status
    /\ UNCHANGED <<current, open, handlerVars, label, intentional, stopping>>

\* The await of RelayReads is over.  A running edge also drops the marker of
\* an earlier intentional stop.
RelayResumes(s) ==
    /\ relay[s].st \in {"running", "failing", "item"}
    /\ ~Persisting(s, "relay")
    /\ relay' = [relay EXCEPT ![s].st = "reading"]
    /\ status' = CASE relay[s].st = "running" -> Published(s, "running")
                   [] relay[s].st = "failing" -> Published(s, "failed")
                   [] OTHER -> status
    /\ intentional' = IF relay[s].st = "running" THEN intentional \ {s} ELSE intentional
    /\ UNCHANGED <<current, open, handlerVars, label, writes, stopping>>

\* The runner closes the stream cleanly.
RelayEnds(s) ==
    /\ relay[s].st = "reading" /\ relay[s].conn = current
    /\ relay' = [relay EXCEPT ![s] = NoRelay]
    /\ intentional' = intentional \ {s}
    /\ UNCHANGED <<current, open, handlerVars, status, label, writes, stopping>>

\* Mutant: an abort of the connection does not reach its streams.
StreamLost_NoAbort(s) == relay[s].st = "opening" /\ current = NoConn

\* The stream's connection was replaced or deregistered (ConnectionError), or
\* there was none to open on (ConnectError).
StreamLost(s) ==
    \/ relay[s].st = "reading" /\ relay[s].conn # current
    \/ relay[s].st = "opening" /\ current = NoConn

\* Mutant: the relay exits without a status event.
DropStatus_Silent(s) == status

\* A quiet idle after an intentional stop, otherwise failed.
DropStatus(s) == Published(s, IF s \in intentional THEN "idle" ELSE "failed")

\* The relay's except clause; the failure is persisted as runner_disconnected.
RelayDrops(s) ==
    /\ StreamLost(s)
    /\ relay' = [relay EXCEPT ![s].st = "dropping"]
    /\ status' = DropStatus(s)
    /\ Persist(s, IF s \in intentional THEN "none" ELSE "runner_disconnected", "relay")
    /\ intentional' = intentional \ {s}
    /\ UNCHANGED <<current, open, handlerVars, label, stopping>>

RelayDropped(s) ==
    /\ relay[s].st = "dropping" /\ ~Persisting(s, "relay")
    /\ relay' = [relay EXCEPT ![s] = NoRelay]
    /\ intentional' = intentional \ {s}
    /\ UNCHANGED <<current, open, handlerVars, status, label, writes, stopping>>

-----------------------------------------------------------------------------
(* Requests of the user, and the worker threads *)

\* A worker thread runs one label upsert.
PersistLabel(w) ==
    /\ w \in writes
    /\ writes' = writes \ {w}
    /\ label' = [label EXCEPT ![w.s] = w.val]
    /\ UNCHANGED <<current, open, handlerVars, relay, status, intentional, stopping>>

\* The session-init handshake before a message succeeded: it clears any
\* stale failure.
SessionInitialized(s) ==
    /\ current # NoConn /\ status[s] = "failed"
    /\ status' = [status EXCEPT ![s] = "idle"]
    /\ Persist(s, "none", "user")
    /\ UNCHANGED <<current, open, handlerVars, relay, label, intentional, stopping>>

\* A message is forwarded: the relay must be subscribed first.
ForwardMessage(s) ==
    /\ current # NoConn /\ relay[s].st = "none"
    /\ relay' = EnsuredRelay(s)
    /\ UNCHANGED <<current, open, handlerVars, status, label, writes, intentional, stopping>>

\* stop_session on a host-spawned session marks the coming drop intentional
\* and asks the host to terminate the runner.
StopSession(s) ==
    /\ s \in Stoppable \ stopping /\ current # NoConn
    /\ intentional' = intentional \cup {s}
    /\ stopping' = stopping \cup {s}
    /\ UNCHANGED <<current, open, handlerVars, relay, status, label, writes>>

\* The host stopped the runner: its sockets close.
StopDelivered(s) ==
    /\ s \in stopping
    /\ stopping' = stopping \ {s}
    /\ open' = {}
    /\ UNCHANGED <<current, handlerVars, relay, status, label, writes, intentional>>

\* The host is offline, too slow, or reports a failure.
StopNotDelivered(s) ==
    /\ s \in stopping
    /\ stopping' = stopping \ {s}
    /\ intentional' = intentional \ {s}
    /\ UNCHANGED <<current, open, handlerVars, relay, status, label, writes>>

-----------------------------------------------------------------------------

ConnectHook(c) ==
    \/ QueryReturns(c) \/ Posted(c) \/ ReadLabel(c) \/ ClearFailure(c) \/ Cleared(c)
    \/ ConnectHookAborts(c)

HandlerStep(c) ==
    \/ LostBeforeHello(c) \/ HelpersJoined(c) \/ Teardown(c)
    \/ MarkOffline(c) \/ OfflineQueryFails(c)

RelayStep(s) == RelayOpens(s) \/ RelayResumes(s) \/ RelayDrops(s) \/ RelayDropped(s)

Environment ==
    \/ \E c \in Conns : \/ Accept(c) \/ PeerGone(c) \/ RejectHello(c)
                        \/ UndecodableHello(c) \/ Register(c)
    \/ \E s \in Sessions : \/ \E ev \in Events : RelayReads(s, ev)
                           \/ RelayEnds(s) \/ SessionInitialized(s) \/ ForwardMessage(s)
                           \/ StopSession(s) \/ StopDelivered(s) \/ StopNotDelivered(s)

Next ==
    \/ Environment
    \/ \E c \in Conns : \/ HandlerStep(c) \/ ConnectHook(c)
                        \/ \E o \in Outcomes : HelperEnds(c, o)
    \/ \E s \in Sessions : RelayStep(s)
    \/ \E w \in writes : PersistLabel(w)

\* The loop runs every ready callback, a thread every job: handlers, hooks
\* (bounded by their timeout), relays and upserts are weakly fair.  Peers and
\* users owe nothing.
Fairness ==
    /\ \A c \in Conns : /\ WF_vars(HandlerStep(c))
                        /\ WF_vars(ConnectHook(c))
                        /\ WF_vars(\E o \in Outcomes : HelperEnds(c, o))
    /\ \A s \in Sessions : WF_vars(RelayStep(s))
    /\ WF_vars(\E w \in writes : PersistLabel(w))

Spec == Init /\ [][Next]_vars /\ Fairness

-----------------------------------------------------------------------------
(* Properties *)

\* A registered connection has a handler that still owes its deregister:
\* nothing the handlers, hooks and replacements do leaves an entry behind.
RegisteredHasHandler == current # NoConn => pc[current] \in Serving

\* Newest wins, and only newest: the entry changes hands at a register, and
\* leaves the registry only in the teardown of the handler that owns it
\* ("This prevents stale route handlers from deleting a newer tunnel",
\* registry.py).  It breaks once a peer can send an undecodable first frame.
OnlyOwnerRemoves ==
    [][current # NoConn /\ current' = NoConn => pc[current] = "gather"]_vars

\* The runner is gone and every handler, relay and upsert has finished.
Quiet ==
    /\ current = NoConn /\ writes = {}
    /\ \A c \in Conns : pc[c] \in {"idle", "done"}
    /\ \A s \in Sessions : relay[s].st = "none"

\* No session is left running once its runner is gone and every handler,
\* relay and upsert has finished: whichever of relay, recovery and teardown
\* comes last, the cache is not stuck (app.py: "leave it stuck running").
NoSessionStuckRunning == Quiet => \A s \in Sessions : status[s] # "running"

\* A connection whose socket is gone leaves the registry, even when its
\* connect hook is still busy or a newer connection raced its teardown.
DeadTunnelLeaves ==
    \A c \in Conns : (current = c /\ c \notin open) ~> current # c

\* A relay attached to a replaced or deregistered connection notices: no
\* relay hangs on a stream nobody feeds.
OrphanRelayEnds ==
    \A s \in Sessions, c \in Conns :
        (relay[s].conn = c /\ current # c) ~> relay[s].conn # c
=============================================================================
