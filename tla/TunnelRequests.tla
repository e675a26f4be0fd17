--------------------------- MODULE TunnelRequests ---------------------------
(***************************************************************************)
(* HTTP requests tunneled through a runner's WebSocket: the caller's side  *)
(* (WSTunnelTransport in runner/transports/ws_tunnel/transport.py), the    *)
(* reassembly state in the registry (registry.py) and the runner's         *)
(* dispatch of each request to its ASGI app (serve.py).                    *)
(*                                                                         *)
(* Three schedulers meet here: the caller's loop, the server's WebSocket   *)
(* loop and the runner's.  What one hands to another                       *)
(* (call_soon_threadsafe, a frame on the socket) waits in a queue and is   *)
(* an action of its own when it runs.  Frames of different requests never  *)
(* affect each other, so every request has its own queue at each hop.      *)
(***************************************************************************)
EXTENDS Naturals, Sequences

CONSTANTS
    Conns,        \* the connections the runner makes
    Reqs,         \* the requests
    Chunks,       \* how many body chunks the runner's app produces
    NoConn,       \* no tunnel registered; no session bound
    CancelInClose \* TRUE: a cancellation may land in aclose()

ASSUME ConstantsAssumption ==
    /\ NoConn \notin Conns
    /\ Chunks \in Nat \ {0}
    /\ CancelInClose \in BOOLEAN

VARIABLES
    \* the tunnel
    current,   \* TunnelRegistry._sessions[runner_id]
    up,        \* connections whose socket is open
    inFlight,  \* RunnerSession.in_flight of each connection
    posted,    \* frames scheduled on the WebSocket loop (send_text)
    toRunner,  \* frames on their way to the runner
    toServer,  \* frames on their way to the server
    \* the caller
    phase,     \* where it is
    conn,      \* RequestState.session
    callbacks, \* callbacks scheduled on its loop
    head,      \* RequestState.head_future
    queue,     \* RequestState.body_queue
    aborted,   \* RequestState.aborted_with is set
    delivered, \* chunks it was given
    \* the runner
    task,      \* the dispatch task
    sent       \* chunks the app has sent

tunnelVars == <<current, up, inFlight, posted, toRunner, toServer>>
replyVars == <<callbacks, head, queue, aborted>>
callerVars == <<phase, conn, replyVars, delivered>>
runnerVars == <<task, sent>>
vars == <<tunnelVars, callerVars, runnerVars>>

\* The caller awaits: the acknowledgement of its frame, the head, a chunk.
Awaiting == {"sending", "head", "reading"}
\* The caller has the response, not iterated yet or at a chunk of it.
Using == {"answered", "using"}
Over == {"done", "failed", "left"}
Phases == {"idle", "leaving"} \cup Awaiting \cup Using \cup Over
Active == {"running", "streaming"}

TypeOK ==
    /\ current \in Conns \cup {NoConn}
    /\ up \in SUBSET Conns
    /\ inFlight \in [Conns -> SUBSET Reqs]
    /\ posted \in SUBSET [req : Reqs, kind : {"request", "cancel"}]
    /\ toRunner \in [Reqs -> Seq({"request", "cancel"})]
    /\ toServer \in [Reqs -> Seq({"head", "body", "end"})]
    /\ phase \in [Reqs -> Phases]
    /\ conn \in [Reqs -> Conns \cup {NoConn}]
    /\ callbacks \in [Reqs -> Seq({"head", "body", "end", "abort"})]
    /\ head \in [Reqs -> {"pending", "set", "error"}]
    /\ queue \in [Reqs -> Seq({"body", "None"})]
    /\ aborted \in SUBSET Reqs
    /\ delivered \in [Reqs -> Nat]
    /\ task \in [Reqs -> Active \cup {"none", "ended", "crashed", "cancelled"}]
    /\ sent \in [Reqs -> 0 .. Chunks]

Init ==
    /\ current = NoConn
    /\ up = {}
    /\ inFlight = [c \in Conns |-> {}]
    /\ posted = {}
    /\ toRunner = [r \in Reqs |-> <<>>]
    /\ toServer = [r \in Reqs |-> <<>>]
    /\ phase = [r \in Reqs |-> "idle"]
    /\ conn = [r \in Reqs |-> NoConn]
    /\ callbacks = [r \in Reqs |-> <<>>]
    /\ head = [r \in Reqs |-> "pending"]
    /\ queue = [r \in Reqs |-> <<>>]
    /\ aborted = {}
    /\ delivered = [r \in Reqs |-> 0]
    /\ task = [r \in Reqs |-> "none"]
    /\ sent = [r \in Reqs |-> 0]

Goto(r, p) == phase' = [phase EXCEPT ![r] = p]

IsOpen(r) == conn[r] # NoConn /\ r \in inFlight[conn[r]]

-----------------------------------------------------------------------------
(* The registry *)

\* Mutant: the abort wakes the readers without an error for them.
AbortCallback_NoError == "end"

AbortCallback == "abort"

\* _abort_session_inflight: every request of the connection is told, and
\* forgotten.
Abort(c) ==
    /\ callbacks' = [r \in Reqs |->
          IF r \in inFlight[c] THEN Append(callbacks[r], AbortCallback) ELSE callbacks[r]]
    /\ inFlight' = [inFlight EXCEPT ![c] = {}]

\* register, of a fresh connection: newest wins, and the socket of the
\* connection it replaces is closed.
Register(c) ==
    /\ c \notin up /\ current # c /\ \A r \in Reqs : conn[r] # c
    /\ current' = c
    /\ up' = (up \ {current}) \cup {c}
    /\ IF current = NoConn THEN UNCHANGED <<callbacks, inFlight>> ELSE Abort(current)
    /\ UNCHANGED <<posted, toRunner, toServer, phase, conn, head, queue, aborted, delivered,
                   runnerVars>>

\* deregister, by the teardown of the connection's own handler: its socket
\* was lost, or its runner fell silent.
Deregister(c) ==
    /\ current = c
    /\ current' = NoConn
    /\ up' = up \ {c}
    /\ Abort(c)
    /\ UNCHANGED <<posted, toRunner, toServer, phase, conn, head, queue, aborted, delivered,
                   runnerVars>>

\* The socket is lost, and with it what is on its way to the server, or the
\* part of it that belongs to some of the requests: what is read before the
\* loss shows is routed before this step.
LinkDown(c) ==
    /\ c \in up
    /\ up' = up \ {c}
    /\ \E lost \in SUBSET {r \in Reqs : conn[r] = c} :
          toServer' = [r \in Reqs |-> IF r \in lost THEN <<>> ELSE toServer[r]]
    /\ UNCHANGED <<current, inFlight, posted, toRunner, callerVars, runnerVars>>

Closed(r) == inFlight' = [inFlight EXCEPT ![conn[r]] = @ \ {r}]

\* The _enqueue callback of send_text, on the WebSocket loop: a frame for a
\* connection that is no longer current is refused.  The acknowledgement
\* resumes a sender that is still there; one that leaves does not mind.
RunPosted(m) ==
    LET r == m.req
        accepted == current = conn[r]
        resumes == phase[r] = IF m.kind = "request" THEN "sending" ELSE "leaving"
    IN  /\ m \in posted
        /\ posted' = posted \ {m}
        /\ toRunner' = IF accepted THEN [toRunner EXCEPT ![r] = Append(@, m.kind)] ELSE toRunner
        /\ IF ~resumes THEN UNCHANGED <<phase, inFlight>>
           ELSE IF m.kind = "request" /\ accepted THEN Goto(r, "head") /\ UNCHANGED inFlight
           ELSE Goto(r, IF m.kind = "request" THEN "failed" ELSE "left") /\ Closed(r)
        /\ UNCHANGED <<current, up, toServer, conn, replyVars, delivered, runnerVars>>

\* route_response_frame, called by the receive loop of the current connection:
\* a frame of a request that is no longer in flight is dropped.
RouteFrame(r) ==
    /\ toServer[r] # <<>> /\ conn[r] = current
    /\ toServer' = [toServer EXCEPT ![r] = Tail(@)]
    /\ callbacks' = IF IsOpen(r)
                    THEN [callbacks EXCEPT ![r] = Append(@, Head(toServer[r]))]
                    ELSE callbacks
    /\ UNCHANGED <<current, up, inFlight, posted, toRunner, phase, conn, head, queue, aborted,
                   delivered, runnerVars>>

-----------------------------------------------------------------------------
(* The caller *)

\* handle_async_request: the runner is online, its reassembly state is
\* allocated and the request frame is scheduled on the WebSocket loop.
Open(r) ==
    /\ phase[r] = "idle" /\ current # NoConn
    /\ conn' = [conn EXCEPT ![r] = current]
    /\ inFlight' = [inFlight EXCEPT ![current] = @ \cup {r}]
    /\ posted' = posted \cup {[req |-> r, kind |-> "request"]}
    /\ Goto(r, "sending")
    /\ UNCHANGED <<current, up, toRunner, toServer, replyVars, delivered, runnerVars>>

\* The runner is offline: ConnectError.
Refuse(r) ==
    /\ phase[r] = "idle" /\ current = NoConn
    /\ Goto(r, "failed")
    /\ UNCHANGED <<tunnelVars, conn, replyVars, delivered, runnerVars>>

\* Mutants: the sentinel of an abort does not reach the body queue; an event
\* is pushed in the place of None.
Sentinel_Silent(kind) == IF kind = "end" THEN <<"None">> ELSE <<>>

Sentinel_Event(kind) == IF kind \in {"end", "abort"} THEN <<kind>> ELSE <<>>

\* end_response_body and abort_request_state both push None.
Sentinel(kind) == IF kind \in {"end", "abort"} THEN <<"None">> ELSE <<>>

\* A callback runs on the caller's loop: _set_response_head,
\* _enqueue_response_body, _end_response_body or _abort_request_state.
RunCallback(r) ==
    /\ callbacks[r] # <<>>
    /\ LET kind == Head(callbacks[r])
       IN  /\ head' = CASE head[r] = "pending" /\ kind = "head" -> [head EXCEPT ![r] = "set"]
                        [] head[r] = "pending" /\ kind = "abort" -> [head EXCEPT ![r] = "error"]
                        [] OTHER -> head
           /\ aborted' = IF kind = "abort" THEN aborted \cup {r} ELSE aborted
           /\ queue' = [queue EXCEPT ![r] =
                 @ \o IF kind = "body" THEN <<"body">> ELSE Sentinel(kind)]
    /\ callbacks' = [callbacks EXCEPT ![r] = Tail(@)]
    /\ UNCHANGED <<tunnelVars, phase, conn, delivered, runnerVars>>

\* The head future resolves: the response is returned, or the slot is closed
\* and the exception raised.
HeadReady(r) ==
    /\ phase[r] = "head" /\ head[r] # "pending"
    /\ IF head[r] = "set" THEN Goto(r, "answered") /\ UNCHANGED inFlight
                          ELSE Goto(r, "failed") /\ Closed(r)
    /\ UNCHANGED <<current, up, posted, toRunner, toServer, conn, replyVars, delivered,
                   runnerVars>>

\* The caller asks for the next chunk, when it is ready to.
Iterate(r) ==
    /\ phase[r] \in Using
    /\ Goto(r, "reading")
    /\ UNCHANGED <<tunnelVars, conn, replyVars, delivered, runnerVars>>

\* The iterator takes an item off the body queue; aborted_with is looked at
\* before the item.
Take(r) ==
    /\ phase[r] = "reading" /\ queue[r] # <<>>
    /\ queue' = [queue EXCEPT ![r] = Tail(@)]
    /\ \/ /\ r \in aborted
          /\ Goto(r, "failed") /\ Closed(r)
          /\ UNCHANGED delivered
       \/ /\ r \notin aborted /\ Head(queue[r]) = "None"
          /\ Goto(r, "done") /\ Closed(r)
          /\ UNCHANGED delivered
       \/ /\ r \notin aborted /\ Head(queue[r]) = "body"
          /\ Goto(r, "using")
          /\ delivered' = [delivered EXCEPT ![r] = @ + 1]
          /\ UNCHANGED inFlight
    /\ UNCHANGED <<current, up, posted, toRunner, toServer, conn, callbacks, head, aborted,
                   runnerVars>>

\* Mutant: the except clause and the iterator's finally block are not there.
Cancelled_Leaks(r) == UNCHANGED inFlight

Cancelled(r) == Closed(r)

\* The caller's task is cancelled while it awaits: the except or the finally
\* block closes the request first, so aclose() finds it closed and sends
\* nothing.
Cancel(r) ==
    /\ phase[r] \in Awaiting
    /\ Goto(r, "left") /\ Cancelled(r)
    /\ UNCHANGED <<current, up, posted, toRunner, toServer, conn, replyVars, delivered,
                   runnerVars>>

\* aclose(): the caller leaves a response it has not read to its end.  The
\* runner is told, unless the request is closed already.
Leave(r) ==
    /\ phase[r] \in Using
    /\ \/ /\ IsOpen(r)
          /\ posted' = posted \cup {[req |-> r, kind |-> "cancel"]}
          /\ Goto(r, "leaving")
          /\ UNCHANGED inFlight
       \/ /\ ~IsOpen(r)
          /\ Goto(r, "left") /\ Closed(r)
          /\ UNCHANGED posted
    /\ UNCHANGED <<current, up, toRunner, toServer, conn, replyVars, delivered, runnerVars>>

\* The caller is cancelled in aclose(), which then closes nothing; the
\* iterator's finally block does, if the iteration had begun.
CancelLeaving(r) ==
    /\ CancelInClose
    /\ phase[r] = "leaving"
    /\ Goto(r, "left")
    /\ IF delivered[r] > 0 THEN Closed(r) ELSE UNCHANGED inFlight
    /\ UNCHANGED <<current, up, posted, toRunner, toServer, conn, replyVars, delivered,
                   runnerVars>>

-----------------------------------------------------------------------------
(* The runner *)

\* _handle_tunnel_frame: a request starts a dispatch task, a cancel ends it.
RunnerReads(r) ==
    /\ toRunner[r] # <<>> /\ conn[r] \in up
    /\ toRunner' = [toRunner EXCEPT ![r] = Tail(@)]
    /\ task' = CASE Head(toRunner[r]) = "request" -> [task EXCEPT ![r] = "running"]
                 [] Head(toRunner[r]) = "cancel" /\ task[r] \in Active ->
                        [task EXCEPT ![r] = "cancelled"]
                 [] OTHER -> task
    /\ UNCHANGED <<current, up, inFlight, posted, toServer, callerVars, sent>>

\* The app writes to the socket, which must be open.
Sends(r, frames) ==
    /\ conn[r] \in up
    /\ toServer' = [toServer EXCEPT ![r] = @ \o frames]
    /\ UNCHANGED <<current, up, inFlight, posted, toRunner, callerVars>>

SendHead(r) ==
    /\ task[r] = "running"
    /\ task' = [task EXCEPT ![r] = "streaming"]
    /\ Sends(r, <<"head">>)
    /\ UNCHANGED sent

SendChunk(r) ==
    /\ task[r] = "streaming" /\ sent[r] < Chunks
    /\ sent' = [sent EXCEPT ![r] = @ + 1]
    /\ Sends(r, <<"body">>)
    /\ UNCHANGED task

SendEnd(r) ==
    /\ task[r] = "streaming" /\ sent[r] = Chunks
    /\ task' = [task EXCEPT ![r] = "ended"]
    /\ Sends(r, <<"end">>)
    /\ UNCHANGED sent

\* Mutant: the dispatch of an app that raised just ends.
CrashFrames_None(t) == <<>>

\* The app raised before its head, and the dispatch makes up a 500; or later,
\* and the dispatch ends the response where it is, once more if need be.
CrashFrames(t) == IF t = "running" THEN <<"head", "body", "end">> ELSE <<"end">>

AppCrashes(r) ==
    /\ task[r] \in {"running", "streaming", "ended"}
    /\ Sends(r, CrashFrames(task[r]))
    /\ task' = [task EXCEPT ![r] = "crashed"]
    /\ UNCHANGED sent

\* Mutant: the dispatch tasks of a lost connection run on.
Orphaned_Kept(r) == FALSE

Orphaned(r) == task[r] \in Active

\* _cancel_dispatch_tasks: the runner notices that its connection is gone.
RunnerNotices(c) ==
    /\ c # NoConn /\ c \notin up
    /\ \E r \in Reqs : conn[r] = c /\ (Orphaned(r) \/ toRunner[r] # <<>>)
    /\ task' = [r \in Reqs |-> IF conn[r] = c /\ Orphaned(r) THEN "cancelled" ELSE task[r]]
    /\ toRunner' = [r \in Reqs |-> IF conn[r] = c THEN <<>> ELSE toRunner[r]]
    /\ UNCHANGED <<current, up, inFlight, posted, toServer, callerVars, sent>>

-----------------------------------------------------------------------------

\* What the loops owe a request: the callbacks that are scheduled run.
ServerStep(r) == RouteFrame(r) \/ \E m \in posted : m.req = r /\ RunPosted(m)
CallerStep(r) == RunCallback(r) \/ HeadReady(r) \/ Take(r)
AppStep(r) == SendHead(r) \/ SendChunk(r) \/ SendEnd(r) \/ AppCrashes(r)

Next ==
    \/ \E c \in Conns : Register(c) \/ Deregister(c) \/ LinkDown(c) \/ RunnerNotices(c)
    \/ \E r \in Reqs :
          \/ ServerStep(r) \/ CallerStep(r) \/ RunnerReads(r) \/ AppStep(r)
          \/ Open(r) \/ Refuse(r) \/ Iterate(r) \/ Cancel(r) \/ Leave(r) \/ CancelLeaving(r)

\* Scheduled callbacks and frames of an open socket are handled, both ends
\* notice a lost socket (RunnerTunnel, DeadTunnelLeaves).  Neither the caller,
\* nor the app, nor the network owes anything.
Fairness ==
    /\ \A r \in Reqs : /\ WF_vars(RouteFrame(r))
                       /\ WF_vars(\E m \in posted : m.req = r /\ RunPosted(m))
                       /\ WF_vars(RunCallback(r))
                       /\ WF_vars(HeadReady(r) \/ Take(r))
                       /\ WF_vars(RunnerReads(r))
    /\ \A c \in Conns : WF_vars(c \notin up /\ Deregister(c)) /\ WF_vars(RunnerNotices(c))

Spec == Init /\ [][Next]_vars /\ Fairness

-----------------------------------------------------------------------------
(* Properties *)

\* The response a caller sees is one RequestStream allows: whole and in order,
\* or an exception.  In particular a tunnel that is lost or replaced in the
\* middle of a response never looks like the end of it (transport.py: "the
\* abort propagates as a ``ConnectionError``").
Stream == INSTANCE RequestStream WITH
    st <- [r \in Reqs |->
              CASE phase[r] \in {"sending", "head"} -> "asked"
                [] phase[r] \in Using \cup {"reading"} -> "open"
                [] phase[r] = "leaving" -> "left"
                [] OTHER -> phase[r]],
    got <- delivered,
    broken <- {r \in Reqs : task[r] = "crashed"}

StreamSpec == Stream!Spec

\* An entry of an in-flight map belongs to a caller that has not finished, on
\* the connection that is registered: no path out of a request, a replaced or
\* a closed connection leaves reassembly state behind.
InFlightOwned ==
    \A c \in Conns : \A r \in inFlight[c] :
        c = current /\ conn[r] = c /\ phase[r] \notin Over \cup {"idle"}

\* A caller whose connection is replaced or lost is not left waiting for an
\* acknowledgement, a head or a chunk that can no longer come.
LostRequestEnds ==
    \A r \in Reqs :
        (phase[r] \in Awaiting /\ conn[r] # current) ~> phase[r] \notin Awaiting

\* A caller waiting for the response of an app that has ended it gets an
\* answer, the whole or the broken-off one or an error.
ServedRequestEnds ==
    \A r \in Reqs :
        (phase[r] \in Awaiting /\ task[r] \in {"ended", "crashed"}) ~> phase[r] \notin Awaiting

\* A caller that leaves a response it was using stops the runner's work for it.
LeavingStopsRunner == \A r \in Reqs : phase[r] = "leaving" ~> task[r] \notin Active
=============================================================================
