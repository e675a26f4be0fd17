# OmniCraft in TLA+

OmniCraft runs AI coding agents behind one server. A *server* (FastAPI) keeps
the conversations and serves browsers; a *runner* on a user's machine runs the
turns; a *harness* subprocess per conversation talks to a vendor's agent. The
runner dials the server over one WebSocket, and the server sends HTTP requests
back through it. The logic of the program that is hard to get right is in what
joins those parts: who owns a tunnel, what happens to a request when the tunnel
goes, which subprocess serves a conversation, which turn a message belongs to,
what a browser sees of a turn that is still streaming, who is asked for an
approval and who is woken for it. Nearly all of it is asyncio code, so it
interleaves at awaits; some of it crosses threads, processes and event loops.

These modules model that logic, TLC checks it on small instances and TLAPS
proves most of the safety properties for every instance. Paths below are
relative to `src/omnicraft/`.

## Inventory

| Component | State | Operations | Talks to | What is hard | What makes it correct |
|---|---|---|---|---|---|
| Runner tunnel registry, `runner/transports/ws_tunnel/registry.py` | `_sessions`, per session `in_flight` and `outbound_queue`, connect waiters | register (newest wins), deregister (generation guard), send_text, open/close request, route a frame, wait for a connect | route handler, transport, routing | handlers of two connections overlap; callbacks run on another loop later | an entry has a live owner; only the owner removes it; no reassembly state without an owner |
| Tunnel route handler, `server/routes/runner_tunnel.py` | the phase of each connection, its sender, receiver and ping tasks | accept, hello, register, connect hook, join helpers, teardown, disconnect hook | registry, hooks | half-open sockets, a helper that raises, an exception inside the `finally` block | a dead tunnel leaves; the disconnect hook is called for it and not for a newer one |
| Connect and disconnect hooks, `server/app.py` | none of their own | post the session init, repair labels; mark sessions failed | conversation store, relay, status cache | awaits between a check and its use | a session is marked offline only while its runner is |
| Session relay and status cache, `server/routes/sessions.py` | `_runner_relay_tasks`, `_session_status_cache`, the persisted `last_task_error` label, `_intentional_stop_sessions` | ensure relay, read the runner's event stream, publish a status, drop, stop a session | tunnel transport, store, streams | several writers of one status, each behind an await | no session stays "running" after its runner has gone |
| Relay of text, `server/routes/sessions.py` | `text_acc`, `_interrupt_fenced_sessions` | gather, flush at a tool call or terminal event, fence on Stop | in-flight text, store, streams | the save is a thread's; a Stop while events are still in the stream | what was watched is saved once, in order |
| Live event streams, `runtime/session_stream.py` | subscribers with bounded queues | publish, subscribe, close, shutdown_all | relay, SSE routes | overflow racing the end sentinel; snapshot and live tail | a subscriber sees a gap-free run, or is cut off |
| In-flight text, `runtime/inflight_text.py` | partial text per conversation | record a publish, snapshot, reset | live streams | a client that connects while a segment is being saved | it holds what is not saved yet |
| Tunnel transport, `runner/transports/ws_tunnel/transport.py` | the caller's side of a request | send, await the head, iterate the body, `aclose()` | registry | cancellation at any await, a tunnel lost mid-response | a response is whole, in order, or an exception; every request ends |
| Runner side of the tunnel, `runner/transports/ws_tunnel/serve.py` | dispatch tasks by request id | dispatch to the ASGI app, cancel, reconnect | the runner's app | an app that raises before, in or after its response | a response always gets an end frame; a lost tunnel stops the work for it |
| Harness process manager, `runtime/harnesses/process_manager.py` | `_entries`, spawn locks, release generations, in-flight markers | get_client, release, the idle reaper, shutdown | runner app, OS processes | awaits while a lock is held, cancellation in the middle of a close or spawn, snapshots that age | one subprocess per conversation, none forgotten, none taken from a running turn |
| Runner app: turns, `runner/app.py` | ingest gate, `_session_message_buffers`, `_session_histories`, `_active_turns`, `_live_response_id`, `_interrupted_sessions` | ingest, start, forward, continue, interrupt, end a turn | process manager, harness, server | a message that races the end of the turn it is forwarded into; an interrupt that outlives its turn | one turn at a time; no message lost or stranded; idle once all is done |
| Harness scaffold, `runtime/harnesses/_scaffold.py`, `_executor_adapter.py` | turn contexts, injection queues, cancelled events | start or inject, interrupt, teardown | executor, runner | a turn that ends while a message is on its way into it | a finished turn takes no message; one terminal event per turn |
| Executors, `inner/claude_sdk_executor.py` | the live SDK client | run a turn, inject, interrupt | vendor SDK | which part of the history a live client is sent | every message reaches the model |
| Approvals of native harnesses, `server/routes/sessions.py`, `runtime/pending_elicitations.py`, `claude_native_hook.py` | parked waits by prompt id, tombstones, cards, deferred clears | post, park, answer, unpark, clear | block notifier, streams | a long poll that is severed and posted again while the old wait unwinds | the wait that is parked gets the verdict; a card is up exactly while someone is asked |
| Sub-agent block notifier, `runtime/subagent_block_notifier.py` | arm and resolve signal per prompt, a handler task per arm | observe a request, observe a resolution, deliver, retry | sessions API | an answer that races the wake; arms are kept by prompt, not by handler | a parent is woken for a block that still shows, once |
| Runner-side approvals, `runner/pending_approvals.py` | futures of waiters | register, resolve, time out | policies | verdict, timeout and cancellation at once | the registry and the waiters agree |
| Pending inputs, `runtime/pending_inputs.py` | FIFO of unechoed messages per conversation | record, resolve by id or text, evict by age | sessions API, forwarders | echoes out of order, rollback | every message is resolved once, with its own files |
| Scheduled agents, `server/scheduled_agents.py` | jobs in a JSON file | due, fire, record, edit | sessions API | a job fired from an old copy | no overlap; the schedule advances |
| MCP pools, `server/mcp_pool.py`, `runner/mcp_manager.py` | connections per agent, LRU | ensure warm, call, evict, shut down | MCP servers | one shared prewarm task, cancelled by others | no closed connection is used, no open one forgotten |
| Host registry and daemon, `server/host_registry.py`, `server/routes/host_tunnel.py`, `host/` | host connections, request futures; runner processes on the machine | register, launch, stop, adopt | runner tunnel | restart of the host, reused pids | a runner has one parent |
| Terminals, `terminals/` | tmux sessions, attached clients | launch, attach, reap | runner | a reaper and an attach | no pane in use is reaped |
| Stores, policies, agent loop, native forwarders, CLI, web, SDKs | | | | sequential, or defined by a vendor | not modelled, see below |

## Modules

| Module | What it models |
|---|---|
| `RunnerTunnel` | The handlers of all connections of one runner id, the registry entry they compete for, the two hooks, and per session the relay, the status cache, the label upserts and a Stop. |
| `TunnelRequests` | The life of HTTP requests over the tunnel: the caller, the registry's reassembly state, both directions of the socket, the dispatch task in the runner. |
| `RequestStream` | What the transport promises about a response. `TunnelRequests` is shown to implement it. |
| `HarnessProcessManager` | get_client, release, reaper and shutdown over the subprocesses of several conversations. |
| `SessionTurns` | The turns of one conversation: ingest gate, buffer, turn slot, continuations and interrupts in the runner; turn contexts and injections in the harness; what a request puts before the model. |
| `LiveText` | The text of one session: the relay's segments and their saves, the replay, the fence of a Stop, and clients with bounded queues that connect at any point. |
| `BlockNotifier` | The handler tasks of the notifier for one prompt. |
| `Elicitations` | One approval prompt from the hook to the cards and back. It extends `BlockNotifier`: each publication of a card is one step with what the notifier observes of it. |
| `MC...` | Symmetry and constant definitions for TLC. |
| `..._proofs` | Theorems and proofs about the module of the same name. |

The systems meet at narrow interfaces, so each is checked with the others as its
environment. `TunnelRequests` takes from `RunnerTunnel` only that a lost socket
is noticed (`DeadTunnelLeaves` there, a fairness condition here).
`HarnessProcessManager` takes from the runner's app only what a turn does to it,
and `SessionTurns` takes from the manager that a request reaches a harness or
fails. `LiveText` takes from `SessionTurns` the order of a turn's events as the
runner streams them, with the one turn a Stop may cut without a terminal event.

### How the state corresponds to the code

`RunnerTunnel`. Everything in it runs on the server's loop; an action is what
runs between two awaits. `pc[c]` is the await at which the handler of connection
`c` stands: `hello` (receiving the first frame), `query`, `post`, `judge`,
`clear`, `persist` (inside `_on_runner_connect`), `wait` (asyncio.wait on the
helper tasks), `gather` (joining the cancelled ones), `offline` (the store query
of `_on_runner_disconnect`). `helper[c]` is how the first helper task ended;
`raised` makes the `finally` block of the handler raise, so that the outer
`except` calls the disconnect hook a second time: that is what `calls` counts.
Label upserts run in worker threads: they sit in `writes` until `PersistLabel`.
`relay[s].st` is the await of the SSE relay of `s`, named for the event it is
busy with. `RelayReads` takes one event at a time, as if each body frame carried
one. A Stop has two ends, because the host may acknowledge it or not.

`TunnelRequests`. Three event loops meet: the caller's, the WebSocket's and the
runner's. A frame that `send_text` schedules on the WebSocket loop is in
`posted`; a callback scheduled on the caller's loop is in `callbacks`; a frame
on the socket is in `toRunner` or `toServer`. Frames of different requests do
not affect each other anywhere on the way, so each request has a queue of its
own at each hop. `LinkDown` drops what the socket holds. `phase[r]` is the await
of the caller. `aborted_with` is tested after the next `queue.get()`, as in the
code, and not when it is set. A body is `Chunks` chunks; what is in a chunk is
abstracted.

`HarnessProcessManager`. `pc[op]` is the await of each call of `get_client` and
`release`, of the reaper and of `shutdown`: `waiting` for the spawn lock,
`aclose` of the client, `grace` (the wait after SIGTERM), `spawning` (the
readiness poll). The spawn lock is a FIFO queue of tasks whose head holds it, as
asyncio.Lock is. The registry lock is left out: it is never held across an
await. Time does not exist: an entry is `old` when the reaper's pass says so,
and the reaper may say so of any entry without a turn or marker.

`SessionTurns`. Messages are numbered in the order they arrive. `line` is the
FIFO of tickets of the ingest gate; a continuation (`_check_and_start_next_turn`)
takes a ticket like a message does, and `conts` counts the continuation tasks
that have not done so yet. `slot` is `_active_turns[conv]`, `turn[t]` the task of
turn `t` (`setup` until its request arrives, then `streaming`), `stream[t]` the
events of its response that the runner has not read. In the harness, `ctx[c]` is
a turn context, `active` is `_active_turn_ctx`, `inject[c]` an injection queue
and `cancelled` the contexts whose event is set. A message that is forwarded when
no context takes it runs in a context of its own (`OwnCtx`), as in the code,
where the forwarding handler reads that response itself. `context` is what the
live SDK client has put before the model. A request whose sender has given up may
still arrive: `lateMsgs`, `lateTurns`.

`LiveText`. Text is numbered piece by piece. `acc` is the relay's `text_acc` and
`replay` the text `inflight_text` would give a client that connects: two modules
keep them and nothing but the order of events holds them together. `relay` is the
await of the relay: reading, in the save of a thread (`appending`, then
`appended` or `refused` before the relay resumes), or gone. A client's events go
through `soon` (callbacks scheduled with `call_soon_threadsafe`) into `queue`;
`shutdown_all` puts its sentinel into the queue directly, ahead of them. `sent`
and `lost` are history variables.

`BlockNotifier` and `Elicitations`. `wait[w]` is the server's coroutine for post
`w` of the prompt, named for its await; `parked` is the wait the registries hold
under the prompt's id, `tombstone` a verdict kept for the next post, `grace` the
waits whose deferred clear sleeps. Two sessions show the card, the sub-agent's
and its parent's; the parent's is mirrored by threads (`mirroring`,
`mirrorClear`, `clearing`). `handler[h]` is the await of a handler task. `armed`
and `signal` are kept by prompt and not by handler, and the model keeps them so.

`NoConn`, `NoProc`, `None` and the like are the `None`s of the code. Constants
that are Booleans switch an adverse event on: `MalformedHello` (a peer whose
first frame does not decode), `StoreFails` (a query of the store raises),
`AppendFails` (an append is refused), `CancelInClose` and `GraceCancel` (a
cancellation lands in the one await the code does not protect). Where one of
them is FALSE in a run or assumed FALSE in a theorem, a property fails when it
is TRUE: `OnlyOwnerRemoves` under `MalformedHello`; `NoSessionStuckRunning`
under `StoreFails` (a relay that ends cleanly says nothing, and the disconnect
hook, whose query failed, marks nobody); `InFlightOwned` under `CancelInClose`;
`OneLiveProcess`, `Tracked`, `ShutdownClean` and `ServesOpenClient` under
`GraceCancel`.

## Runs

Nine runs pass. All disable the deadlock check, because every model has a
bounded number of connections, calls or messages and then rests.

| Run | Question | Bounds |
|---|---|---|
| `tunnel_safety` | Is the entry always someone's to remove, is it removed by no one else, and is any session left running when all is quiet? | 2 connections, 1 session, all event kinds, Stop allowed. Two connections are enough for an overlap of a replaced and a new handler; a session's state is not shared with other sessions except through `current`. |
| `tunnel_liveness` | Does a dead tunnel leave and does a relay of a superseded connection end, whatever the peers send and the store answers? | 2 connections, 1 session, undecodable first frames and failing queries on. |
| `requests_safety` | Is reassembly state ever left behind? | 2 connections, 2 requests, 1 chunk: replacement while two requests are in flight. |
| `requests_liveness` | Does a caller ever wait for what cannot come; does leaving stop the runner's work; is a long body a `RequestStream`? | 2 connections, 1 request, 3 chunks, so that a loss, crash or departure happens before, between and after chunks; cancellation in `aclose()` on. |
| `harness_safety` | One subprocess, none forgotten, no respawn after release, turns spared, a clean shutdown, open clients. | 1 conversation, 3 calls (plain, with a model, another harness), 1 release, the reaper, shutdown, 3 subprocesses: the third call arrives while one closes and one waits. |
| `harness_liveness` | Does every call return and shutdown end? | 1 conversation, 2 calls, cancellations in the grace period on. |
| `turns` | One turn at a time, nothing lost, nothing stranded, no late injection, no stale interrupt, and rest in the end. | 3 messages, 1 interrupt, 1 failure: a turn, a message that races its end, and one that meets the continuation; the interrupt and the failure fall anywhere. About a million states, two minutes. |
| `elicitations` | Does the live wait keep its entries and its card; is a kept verdict asked for again; is a parent woken without a card; do cards and blocks come to an end? | 2 posts of one prompt, 1 verdict from the server (the terminal may answer too), 2 handlers, 1 retry: the second post meets the first one's unwinding, its deferred clear and its handler. 365 thousand states. |
| `live` | Do relay, replay, store and clients agree on the text of a turn? | 1 client, a queue of 2, 3 pieces, 1 Stop, 2 relays, a refused append. The queue overflows while a piece is still scheduled; clients do not affect each other. Three million states, two minutes. |

Three runs show where the code does something else than a comment or docstring
says. Each checks the one property the comment states.

| Run | Violated | What the code does |
|---|---|---|
| `turns_batch` | `AnsweredReachesModel` | A continuation carries all messages that were buffered, but to a live client the SDK executor sends only the latest user message (`claude_sdk_executor.py:2946`). |
| `elicitations_wakes` | `OneWakePerBlock` | After its grace a handler asks whether the prompt is armed, not whether it armed it. A deferred clear and a second post in between leave two handlers, and both wake the parent (`subagent_block_notifier.py:262`). |
| `live_kept` | `KeptTextIsSaved` | A stopped turn can end in a status with no terminal event. Nothing flushes the text kept for that flush, and the next "running" clears it (`sessions.py:10146`). |

### Other departures from the comments

Met while modelling, and without a run of their own.

Tunnel, requests, harness:

* `_on_runner_disconnect` checks for a live tunnel before the store query and
  not after it: a runner that reconnects meanwhile has its sessions marked
  failed (`server/app.py:2443`). It does not look at the intentional-stop marker
  either, and "failed" is sticky.
* An undecodable first frame deregisters without a session, hence without the
  generation guard (`runner_tunnel.py:595`): `OnlyOwnerRemoves` fails when
  `MalformedHello` is TRUE.
* A relay still busy with an event of a replaced connection counts as healthy
  and is kept (`sessions.py:10549`); it then ends, which is `OrphanRelayEnds`.
* The read timeout the relay sets (`sessions.py:10047`) is never looked at by
  `WSTunnelTransport`.
* `__aiter__`'s `finally` closes the request, so a caller cancelled while it
  waits for a chunk sends no `request.cancel` (`transport.py:70`).
  `LeavingStopsRunner` is about the callers that leave otherwise.
* A response that is complete in the body queue is reported lost when the tunnel
  closes before it is read (`transport.py:60`, against `serve.py:715`), which
  `RequestStream` allows. A cancellation in `aclose()` of a response that was
  never iterated leaves its in-flight entry (`transport.py:84`).
* `except Exception` around the wait after SIGTERM lets a CancelledError skip
  the SIGKILL (`process_manager.py:1462`), and leaves the entry being replaced
  registered with a closed client (`:855`).
* A turn cancelled while its stream is drained leaves its in-flight marker
  (`runner/app.py:14119`, against the docstring at `process_manager.py:1100`).

Turns:

* A message is not always delivered once (`runner/app.py:15122`): one whose
  forward races the end of the turn runs in a context of its own and is also
  drained into a continuation; one handed to the SDK while its watcher is
  cancelled stays queued as undelivered.
* A second or late interrupt can cancel the context of the continuation; the
  `interrupt_session` of a cancelled context can drop the client of the next.
* Crash recovery (`app.py:9789`) and the catch-up scan (`app.py:19067`) start a
  turn without the ingest gate. They are outside the model.

Approvals:

* The deferred clear of a severed wait fires 10 s after it, the hook may back
  off for up to 30 s: in between the card of a prompt that is still blocked is
  gone (against `sessions.py:805`) and the parent is told it was resolved.
  `UnansweredKeepsItsCard` therefore speaks of parked waits.
* A verdict that lands while a severed wait unwinds reaches nobody; a wait that
  parks late takes the id over from a live one; a late mirrored clear disarms a
  prompt that is up again; a second handler overwrites the first one's signal.

Text:

* A save that fails at a terminal event is not "retried at the next flush"
  (`sessions.py:9930`): the same event empties the replay and the next "running"
  clears the segment.
* Of two concurrent Stops the one that fails lifts the fence of the other; the
  end of a relay does not lift it.
* An overflow may put its sentinel in the place of a queued end; at shutdown the
  end overtakes events that are already scheduled. What is streamed while no
  relay is attached is lost, by design. `session_stream.close` has no caller.

### What the properties are about

* `RegisteredHasHandler`, `OnlyOwnerRemoves`: a registered connection whose
  handler is past its deregister would make a runner look online for ever.
* `NoSessionStuckRunning`: relay, recovery and teardown all write the status,
  each after an await; whichever is last, a session must not be left "running".
* `DeadTunnelLeaves`, `OrphanRelayEnds`: the ping loop and the abort of
  in-flight requests are what a half-open socket depends on.
* `StreamSpec`: the refinement; a broken tunnel never looks like the end of a
  response.
* `InFlightOwned`, `LostRequestEnds`, `ServedRequestEnds`, `LeavingStopsRunner`:
  cleanup on each path out of a request, on both sides.
* `OneLiveProcess`, `Tracked`, `NoRespawnAfterRelease`, `ReaperSparesTurns`,
  `ShutdownClean`, `ServesOpenClient`, `CallsReturn`, `ShutdownReturns`: the
  contract of the process manager under crashes, cancellations and switches.
* `SlotHoldsTheTurn`, `NothingStranded`, `NoMessageLost`: the gate, the buffer
  and the slot are three pieces of state that a turn's start and end, a failing
  forward and an interrupt each change at their own awaits. A message that is
  answered 202 must have someone ahead who will drain it.
* `FinishedTurnNotInjectable`: the harness sends the terminal event before it
  tears its context down, and the runner answers it with the next request.
* `InterruptFlagFresh`: the flag is set before a forward of up to three seconds.
* `ComesToRest`: no drain, gate or turn waits for another that waits for it.
* `OnlyOwnerUnparks`, `UnansweredKeepsItsCard`, `NotAskedWhileAnswered`: the
  waits of one prompt share registry keys; the `finally` block of an old one
  runs while a new one is parked.
* `WakesOnlyForACard`, `CardsClear`, `BlockIsHandled`: the notifier sleeps
  between its checks and acts on what has changed meanwhile.
* `ReplayIsUnsaved`, `WatchersSeeAll` (`SentOnce` and `NothingMissed`),
  `DuplicatesAreNamed`, `StreamsEnd`: the text a browser shows is put together
  from the store, the replay and the live tail, which three tasks advance; a
  piece may be in two of them only if the commit names it.

### Fairness

Weak fairness is put on what asyncio and the executor guarantee to run: a ready
task, a scheduled callback, a job of a worker thread, and an await that the code
bounds by a timeout (the grace period, the readiness poll, the connect hook's
HTTP timeout, the ping loop's missed pings). Nothing is assumed of peers, users,
the network, the runner's app or a vendor's process. In `TunnelRequests` the
deregistration of a connection whose socket is gone is fair, which is what
`DeadTunnelLeaves` establishes. In `SessionTurns` the gate, the tasks of the
turns and of the contexts run, and a request reaches its harness and returns;
`RunReturns` is fair because the watchdogs of the executor adapter end every
`run_turn`; messages, interrupts, failures and the delivery watcher are not
fair. In `Elicitations` the loop, the mirroring threads and the notifier's
sleeps and attempts are; answers, timeouts and disconnects are not. In
`LiveText` a client that stays connected has its callbacks run and reads its
queue; the stream it reads promises nothing.

## Theorems

All are proved for every value of the constants that satisfies the named
`ConstantsAssumption` of the module (sentinels are not members of the sets they
stand beside, Booleans are Booleans, bounds are naturals).

* `RunnerTunnel_proofs`. `TypeCorrect` and `RegistryNeverLeaks`
  (`[]RegisteredHasHandler`) from `IInv == TypeOK /\ HookHasSession /\
  RegisteredHasHandler`. `HookHasSession` (the connect hook has a session in
  every phase that uses one) is there for the types of what the hook writes.
  `OwnerAloneRemoves` proves the action property `OnlyOwnerRemoves` when
  `MalformedHello` is FALSE. `NeverStuckRunning` (`[]NoSessionStuckRunning`)
  holds when `StoreFails` is FALSE: a disconnect hook whose store query raises
  marks nobody failed. `NoSessionStuckRunning` looks only at quiet states; its
  inductive form `RunningIsWatched` says of every state who is yet to notice: a
  session that shows running has a registered connection, a relay that has not
  seen the drop, or a disconnect hook under way. It rests on `CallOwed` (a
  handler that joins its helpers still owes the hook) and `RelayAttached` (an
  open stream is attached to a connection).
* `HarnessProcessManager_proofs`. With no hypothesis: `TypeCorrect`,
  `ReleaseIsFinal` (`[]NoRespawnAfterRelease`), `ReaperNeverTakesATurn`
  (`[]ReaperSparesTurns`) and `NoLockIsLost`. While `GraceCancel` is FALSE
  (a cancellation that lands in the wait after SIGTERM leaves the subprocess
  alive and unregistered, a hazard above): `NeverTwoProcesses`
  (`[]OneLiveProcess`), `NeverLeaks` (`[]Tracked`), `ShutdownLeavesNothing`
  (`[]ShutdownClean`) and `OnlyOpenClients` (`ServesOpenClient`).
  `OneLiveProcess` is not inductive: two live subprocesses of one conversation
  can only be excluded if it is known who may hold one. So the invariant says
  that who closes or spawns holds the spawn lock (`LockHeld`), that what it
  holds belongs to its conversation (`HeldOK`), that entries do
  (`RegisteredOK`, `HomeOK`), that meanwhile no other live subprocess is
  registered (`Exclusive`), and that a live subprocess is one of these two
  (`Tracked`); `OneLiveProcess` then follows from mutual exclusion
  (`TrackedOnce`). Three lemmas about the FIFO queue of the lock carry the
  steps. The reaper and the shutdown add what a call that returned may still use
  (`ServedOK`), what the reaper has checked (`ReapOK`) and what the drain of
  `shutdown` has yet to take (`DrainOK`); `TaskEffect` and `QuietEffect` bound
  what any other step does to those. `OnlyOpenClients` adds `ClosedOK`: a closed
  subprocess is dead or in the hands of the task that closes it, so what passes
  the liveness check under the lock is open. `NoLockIsLost` (`[]LockQueue`) says
  that the line of a lock is exactly the tasks that close, spawn or wait.
* `TunnelRequests_proofs`. `TypeCorrect`, from an invariant that also binds a
  caller past its start, and a posted frame, to a connection; and
  `NoOrphanedEntry` (`[]InFlightOwned`) when no cancellation lands in
  `aclose()`.
* `RequestStream_proofs`. `ImplementsStream` (`Spec => StreamSpec`, for both
  values of `CancelInClose`): a refinement mapping of `TunnelRequests` to
  `RequestStream`, with no need of `NoOrphanedEntry`. A frame is known by its
  number (the head is 1, the k-th chunk k + 1, the end `Chunks + 2`), and `RInv`
  (theorem `FramesInOrder`) follows the numbers from the runner through the
  socket, the callbacks of the caller's loop and the body queue: what is at each
  hop are the frames whose turn it is (`InOrder`), what was posted is posted
  once (`Once`), a request that was not opened has nothing anywhere (`Fresh`).
  The abort of a lost tunnel may come at any place, and what was delivered
  before it is a beginning of the response. `LossReachesCaller` is the safety
  half of `LostRequestEnds`: a caller whose connection is lost has an abort
  queued or scheduled for it (`Told`), because `OnCurrent` keeps the open
  requests on the registered connection. `EndReachesCaller` is that of
  `ServedRequestEnds`: what the app sent last is at one of the hops as long as
  its caller waits (`EndAhead`). `LeavingIsHeard` is that of
  `LeavingStopsRunner`: whoever leaves has a runner that took the request
  (`Begun`), so the cancel cannot precede it, and where the cancel is refused
  the socket is gone (`OneSocket`).
* `SessionTurns_proofs`. `Core` is `SlotHoldsTheTurn` with the types and what
  the types rest on: a turn starts for messages that are in the history
  (`Begun`), a message being forwarded holds the gate (`GateHeld`), an interrupt
  at work has a target (`Aimed`), a request that may arrive late is of a
  cancelled turn (`Late`). Over it, `NobodyStranded`, `FlagIsFresh`,
  `AnsweredIsKept` (from `Kept`: a message is in the buffer or the history from
  the moment the gate takes it up, not only once it is answered) and
  `FinishedTakesNone` (from `ResponseOver`: when the end of a response is in the
  stream or read, its context is no longer the one that takes injections).
  `NoTurnHangs` is the safety half of `ComesToRest`: the gate's line is the
  messages whose handlers wait for it or hold it, each once (`GateQueue`), and a
  turn that reads has its last event in the stream or a context that will emit
  it (`ResponseComes`).
* `Elicitations_proofs`. `Core` is `Shape` (the types, with no bound on the clears
  under way) and `Counted`: the mirrored clears under way and the waits that may
  still ask for one (`Owing`) are together no more than answers and posts, a
  cardinality argument, which gives the bound. Over it `OwnerAloneUnparks`,
  `VerdictSilencesPrompt`, `PromptStaysVisible` (from `Unanswered`: as long as
  there was no answer, in the terminal neither, no future is resolved and a wait
  that is parked shows its card; it needs `PollsCut`, a hook that was answered
  in the terminal holds no poll) and `NoWakeWithoutCard` (from `ArmShown`: the
  prompt is armed only while a session shows the card). `NoCardIsOrphaned` and
  `BlockHasHandler` are the safety halves of `CardsClear` and `BlockIsHandled`:
  a card that shows has a wait, a deferred clear or a mirroring thread to clear
  it (`CardOwed`), and a block that the child's own card armed has a handler at
  work until the parent is woken. The latter counts handlers: one is started per
  published wait, in order (`StartedInOrder`), so an arm always finds one unused.
* `LiveText_proofs`. `TypeCorrect` needs `Counted` (the counters stay in their
  bounds because of what they count). `ReplayAgrees` is by `ReplayInv`, which
  adds when both texts are empty and what a save in progress is for;
  `SavedTextIsNamed` by `SavedInv`, which orders what was published, saved and
  gathered. `WatchersMissNothing` is by `ReplayEndsSent` (the replay is the end
  of what was published) and `ClientInv`, which splits what was published at the
  place where a client came in: the pieces before it are saved (`EarlierSaved`),
  those it was sent follow it (`SentFrom`), the rest are queued or scheduled in
  order (`RestFollows`), and those that are saved by now are named
  (`LaterNamed`). `EndSurvives` is the safety half of `StreamsEnd`: an end that
  is in a queue stays until it is read (`EndStays`), and after a shutdown every
  client has one (`EndsAtShutdown`).

Every safety property and action property of the runs is the property of one of
these theorems, and so is the refinement. Model-checked only: the liveness
properties (`DeadTunnelLeaves`, `OrphanRelayEnds`, `LostRequestEnds`,
`ServedRequestEnds`, `LeavingStopsRunner`, `CallsReturn`, `ShutdownReturns`,
`ComesToRest`, `CardsClear`, `BlockIsHandled`, `StreamsEnd`): fairness and
`ENABLED` are out of the prover's reach. For all but `OrphanRelayEnds` a
theorem above gives the part that needs neither: that whoever waits has somebody
or something ahead of him which the fairness condition moves
(`RegistryNeverLeaks` for `DeadTunnelLeaves`, `NoLockIsLost` for `CallsReturn`
and `ShutdownReturns`, and those named above). `OrphanRelayEnds` needs no
invariant: a relay whose connection is gone can always take its next step, or
waits for an upsert that can.

Seven theorems assume that one of the switches `MalformedHello`, `StoreFails`,
`GraceCancel` and `CancelInClose` is FALSE. With the switch TRUE the property is
violated, as said with the constants above; the other theorems hold for either
value.

## Not modelled

Of the modelled parts: authentication, ownership and origin checks before the
upgrade; terminal channels over the tunnel; reconnect backoff and token refresh
of the runner; `start`, `forward_cancel` and the start-up sweep of the process
manager; crash recovery, the catch-up scan and `delete_session` of the runner,
and tool calls and policies inside a turn; the time to live and the cap of
tombstones, the approvals of harnesses other than the one with the long-polling
hook, the hold of `evaluate-policy`, the forwarding of approvals to the runner,
the push observer and `close()` of the notifier; message-scoped text of native
harnesses, segments of only white space, a relay cancelled by a rebind in the
middle of a save, the queue slots other events take, and clients that join after
a shutdown.

Of the rest: the server's other routes; SQL; policies and the agent loop
(sequential, and about data); vendors' executors other than the part of the
Claude one that decides what is sent, native forwarders and managed hosts (they
follow vendors' formats and services); CLI, REPL, web, SDKs, deployment. These
are most of the repository's lines. Each is in the list of components with its
reason.

## Plan

In this order.

1. Proofs: that the bound on turns is never what ends a run of
   `SessionTurns`.
2. `ConnectWaiters` (`registry.py:357-440`): caps per runner and in total;
   timeout, cancellation and register race for a waiter. The counter equals the
   waiters; a connected runner wakes everyone who waits for it.
3. Runner-side `PendingApprovals`, `PendingInputs`, `McpPool`,
   `ScheduledAgents`, `PaneReaper`.
4. `HostTunnel` (`host_registry.py`, `host_tunnel.py`) beside `RunnerTunnel`.
