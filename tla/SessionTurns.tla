---------------------------- MODULE SessionTurns ----------------------------
(***************************************************************************)
(* The turns of one conversation whose harness runs in process: the        *)
(* runner's ingest gate, message buffer and turn slot (runner/app.py), the *)
(* scaffold's turn contexts and injections                                 *)
(* (runtime/harnesses/_scaffold.py and _executor_adapter.py) and what of a *)
(* request the Claude SDK executor puts before the model                   *)
(* (inner/claude_sdk_executor.py).                                         *)
(*                                                                         *)
(* Messages are numbered in the order they arrive.  Turn t of the runner,  *)
(* once the harness accepts it, runs in context t; a message forwarded     *)
(* into the running turn that comes too late runs in a context of its own, *)
(* MaxMsgs + m, that is no turn of the runner.                             *)
(***************************************************************************)
EXTENDS Naturals, Sequences, FiniteSets

CONSTANTS
    MaxMsgs,       \* messages posted to the conversation
    MaxInterrupts, \* interrupts (or stops) posted to it
    MaxFaults      \* requests to the harness, and turns, that fail

ASSUME ConstantsAssumption ==
    /\ MaxMsgs \in Nat
    /\ MaxInterrupts \in Nat
    /\ MaxFaults \in Nat

Msgs == 1 .. MaxMsgs
Turns == 1 .. MaxMsgs
Ctxs == 1 .. 2 * MaxMsgs
Stops == 1 .. MaxInterrupts
None == 0
Cont == 0           \* a continuation's ticket in the gate's line
OwnCtx(m) == MaxMsgs + m

VARIABLES
    \* the gate
    line,        \* ticket holders, the one being served first
    conts,       \* _check_and_start_next_turn tasks that have no ticket yet
    post,        \* where the handler of each message is
    \* the runner
    slot,        \* _active_turns[conv]
    live,        \* conv has a _live_response_id
    buf,         \* _session_message_buffers[conv]
    history,     \* user messages of _session_histories[conv]
    interrupted, \* conv is in _interrupted_sessions
    status,      \* the session.status published last
    turn,        \* the task of each turn
    stop,        \* the handler of each interrupt
    faults,      \* failures so far
    \* between runner and harness
    lateMsgs,    \* forwards given up while on their way
    lateTurns,   \* turns cancelled while their request was on its way
    stream,      \* events of each turn's response not yet read
    \* the harness
    ctx,         \* TurnContexts
    cancelled,   \* contexts whose cancelled event is set
    inject,      \* their _injection_queue
    active,      \* _active_turn_ctx
    context      \* messages the live SDK client has put before the model

gateVars == <<line, conts, post>>
queueVars == <<buf, history>>
turnVars == <<slot, live, interrupted, status, turn>>
wireVars == <<lateMsgs, lateTurns, stream>>
harnessVars == <<ctx, cancelled, inject, active, context>>
stopVars == <<stop, faults>>
vars == <<gateVars, queueVars, turnVars, stopVars, wireVars, harnessVars>>

Ran(s) == {s[i] : i \in DOMAIN s}
Unfinished == {"setup", "streaming"}

TypeOK ==
    /\ line \in Seq(Msgs \cup {Cont})
    /\ conts \in Nat
    /\ post \in [Msgs -> {"new", "line", "forward", "reading", "done"}]
    /\ slot \in Turns \cup {None}
    /\ live \in BOOLEAN
    /\ buf \in Seq(Msgs)
    /\ history \in Seq(Msgs)
    /\ interrupted \in BOOLEAN
    /\ status \in {"idle", "running", "failed"}
    /\ turn \in [Turns -> Unfinished \cup {"unused", "ended", "broken"}]
    /\ stop \in [Stops -> [pc : {"idle", "forward", "cancel", "done"},
                           target : Turns \cup {None}]]
    /\ faults \in 0 .. MaxFaults
    /\ lateMsgs \in SUBSET Msgs
    /\ lateTurns \in SUBSET Turns
    /\ stream \in [Turns -> Seq([kind : {"created", "consumed", "end", "rejected"},
                                 msg : Msgs \cup {None}])]
    /\ ctx \in [Ctxs -> {"none", "running", "returned", "over", "gone"}]
    /\ cancelled \in SUBSET Ctxs
    /\ inject \in [Ctxs -> Seq(Msgs)]
    /\ active \in Ctxs \cup {None}
    /\ context \in SUBSET Msgs

Init ==
    /\ line = <<>>
    /\ conts = 0
    /\ post = [m \in Msgs |-> "new"]
    /\ slot = None
    /\ live = FALSE
    /\ buf = <<>>
    /\ history = <<>>
    /\ interrupted = FALSE
    /\ status = "idle"
    /\ turn = [t \in Turns |-> "unused"]
    /\ stop = [s \in Stops |-> [pc |-> "idle", target |-> None]]
    /\ faults = 0
    /\ lateMsgs = {}
    /\ lateTurns = {}
    /\ stream = [t \in Turns |-> <<>>]
    /\ ctx = [c \in Ctxs |-> "none"]
    /\ cancelled = {}
    /\ inject = [c \in Ctxs |-> <<>>]
    /\ active = None
    /\ context = {}

-----------------------------------------------------------------------------
(* The ingest gate and the start of a turn *)

\* Something fails, as it may MaxFaults times.
Fault == faults < MaxFaults /\ faults' = faults + 1

Serving(h) == line # <<>> /\ Head(line) = h
Answer(m, pc) == post' = [post EXCEPT ![m] = pc]

\* The next message arrives and takes its ticket before it awaits anything.
Arrive(m) ==
    /\ post[m] = "new" /\ \A n \in 1 .. m - 1 : post[n] # "new"
    /\ Answer(m, "line")
    /\ line' = Append(line, m)
    /\ UNCHANGED <<conts, queueVars, turnVars, stopVars, wireVars, harnessVars>>

\* A turn takes the slot; it is the first of the unused ones.
Start ==
    \E t \in Turns :
        /\ turn[t] = "unused" /\ \A u \in 1 .. t - 1 : turn[u] # "unused"
        /\ slot' = t
        /\ turn' = [turn EXCEPT ![t] = "setup"]
        /\ status' = "running"
        /\ UNCHANGED <<live, interrupted>>

\* The gate moves on to the next ticket.
Advanced == Tail(line)

\* Served with no turn active: the turn starts.  A history not at hand is
\* loaded first, which nothing but a delay comes of: the gate is held.
StartTurn(m) ==
    /\ post[m] = "line" /\ Serving(m) /\ slot = None
    /\ history' = Append(history, m)
    /\ Start
    /\ Answer(m, "done")
    /\ line' = Advanced
    /\ UNCHANGED <<conts, buf, stopVars, wireVars, harnessVars>>

\* Mutant: a message that is not forwarded is acknowledged and dropped.
Buffered_Dropped(m, forwarded) == IF forwarded THEN Append(buf, m) ELSE buf

Buffered(m, forwarded) == Append(buf, m)

\* Served while a turn is active: the message is buffered, and forwarded
\* into the turn if it is live and no approval is outstanding.
Buffer(m) ==
    /\ post[m] = "line" /\ Serving(m) /\ slot # None
    /\ \E forwarded \in {FALSE, live} :
          /\ buf' = Buffered(m, forwarded)
          /\ IF forwarded
             THEN Answer(m, "forward") /\ UNCHANGED line
             ELSE Answer(m, "done") /\ line' = Advanced
    /\ UNCHANGED <<conts, history, turnVars, stopVars, wireVars, harnessVars>>

\* A continuation task runs: it takes its ticket.
ContTicket ==
    /\ conts > 0
    /\ conts' = conts - 1
    /\ line' = Append(line, Cont)
    /\ UNCHANGED <<post, queueVars, turnVars, stopVars, wireVars, harnessVars>>

\* Mutant: the continuation does not look at the slot again.
SlotFree_Unchecked == TRUE

SlotFree == slot = None

\* _check_and_start_next_turn is served: with no turn active, all that is
\* buffered is drained into the history and one turn starts for it.
ContServe ==
    /\ Serving(Cont)
    /\ line' = Advanced
    /\ IF SlotFree /\ buf # <<>>
       THEN /\ history' = history \o buf
            /\ buf' = <<>>
            /\ Start
       ELSE UNCHANGED <<queueVars, turnVars>>
    /\ UNCHANGED <<conts, post, stopVars, wireVars, harnessVars>>

-----------------------------------------------------------------------------
(* The scaffold *)

\* run_turn puts a request's user messages before the model: a live SDK
\* client is sent the latest only, a new one replays them all.
Prompt(msgs) ==
    context' = IF context = {} THEN Ran(msgs) ELSE context \cup {msgs[Len(msgs)]}

\* _start_or_inject_turn: is there a turn to inject into?
Injectable == active # None /\ active \notin cancelled

\* ... there is none: a new context takes the request.
NewContext(c, msgs) ==
    /\ ctx' = [ctx EXCEPT ![c] = "running"]
    /\ active' = c
    /\ Prompt(msgs)
    /\ UNCHANGED <<cancelled, inject>>

Emit(c, event) ==
    stream' = IF c \in Turns /\ turn[c] = "streaming"
              THEN [stream EXCEPT ![c] = Append(@, event)] ELSE stream

Event(kind) == [kind |-> kind, msg |-> None]

\* The setup of turn t is done and its request arrives.
HarnessTakes(t) ==
    /\ turn[t] = "setup"
    /\ turn' = [turn EXCEPT ![t] = "streaming"]
    /\ IF Injectable
       THEN \* Its items hold no text of their own: the watcher skips it.
            /\ stream' = [stream EXCEPT ![t] = <<Event("rejected")>>]
            /\ UNCHANGED harnessVars
       ELSE /\ NewContext(t, history)
            /\ stream' = [stream EXCEPT ![t] = <<Event("created")>>]
    /\ UNCHANGED <<gateVars, queueVars, slot, live, interrupted, status, stopVars, lateMsgs,
                   lateTurns>>

\* A forwarded message arrives: it is injected, or runs in a context of its
\* own whose response the handler reads.
ForwardLands(m) ==
    /\ post[m] = "forward"
    /\ IF Injectable
       THEN /\ inject' = [inject EXCEPT ![active] = Append(@, m)]
            /\ Answer(m, "done")
            /\ line' = Advanced
            /\ UNCHANGED <<ctx, cancelled, active, context>>
       ELSE /\ NewContext(OwnCtx(m), <<m>>)
            /\ Answer(m, "reading")
            /\ UNCHANGED line
    /\ UNCHANGED <<conts, queueVars, turnVars, stopVars, wireVars>>

\* The forward fails, or its five seconds pass; the request may be on its
\* way still.
ForwardFails(m) ==
    /\ Fault /\ post[m] = "forward"
    /\ Answer(m, "done")
    /\ line' = Advanced
    /\ lateMsgs' \in {lateMsgs, lateMsgs \cup {m}}
    /\ UNCHANGED <<conts, queueVars, turnVars, stop, lateTurns, stream, harnessVars>>

\* The response of a context of its own ends, or is silent for too long.
ForwardReturns(m) ==
    /\ post[m] = "reading"
    /\ Answer(m, "done")
    /\ line' = Advanced
    /\ UNCHANGED <<conts, queueVars, turnVars, stopVars, wireVars, harnessVars>>

\* A request whose sender has given up arrives after all, or never.
LateForward(m) ==
    /\ m \in lateMsgs
    /\ lateMsgs' = lateMsgs \ {m}
    /\ \/ UNCHANGED harnessVars
       \/ /\ Injectable
          /\ inject' = [inject EXCEPT ![active] = Append(@, m)]
          /\ UNCHANGED <<ctx, cancelled, active, context>>
       \/ ~Injectable /\ NewContext(OwnCtx(m), <<m>>)
    /\ UNCHANGED <<gateVars, queueVars, turnVars, stopVars, lateTurns, stream>>

LateTurn(t) ==
    /\ t \in lateTurns
    /\ lateTurns' = lateTurns \ {t}
    /\ \/ UNCHANGED harnessVars
       \/ ~Injectable /\ NewContext(t, history)
    /\ UNCHANGED <<gateVars, queueVars, turnVars, stopVars, lateMsgs, stream>>

\* The watcher hands an injection to the SDK, and tells the runner.
Consume(c) ==
    /\ ctx[c] = "running" /\ c \notin cancelled /\ inject[c] # <<>>
    /\ inject' = [inject EXCEPT ![c] = Tail(@)]
    /\ LET m == Head(inject[c]) IN
          IF context = {}
          THEN UNCHANGED <<context, stream>> \* no client: refused
          ELSE /\ context' = context \cup {m}
               /\ Emit(c, [kind |-> "consumed", msg |-> m])
    /\ UNCHANGED <<gateVars, queueVars, turnVars, stopVars, lateMsgs, lateTurns, ctx, cancelled,
                   active>>

\* run_turn ends and the watcher is cancelled, maybe while it awaits the SDK
\* with a message already handed over.  A cancelled turn may drop the client.
RunReturns(c) ==
    /\ ctx[c] = "running"
    /\ ctx' = [ctx EXCEPT ![c] = "returned"]
    /\ inject' = [inject EXCEPT ![c] = <<>>]
    /\ IF c \in cancelled
       THEN context' \in {context, {}}
       ELSE \/ UNCHANGED context
            \/ /\ inject[c] # <<>> /\ context # {}
               /\ context' = context \cup {Head(inject[c])}
    /\ UNCHANGED <<gateVars, queueVars, turnVars, stopVars, wireVars, cancelled, active>>

\* Mutant: the finished turn stays the one to inject into until its teardown.
Unset_AtTeardown(c) == active

Unset(c) == IF active = c THEN None ELSE active

\* The terminal event: the turn is no longer one to inject into before the
\* event is sent.
EmitTerminal(c) ==
    /\ ctx[c] = "returned"
    /\ ctx' = [ctx EXCEPT ![c] = "over"]
    /\ active' = Unset(c)
    /\ Emit(c, Event("end"))
    /\ UNCHANGED <<gateVars, queueVars, turnVars, stopVars, lateMsgs, lateTurns, cancelled, inject,
                   context>>

\* Nobody reads the response of c.
Unread(c) == IF c \in Turns THEN turn[c] # "streaming" ELSE post[c - MaxMsgs] # "reading"

\* _teardown_turn, when the response has ended or its reader has left: a
\* run_turn still there is cancelled, which drops the client.
Teardown(c) ==
    /\ \/ ctx[c] = "over"
       \/ ctx[c] \in {"running", "returned"} /\ Unread(c)
    /\ ctx' = [ctx EXCEPT ![c] = "gone"]
    /\ active' = IF active = c THEN None ELSE active
    /\ inject' = [inject EXCEPT ![c] = <<>>]
    /\ cancelled' = cancelled \ {c}
    /\ context' = IF ctx[c] = "running" THEN {} ELSE context
    /\ UNCHANGED <<gateVars, queueVars, turnVars, stopVars, wireVars>>

-----------------------------------------------------------------------------
(* The runner's side of a turn, and its end *)

\* Mutant: a turn that fails does not look for buffered messages.
NextConts_OnSuccess(failed) == IF failed THEN conts ELSE conts + 1

NextConts(failed) == conts + 1

\* Mutant: the flag of an interrupt survives the turn it was for.
FlagAfterEnd_Kept == interrupted

FlagAfterEnd == FALSE

\* Mutant: the end of a turn is published as a status no client knows.
EndStatus_Completed(failed) == IF failed THEN "failed" ELSE "completed"

\* With messages buffered, idle is left out: a turn starts at once.
EndStatus(failed) ==
    CASE failed /\ ~interrupted -> "failed"
      [] buf = <<>> -> "idle"
      [] OTHER -> status

\* _on_proxy_stream_end, reached by turn t: it clears the slot whoever is in
\* it.
End(t, how) ==
    /\ turn' = [turn EXCEPT ![t] = how]
    /\ slot' = None
    /\ live' = FALSE
    /\ interrupted' = FlagAfterEnd
    /\ conts' = NextConts(how = "broken")
    /\ stream' = [stream EXCEPT ![t] = <<>>]
    /\ UNCHANGED <<line, post, queueVars>>

\* The setup of the turn, or its request, fails.
SetupFails(t) ==
    /\ Fault /\ turn[t] = "setup"
    /\ End(t, "broken") /\ status' = EndStatus(TRUE)
    /\ UNCHANGED <<stop, lateMsgs, lateTurns, harnessVars>>

Unreceived(t) == turn[t] = "streaming" /\ stream[t] # <<>>
Read(t) == stream' = [stream EXCEPT ![t] = Tail(@)]

\* proxy_stream reads response.created.
ReadCreated(t) ==
    /\ Unreceived(t) /\ Head(stream[t]).kind = "created"
    /\ Read(t)
    /\ live' = TRUE
    /\ UNCHANGED <<gateVars, queueVars, slot, interrupted, status, turn, stopVars, lateMsgs,
                   lateTurns, harnessVars>>

\* The buffer without message m, which is in it once at most.
Without(m) ==
    LET i == CHOOSE i \in DOMAIN buf : buf[i] = m
    IN  SubSeq(buf, 1, i - 1) \o SubSeq(buf, i + 1, Len(buf))

\* ... injection.consumed: the buffered copy moves to the history.
ReadConsumed(t) ==
    /\ Unreceived(t) /\ Head(stream[t]).kind = "consumed"
    /\ Read(t)
    /\ LET m == Head(stream[t]).msg IN
          IF m \in Ran(buf)
          THEN buf' = Without(m) /\ history' = Append(history, m)
          ELSE UNCHANGED queueVars
    /\ UNCHANGED <<gateVars, turnVars, stopVars, lateMsgs, lateTurns, harnessVars>>

\* ... the end of the response, which tells whether the turn failed.
ReadEnd(t) ==
    /\ Unreceived(t) /\ Head(stream[t]).kind = "end"
    /\ \/ /\ End(t, "ended") /\ status' = EndStatus(FALSE)
          /\ UNCHANGED faults
       \/ /\ Fault /\ End(t, "broken") /\ status' = EndStatus(TRUE)
    /\ UNCHANGED <<stop, lateMsgs, lateTurns, harnessVars>>

\* ... a status other than 200.
ReadRejected(t) ==
    /\ Unreceived(t) /\ Head(stream[t]).kind = "rejected"
    /\ End(t, "broken") /\ status' = EndStatus(TRUE)
    /\ UNCHANGED <<stopVars, lateMsgs, lateTurns, harnessVars>>

\* The stream of the response breaks.
StreamBreaks(t) ==
    /\ Fault /\ turn[t] = "streaming"
    /\ End(t, "broken") /\ status' = EndStatus(TRUE)
    /\ UNCHANGED <<stop, lateMsgs, lateTurns, harnessVars>>

-----------------------------------------------------------------------------
(* Interrupts *)

Goto(s, pc) == stop' = [stop EXCEPT ![s].pc = pc]

\* _cancel_inprocess_turn, with a turn to cancel.
Interrupt(s) ==
    /\ stop[s].pc = "idle" /\ \A i \in 1 .. s - 1 : stop[i].pc # "idle"
    /\ slot # None
    /\ interrupted' = TRUE
    /\ stop' = [stop EXCEPT ![s] = [pc |-> "forward", target |-> slot]]
    /\ UNCHANGED <<gateVars, queueVars, slot, live, status, turn, faults, wireVars, harnessVars>>

\* The harness gets it: every context is cancelled, none is injected into,
\* and the SDK client is dropped.  With none in flight it is a 404.
InterruptLands(s) ==
    /\ stop[s].pc = "forward"
    /\ Goto(s, "cancel")
    /\ LET inFlight == {c \in Ctxs : ctx[c] \in {"running", "returned", "over"}} IN
          IF inFlight = {}
          THEN UNCHANGED harnessVars
          ELSE /\ cancelled' = cancelled \cup inFlight
               /\ active' = None
               /\ context' = {}
               /\ UNCHANGED <<ctx, inject>>
    /\ UNCHANGED <<gateVars, queueVars, turnVars, faults, wireVars>>

InterruptFails(s) ==
    /\ Fault /\ stop[s].pc = "forward"
    /\ Goto(s, "cancel")
    /\ UNCHANGED <<gateVars, queueVars, turnVars, wireVars, harnessVars>>

\* _cancel_active_turn: only the turn that was there when the interrupt came.
\* Once its request is on its way the task publishes idle in any case.
CancelTurn(s) ==
    /\ stop[s].pc = "cancel"
    /\ stop' = [stop EXCEPT ![s] = [pc |-> "done", target |-> None]]
    /\ IF slot = stop[s].target
       THEN /\ End(slot, "broken")
            /\ IF turn[slot] = "setup"
               THEN \/ status' = EndStatus(TRUE) /\ UNCHANGED lateTurns
                    \/ status' = "idle" /\ lateTurns' = lateTurns \cup {slot}
               ELSE status' = "idle" /\ UNCHANGED lateTurns
       ELSE UNCHANGED <<gateVars, queueVars, turnVars, lateTurns, stream>>
    /\ UNCHANGED <<faults, lateMsgs, harnessVars>>

-----------------------------------------------------------------------------
(* The specification *)

Gate == ContTicket \/ ContServe \/ \E m \in Msgs : StartTurn(m) \/ Buffer(m)
Forwarding == \E m \in Msgs : ForwardLands(m) \/ ForwardReturns(m) \/ LateForward(m)
Running ==
    \E t \in Turns : \/ HarnessTakes(t) \/ ReadCreated(t) \/ ReadConsumed(t)
                     \/ ReadEnd(t) \/ ReadRejected(t) \/ LateTurn(t)
Harness == \E c \in Ctxs : RunReturns(c) \/ EmitTerminal(c) \/ Teardown(c)
Stopping == \E s \in Stops : InterruptLands(s) \/ CancelTurn(s)

Next ==
    \/ Gate \/ Forwarding \/ Running \/ Harness \/ Stopping
    \/ \E m \in Msgs : Arrive(m) \/ ForwardFails(m)
    \/ \E c \in Ctxs : Consume(c)
    \/ \E t \in Turns : SetupFails(t) \/ StreamBreaks(t)
    \/ \E s \in Stops : Interrupt(s) \/ InterruptFails(s)

\* Tasks run, requests reach the harness or fail, and the watchdogs of
\* _guarded_run_turn end every run_turn; messages, interrupts and failures
\* may or may not come, and the watcher may be slower than the turn.
Fairness ==
    /\ WF_vars(Gate) /\ WF_vars(Stopping) /\ WF_vars(Running)
    /\ \A m \in Msgs : WF_vars(ForwardLands(m)) /\ WF_vars(ForwardReturns(m))
    /\ \A c \in Ctxs : WF_vars(RunReturns(c)) /\ WF_vars(EmitTerminal(c)) /\ WF_vars(Teardown(c))

Spec == Init /\ [][Next]_vars /\ Fairness

-----------------------------------------------------------------------------
(* Properties *)

\* Invariant I2 of the runner: one turn is under way at most, the slot holds
\* that turn, and no turn is under way that the slot does not know of.
SlotHoldsTheTurn == \A t \in Turns : turn[t] \in Unfinished <=> slot = t

\* A buffered message never waits for a turn that will not come: a turn is
\* active, whose end drains the buffer, or a continuation is due.
NothingStranded == buf # <<>> => slot # None \/ conts > 0 \/ Cont \in Ran(line)

\* A message that was answered is never lost by the runner: it is in the
\* buffer or in the history, whatever became of its forward and of the turn.
NoMessageLost == \A m \in Msgs : post[m] = "done" => m \in Ran(buf) \cup Ran(history)

\* The scaffold's promise to the continuation turn: by the time the runner
\* has read the end of a turn, its context takes no injection any more (a
\* message would be injected into the finished turn, and answered 204).
FinishedTurnNotInjectable == \A t \in Turns : active = t => turn[t] # "ended"

\* The flag of an interrupt never taints a later turn: while it is set, the
\* turn it was set for is in the slot and its interrupt is still at work.
InterruptFlagFresh ==
    interrupted => \E s \in Stops : stop[s].pc \in {"forward", "cancel"} /\ stop[s].target = slot

\* Nothing is under way or due: every message is answered, the buffer is
\* drained and the harness has no context left.
Quiet ==
    /\ slot = None /\ line = <<>> /\ conts = 0 /\ buf = <<>>
    /\ \A c \in Ctxs : ctx[c] \in {"none", "gone"}

\* The conversation always comes to rest: no holder of the gate keeps it for
\* good, the forward into a context of its own included; every buffered
\* message is consumed by the turn or drained into a next one; and no turn
\* hangs, whatever is interrupted and fails in between.
ComesToRest == []<>Quiet

\* What the gate's comment promises of a message that is buffered and not
\* forwarded: it rides the continuation, so nothing is lost.  When all is
\* quiet, and no turn has failed, a live SDK client has put before the model
\* every message that was answered.
AnsweredReachesModel ==
    Quiet /\ context # {} /\ (\A t \in Turns : turn[t] # "broken") =>
        \A m \in Msgs : post[m] = "done" => m \in context
=============================================================================
