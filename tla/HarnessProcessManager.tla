----------------------- MODULE HarnessProcessManager -----------------------
(***************************************************************************)
(* The runner's harness subprocesses, at most one per conversation         *)
(* (runtime/harnesses/process_manager.py): get_client spawns or reuses     *)
(* one, release and shutdown tear it down, and the idle reaper releases    *)
(* the ones no turn has used for a while (runner/app.py runs the turns).   *)
(*                                                                         *)
(* All of it runs on one asyncio loop, so an action is what runs between   *)
(* two awaits.  The registry lock is never held across an await and is     *)
(* left out; the spawn lock of a conversation is held across the close and *)
(* the spawn of its subprocess.                                            *)
(***************************************************************************)
EXTENDS Naturals, SequencesExt

CONSTANTS
    Convs,       \* conversations
    Calls,       \* the calls of get_client, each made once
    Releases,    \* the calls of release, each made once
    Procs,       \* the subprocesses ever created: a bound, creation may fail
    Wants,       \* what a call asks for: a harness and a model
    NoConv, NoProc, NoWant, NoModel,
    GraceCancel  \* TRUE: a cancellation may land in the wait after SIGTERM

Ops == Calls \cup Releases \cup {"reaper", "shutdown"}
AnyHarness == [harness |-> "any", model |-> NoModel]

ASSUME ConstantsAssumption ==
    /\ NoConv \notin Convs /\ NoProc \notin Procs /\ NoWant \notin Wants
    /\ Calls \cap Releases = {}
    /\ {"reaper", "shutdown"} \cap (Calls \cup Releases) = {}
    /\ GraceCancel \in BOOLEAN

VARIABLES
    \* the manager
    mgr,       \* _started and _shutting_down
    entries,   \* _entries: the registered subprocess
    gen,       \* _release_generations
    inFlight,  \* the keys of _in_flight_response_ids
    lock,      \* _spawn_locks: the holder, then the waiters in FIFO order
    \* the subprocesses
    proc,      \* their state
    home,      \* the conversation each was created for
    config,    \* the harness and model each was created with
    closed,    \* the ones whose client was closed
    \* the tasks
    pc,        \* where each is
    conv,      \* the conversation it works on
    held,      \* the subprocess it is spawning, closing or was given
    want,      \* what a call asks for
    sample,    \* start_generation of a call
    cancelled, \* tasks to which a CancelledError was delivered in aclose
    todo,      \* what is left of the reaper's pass and of shutdown's loop
    old,       \* conversations not used since the cutoff of the reaper's pass
    turns      \* the calls made by a turn that is in _active_turns

procVars == <<proc, home, config, closed>>
callVars == <<conv, want, sample>>
vars == <<mgr, entries, gen, inFlight, lock, procVars, pc, callVars, held, cancelled,
          todo, old, turns>>

\* The steps inside the spawn lock that await: client.aclose(), the wait after
\* SIGTERM, and the wait for the socket to be bound.
Critical == {"aclose", "grace", "spawning"}
Phases == {"idle", "waiting", "served", "failed", "done", "drain", "gone"} \cup Critical
Looping == {"reaper", "shutdown"}

TypeOK ==
    /\ mgr \in {"started", "stopping", "stopped"}
    /\ entries \in [Convs -> Procs \cup {NoProc}]
    /\ gen \in [Convs -> Nat]
    /\ inFlight \in SUBSET Convs
    /\ lock \in [Convs -> Seq(Ops)]
    /\ proc \in [Procs -> {"unborn", "starting", "alive", "dead"}]
    /\ home \in [Procs -> Convs \cup {NoConv}]
    /\ config \in [Procs -> Wants \cup {NoWant}]
    /\ closed \in SUBSET Procs
    /\ pc \in [Ops -> Phases]
    /\ conv \in [Ops -> Convs \cup {NoConv}]
    /\ held \in [Ops -> Procs \cup {NoProc}]
    /\ want \in [Calls -> Wants \cup {NoWant}]
    /\ sample \in [Calls -> Nat]
    /\ cancelled \in SUBSET (Calls \cup Releases)
    /\ todo \in [Looping -> SUBSET Convs]
    /\ old \in SUBSET Convs
    /\ turns \in SUBSET Calls

Init ==
    /\ mgr = "started"
    /\ entries = [c \in Convs |-> NoProc]
    /\ gen = [c \in Convs |-> 0]
    /\ inFlight = {}
    /\ lock = [c \in Convs |-> <<>>]
    /\ proc = [p \in Procs |-> "unborn"]
    /\ home = [p \in Procs |-> NoConv]
    /\ config = [p \in Procs |-> NoWant]
    /\ closed = {}
    /\ pc = [op \in Ops |-> "idle"]
    /\ conv = [op \in Ops |-> NoConv]
    /\ held = [op \in Ops |-> NoProc]
    /\ want = [op \in Calls |-> NoWant]
    /\ sample = [op \in Calls |-> 0]
    /\ cancelled = {}
    /\ todo = [op \in Looping |-> {}]
    /\ old = {}
    /\ turns = {}

-----------------------------------------------------------------------------
(* The spawn lock *)

\* Mutant: the critical section is entered without waiting for the lock.
Holds_NoLock(op) == TRUE

Holds(op) == lock[conv[op]] # <<>> /\ Head(lock[conv[op]]) = op

Acquire(op, c) ==
    /\ conv' = [conv EXCEPT ![op] = c]
    /\ lock' = [lock EXCEPT ![c] = Append(@, op)]
    /\ pc' = [pc EXCEPT ![op] = "waiting"]

\* The async with block is left: the first waiter holds the lock.
Leave(op, phase) ==
    /\ lock' = [lock EXCEPT ![conv[op]] = Tail(@)]
    /\ pc' = [pc EXCEPT ![op] = phase]

\* A cancelled waiter gives up its place, or the lock it was just given.
GiveUp(op, phase) ==
    /\ \E i \in DOMAIN lock[conv[op]] :
          /\ lock[conv[op]][i] = op
          /\ lock' = [lock EXCEPT ![conv[op]] = RemoveAt(@, i)]
    /\ pc' = [pc EXCEPT ![op] = phase]

-----------------------------------------------------------------------------
(* Closing and spawning, inside the spawn lock *)

\* Where a task goes once its close is over and there is nothing to spawn.
AfterClose(op) ==
    CASE op \in Calls -> "failed"
      [] op \in Releases -> "done"
      [] op = "shutdown" -> "drain"
      [] op = "reaper" -> IF mgr = "started" THEN "idle" ELSE "gone"

\* _close_entry begins: the client is closed.
BeginClose(op, p) ==
    /\ pc' = [pc EXCEPT ![op] = "aclose"]
    /\ held' = [held EXCEPT ![op] = p]
    /\ closed' = closed \cup {p}
    /\ UNCHANGED <<lock, proc, home, config>>

\* get_client with no usable entry: the harness-agnostic callers get
\* NoLiveHarnessError, the others create a subprocess, which may fail.  ps is
\* the state of the subprocesses after the close that came before, if any.
Spawn(op, ps) ==
    \/ /\ want[op] # AnyHarness
       /\ \E p \in Procs :
             /\ ps[p] = "unborn"
             /\ proc' = [ps EXCEPT ![p] = "starting"]
             /\ home' = [home EXCEPT ![p] = conv[op]]
             /\ config' = [config EXCEPT ![p] = want[op]]
             /\ held' = [held EXCEPT ![op] = p]
       /\ pc' = [pc EXCEPT ![op] = "spawning"]
       /\ UNCHANGED lock
    \/ /\ proc' = ps
       /\ Leave(op, "failed")
       /\ UNCHANGED <<home, config, held>>

\* A call closes either the entry it replaces, and goes on, or a subprocess it
\* never registered because shutdown began, and fails.
Replaces(op) == op \in Calls \ cancelled /\ entries[conv[op]] = held[op]

CloseDone(op, ps) ==
    /\ \/ Replaces(op) /\ Spawn(op, ps)
       \/ /\ ~Replaces(op)
          /\ proc' = ps
          /\ Leave(op, AfterClose(op))
          /\ UNCHANGED <<home, config, held>>
    /\ UNCHANGED <<mgr, entries, gen, inFlight, closed, callVars, cancelled, todo, old, turns>>

\* aclose() returned, raised or was cancelled: the finally block sends SIGTERM
\* to a subprocess that still runs.
Aclosed(op) ==
    /\ pc[op] = "aclose"
    /\ \/ /\ proc[held[op]] = "alive"
          /\ pc' = [pc EXCEPT ![op] = "grace"]
          /\ UNCHANGED <<mgr, entries, gen, inFlight, lock, procVars, callVars, held, cancelled,
                         todo, old, turns>>
       \/ proc[held[op]] # "alive" /\ CloseDone(op, proc)

\* Mutant: no SIGKILL for a subprocess that outlives its grace period.
GraceEnds_NoKill(op) == pc[op] = "grace" /\ proc[held[op]] = "dead"

\* The subprocess exits, or its grace period does and it is killed.
GraceEnds(op) == pc[op] = "grace"

GraceOver(op) ==
    /\ GraceEnds(op)
    /\ CloseDone(op, [proc EXCEPT ![held[op]] = "dead"])

-----------------------------------------------------------------------------
(* get_client *)

\* The call samples the release generation and asks for the spawn lock.  A
\* turn is in _active_turns before it calls; a conversation has one at a time.
GetClient(op, c, w, isTurn) ==
    /\ mgr # "stopped" /\ pc[op] = "idle"
    /\ isTurn => w # AnyHarness /\ \A t \in turns : conv[t] # c
    /\ turns' = IF isTurn THEN turns \cup {op} ELSE turns
    /\ want' = [want EXCEPT ![op] = w]
    /\ sample' = [sample EXCEPT ![op] = gen[c]]
    /\ Acquire(op, c)
    /\ UNCHANGED <<mgr, entries, gen, inFlight, procVars, held, cancelled, todo, old>>

\* Mutant: the release generation is not compared.
Refused_NoGeneration(op) == mgr # "started"

Refused(op) == mgr # "started" \/ gen[conv[op]] # sample[op]

\* Mutant: the exit status of the cached subprocess is not looked at.
Unusable_Dead(op, p) ==
    \/ want[op].harness \notin {"any", config[p].harness}
    \/ want[op].model \notin {NoModel, config[p].model}

\* The registered subprocess died, or runs another harness or model.
Unusable(op, p) ==
    \/ proc[p] = "dead"
    \/ want[op].harness \notin {"any", config[p].harness}
    \/ want[op].model \notin {NoModel, config[p].model}

\* get_client returns: last_used_at is now.
Serve(op, p) ==
    /\ held' = [held EXCEPT ![op] = p]
    /\ old' = old \ {conv[op]}
    /\ Leave(op, "served")

EnterGetClient(op) ==
    LET p == entries[conv[op]]
    IN  /\ op \in Calls /\ pc[op] = "waiting" /\ Holds(op)
        /\ \/ /\ Refused(op)
              /\ Leave(op, "failed")
              /\ UNCHANGED <<procVars, held, old>>
           \/ /\ ~Refused(op) /\ p # NoProc /\ Unusable(op, p)
              /\ BeginClose(op, p)
              /\ UNCHANGED old
           \/ /\ ~Refused(op) /\ p # NoProc /\ ~Unusable(op, p)
              /\ Serve(op, p)
              /\ UNCHANGED procVars
           \/ /\ ~Refused(op) /\ p = NoProc
              /\ Spawn(op, proc)
              /\ UNCHANGED <<closed, old>>
        /\ UNCHANGED <<mgr, entries, gen, inFlight, callVars, cancelled, todo, turns>>

\* The socket is bound: the subprocess is registered, or discarded if shutdown
\* began meanwhile.
SpawnReady(op) ==
    /\ pc[op] = "spawning"
    /\ proc' = [proc EXCEPT ![held[op]] = "alive"]
    /\ \/ /\ mgr = "started"
          /\ entries' = [entries EXCEPT ![conv[op]] = held[op]]
          /\ Serve(op, held[op])
          /\ UNCHANGED closed
       \/ /\ mgr # "started"
          /\ pc' = [pc EXCEPT ![op] = "aclose"]
          /\ closed' = closed \cup {held[op]}
          /\ UNCHANGED <<entries, held, lock, old>>
    /\ UNCHANGED <<mgr, gen, inFlight, home, config, callVars, cancelled, todo, turns>>

\* Mutant: the half-started subprocess is abandoned, not killed.
Aborted_NoKill(p) == [proc EXCEPT ![p] = "alive"]

Aborted(p) == [proc EXCEPT ![p] = "dead"]

\* The subprocess exits before it binds, or the bind times out, or the call is
\* cancelled: it is killed and reaped before the lock is left.
SpawnAborts(op) ==
    /\ pc[op] = "spawning"
    /\ proc' = Aborted(held[op])
    /\ Leave(op, "failed")
    /\ UNCHANGED <<mgr, entries, gen, inFlight, home, config, closed, callVars, held,
                   cancelled, todo, old, turns>>

-----------------------------------------------------------------------------
(* release *)

Release(op, c) ==
    /\ op \in Releases /\ pc[op] = "idle"
    /\ Acquire(op, c)
    /\ UNCHANGED <<mgr, entries, gen, inFlight, procVars, held, want, sample, cancelled,
                   todo, old, turns>>

\* Mutant: what was not registered is closed all the same.
Unregister_NoCheck(op) ==
    /\ gen' = [gen EXCEPT ![conv[op]] = @ + 1]
    /\ entries' = [entries EXCEPT ![conv[op]] = NoProc]
    /\ BeginClose(op, entries[conv[op]])

\* Bump the generation, unregister, close what was registered.
Unregister(op) ==
    LET c == conv[op]
    IN  /\ gen' = [gen EXCEPT ![c] = @ + 1]
        /\ entries' = [entries EXCEPT ![c] = NoProc]
        /\ \/ /\ entries[c] = NoProc
              /\ Leave(op, AfterClose(op))
              /\ UNCHANGED <<procVars, held>>
           \/ entries[c] # NoProc /\ BeginClose(op, entries[c])

EnterRelease(op) ==
    /\ op \in Releases \cup {"shutdown"} /\ pc[op] = "waiting" /\ Holds(op)
    /\ Unregister(op)
    /\ UNCHANGED <<mgr, inFlight, callVars, cancelled, todo, old, turns>>

-----------------------------------------------------------------------------
(* The idle reaper *)

\* A response is streaming, or the runner's probe reports an active turn.
Busy(c) == c \in inFlight \/ \E t \in turns : conv[t] = c

\* A pass begins: stale is any set of idle entries, the ones whose last use
\* precedes the cutoff.
ReaperPass(stale) ==
    /\ pc["reaper"] = "idle" /\ todo["reaper"] = {} /\ mgr = "started"
    /\ stale # {} /\ \A c \in stale : entries[c] # NoProc /\ ~Busy(c)
    /\ todo' = [todo EXCEPT !["reaper"] = stale]
    /\ old' = stale
    /\ UNCHANGED <<mgr, entries, gen, inFlight, lock, procVars, pc, callVars, held,
                   cancelled, turns>>

ReaperPick(c) ==
    /\ pc["reaper"] = "idle" /\ c \in todo["reaper"]
    /\ todo' = [todo EXCEPT !["reaper"] = @ \ {c}]
    /\ Acquire("reaper", c)
    /\ UNCHANGED <<mgr, entries, gen, inFlight, procVars, held, want, sample, cancelled,
                   old, turns>>

\* Mutant: the snapshot of the pass is trusted.
Spared_Snapshot(c) == entries[c] = NoProc

\* only_if_idle_cutoff: the entry is gone or has become active since the pass
\* took its snapshot.
Spared(c) == entries[c] = NoProc \/ c \notin old \/ Busy(c)

EnterReap ==
    /\ pc["reaper"] = "waiting" /\ Holds("reaper")
    /\ \/ /\ Spared(conv["reaper"])
          /\ Leave("reaper", "idle")
          /\ UNCHANGED <<entries, gen, procVars, held>>
       \/ ~Spared(conv["reaper"]) /\ Unregister("reaper")
    /\ UNCHANGED <<mgr, inFlight, callVars, cancelled, todo, old, turns>>

-----------------------------------------------------------------------------
(* shutdown *)

\* The flag is set, then the reaper is cancelled: it leaves its sleep or its
\* place in the queue, or finishes the close it is in (AfterClose), or, in the
\* wait after SIGTERM, leaves the subprocess to its fate.
ShutdownBegins ==
    /\ mgr = "started"
    /\ mgr' = "stopping"
    /\ todo' = [todo EXCEPT !["reaper"] = {}]
    /\ \/ /\ pc["reaper"] = "idle"
          /\ pc' = [pc EXCEPT !["reaper"] = "gone"]
          /\ UNCHANGED lock
       \/ pc["reaper"] = "waiting" /\ GiveUp("reaper", "gone")
       \/ pc["reaper"] = "aclose" /\ UNCHANGED <<pc, lock>>
       \/ GraceCancel /\ pc["reaper"] = "grace" /\ Leave("reaper", "gone")
    /\ UNCHANGED <<entries, gen, inFlight, procVars, callVars, held, cancelled, old, turns>>

\* Mutant: only the registered conversations are released.
ToDrain_Entries(c) == entries[c] # NoProc

\* Registered, or with a spawn lock: someone has asked for it before.
ToDrain(c) == entries[c] # NoProc \/ \E op \in Ops : conv[op] = c

ShutdownLists ==
    /\ mgr = "stopping" /\ pc["reaper"] = "gone" /\ pc["shutdown"] = "idle"
    /\ todo' = [todo EXCEPT !["shutdown"] = {c \in Convs : ToDrain(c)}]
    /\ pc' = [pc EXCEPT !["shutdown"] = "drain"]
    /\ UNCHANGED <<mgr, entries, gen, inFlight, lock, procVars, callVars, held, cancelled,
                   old, turns>>

ShutdownPick(c) ==
    /\ pc["shutdown"] = "drain" /\ c \in todo["shutdown"]
    /\ todo' = [todo EXCEPT !["shutdown"] = @ \ {c}]
    /\ Acquire("shutdown", c)
    /\ UNCHANGED <<mgr, entries, gen, inFlight, procVars, held, want, sample, cancelled,
                   old, turns>>

ShutdownEnds ==
    /\ pc["shutdown"] = "drain" /\ todo["shutdown"] = {}
    /\ mgr' = "stopped"
    /\ pc' = [pc EXCEPT !["shutdown"] = "done"]
    /\ UNCHANGED <<entries, gen, inFlight, lock, procVars, callVars, held, cancelled, todo,
                   old, turns>>

-----------------------------------------------------------------------------
(* Cancellation, turns and crashes *)

\* The task of a call or a release is cancelled.  In aclose the finally block
\* still runs; after SIGTERM nothing does.  (In a spawn: SpawnAborts.)
Cancel(op) ==
    /\ op \in Calls \cup Releases
    /\ \/ pc[op] = "waiting" /\ GiveUp(op, "failed") /\ UNCHANGED cancelled
       \/ /\ pc[op] = "aclose"
          /\ cancelled' = cancelled \cup {op}
          /\ UNCHANGED <<lock, pc>>
       \/ GraceCancel /\ pc[op] = "grace" /\ Leave(op, "failed") /\ UNCHANGED cancelled
    /\ UNCHANGED <<mgr, entries, gen, inFlight, procVars, callVars, held, todo, old, turns>>

\* response.created: mark_in_flight.
ResponseCreated(op) ==
    /\ op \in turns /\ pc[op] = "served"
    /\ inFlight' = inFlight \cup {conv[op]}
    /\ UNCHANGED <<mgr, entries, gen, lock, procVars, pc, callVars, held, cancelled, todo,
                   old, turns>>

\* _on_proxy_stream_end: the turn is over, clear_in_flight.
TurnEnds(op) ==
    /\ op \in turns /\ pc[op] \in {"served", "failed"}
    /\ turns' = turns \ {op}
    /\ inFlight' = inFlight \ {conv[op]}
    /\ UNCHANGED <<mgr, entries, gen, lock, procVars, pc, callVars, held, cancelled, todo, old>>

\* The turn task is cancelled while it drains the stream: it leaves
\* _active_turns, and _on_proxy_stream_end does not run.
TurnCancelled(op) ==
    /\ op \in turns /\ pc[op] = "served"
    /\ turns' = turns \ {op}
    /\ UNCHANGED <<mgr, entries, gen, inFlight, lock, procVars, pc, callVars, held,
                   cancelled, todo, old>>

\* A subprocess dies by itself.
Crash(p) ==
    /\ proc[p] = "alive"
    /\ proc' = [proc EXCEPT ![p] = "dead"]
    /\ UNCHANGED <<mgr, entries, gen, inFlight, lock, home, config, closed, pc, callVars,
                   held, cancelled, todo, old, turns>>

-----------------------------------------------------------------------------

TaskStep(op) ==
    \/ EnterGetClient(op) \/ EnterRelease(op) \/ (op = "reaper" /\ EnterReap)
    \/ Aclosed(op) \/ GraceOver(op) \/ SpawnReady(op) \/ SpawnAborts(op)

ShutdownStep == ShutdownLists \/ ShutdownEnds \/ \E c \in Convs : ShutdownPick(c)

Environment ==
    \/ \E op \in Calls, c \in Convs, w \in Wants, t \in BOOLEAN : GetClient(op, c, w, t)
    \/ \E op \in Releases, c \in Convs : Release(op, c)
    \/ \E op \in Ops : Cancel(op) \/ ResponseCreated(op) \/ TurnEnds(op) \/ TurnCancelled(op)
    \/ \E stale \in SUBSET Convs : ReaperPass(stale)
    \/ \E c \in Convs : ReaperPick(c)
    \/ \E p \in Procs : Crash(p)
    \/ ShutdownBegins

Next == Environment \/ ShutdownStep \/ \E op \in Ops : TaskStep(op)

\* A task that is ready runs, and each await of its critical section is
\* bounded: aclose, the grace period, the readiness timeout.
Fairness == WF_vars(ShutdownStep) /\ \A op \in Ops : WF_vars(TaskStep(op))

Spec == Init /\ [][Next]_vars /\ Fairness

-----------------------------------------------------------------------------
(* Properties *)

Live(p) == proc[p] \in {"starting", "alive"}

\* Never two subprocesses of one conversation at once, which would bind the
\* same socket: through respawns on a crash or a model change, releases, reaps
\* and cancellations ("don't race two subprocesses onto the same socket",
\* get_client).
OneLiveProcess ==
    \A p, q \in Procs : Live(p) /\ Live(q) /\ home[p] = home[q] => p = q

\* A live subprocess is registered, or in the hands of the task that holds the
\* spawn lock of its conversation: nothing that can still reach it is needed
\* to remember it (the leak _spawn_entry and _close_entry guard against).
Tracked ==
    \A p \in Procs : Live(p) =>
        \/ entries[home[p]] = p
        \/ \E op \in Ops : pc[op] \in Critical /\ held[op] = p /\ conv[op] = home[p]

\* A call that waited behind a release does not bring the subprocess back: a
\* call that closes or spawns still has the generation it sampled.
NoRespawnAfterRelease ==
    \A op \in Calls : pc[op] \in Critical => sample[op] = gen[conv[op]]

\* The reaper never tears down what an active turn was given, and never makes
\* a turn that waits behind it fail with "released while get_client waited".
ReaperSparesTurns ==
    pc["reaper"] \in {"aclose", "grace"} =>
        \A op \in turns :
            /\ pc[op] = "served" => held[op] # held["reaper"]
            /\ pc[op] = "waiting" /\ conv[op] = conv["reaper"] => sample[op] = gen[conv[op]]

\* shutdown releases every remaining subprocess, the ones still starting and
\* the ones nobody has registered yet included.
ShutdownClean == mgr = "stopped" => \A p \in Procs : ~Live(p)

\* The client a call returns was never closed, neither by the call itself nor
\* by an earlier one that was cancelled on the way.
ServesOpenClient ==
    [][\A op \in Calls :
        pc[op] # "served" /\ pc'[op] = "served" => held'[op] \notin closed']_vars

\* Every call returns or fails: no close, spawn, release or cancelled waiter
\* keeps the spawn lock of a conversation.
CallsReturn == \A op \in Calls : pc[op] = "waiting" ~> pc[op] \in {"served", "failed"}

\* shutdown comes to its end, whatever the reaper and the calls were doing.
ShutdownReturns == mgr = "stopping" ~> mgr = "stopped"
=============================================================================
