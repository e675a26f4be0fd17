--------------------------- MODULE BlockNotifier ---------------------------
(***************************************************************************)
(* The notifier that wakes a parent agent when its sub-agent has been      *)
(* blocked on an approval prompt for a while, for the one prompt of        *)
(* Elicitations, which composes it with the server's side of the prompt.   *)
(*                                                                         *)
(* Every elicitation event of the process passes ObserveRequest or         *)
(* ObserveResolved on its publish path.  A request that finds the id       *)
(* unarmed arms it and starts a handler task, which sleeps out the         *)
(* escalation grace, looks its session's parent up, registers a resolve    *)
(* signal, delivers the block notice with retries, and waits for the       *)
(* signal to deliver the resolution notice.  The arm and the signal are    *)
(* kept under the elicitation's id and not under the handler's.            *)
(*                                                                         *)
(* Source: omnicraft/runtime/subagent_block_notifier.py,                   *)
(*         omnicraft/server/routes/sessions.py                             *)
(***************************************************************************)
EXTENDS Naturals, FiniteSets

CONSTANTS
    Handlers,   \* handler tasks, numbered in the order they are started
    Retries     \* attempts a delivery makes after its first one

ASSUME NotifierAssumption ==
    IsFiniteSet(Handlers) /\ Handlers = 1..Cardinality(Handlers) /\ Retries \in Nat

VARIABLES
    armed,      \* the id is in _notified
    armedBy,    \* the session whose event armed it
    signal,     \* the handler whose event _resolution_signals holds, or 0
    signalled,  \* the handlers whose event is set
    handler,    \* where each handler task is
    tries,      \* attempts its current delivery has failed
    woken       \* a block notice was delivered since the id was last armed

notifier == <<armed, armedBy, signal, signalled, handler, tries, woken>>

\* The blocked sub-agent's session and its parent's, a top-level one.
Sessions == {"child", "parent"}

NotifierTypeOK ==
    /\ armed \in BOOLEAN /\ armedBy \in Sessions
    /\ signal \in Handlers \cup {0}
    /\ signalled \subseteq Handlers
    /\ handler \in [Handlers -> {"unused", "grace", "lookup", "waking", "backoff",
                                 "awaiting", "closing", "done"}]
    /\ tries \in [Handlers -> 0..Retries]
    /\ woken \in BOOLEAN

NotifierInit ==
    /\ armed = FALSE /\ armedBy = "child" /\ signal = 0 /\ signalled = {} /\ woken = FALSE
    /\ handler = [h \in Handlers |-> "unused"]
    /\ tries = [h \in Handlers |-> 0]

-----------------------------------------------------------------------------
(* The publish path *)

\* The next handler task to start.
NextHandler == CHOOSE h \in Handlers :
    /\ handler[h] = "unused"
    /\ \A g \in Handlers : g < h => handler[g] # "unused"

\* A request event of session s: nothing if the id is armed, else a handler.  The
\* handler of a top-level session finds no parent and returns with the arm as it
\* is: it changes nothing, and is not represented.
ObserveRequest(s) ==
    IF armed
    THEN UNCHANGED notifier
    ELSE /\ armed' = TRUE /\ armedBy' = s
         /\ woken' = FALSE
         /\ handler' = IF s = "child" THEN [handler EXCEPT ![NextHandler] = "grace"]
                                     ELSE handler
         /\ UNCHANGED <<signal, signalled, tries>>

\* A resolved event, of whatever session.
ObserveResolved ==
    /\ armed' = FALSE /\ armedBy' = "child"
    /\ signalled' = IF signal = 0 THEN signalled ELSE signalled \cup {signal}
    /\ UNCHANGED <<signal, handler, tries, woken>>

-----------------------------------------------------------------------------
(* A handler task *)

At(h, st) == handler' = [handler EXCEPT ![h] = st]

\* The handler returns; the event it made, if any, goes with it.
Ends(h) == At(h, "done") /\ signalled' = signalled \ {h}

\* The escalation grace is over: the handler goes on if the id is armed, whether
\* or not by the request that started it.
GraceEnds(h) ==
    /\ handler[h] = "grace"
    /\ At(h, IF armed THEN "lookup" ELSE "done")
    /\ UNCHANGED <<armed, armedBy, signal, signalled, tries, woken>>

\* The store answers who the parent is.  In one critical section the handler checks
\* the arm and registers its signal over whatever was there; the first attempt to
\* deliver follows without a pause.
LookedUp(h) ==
    /\ handler[h] = "lookup"
    /\ IF armed
       THEN At(h, "waking") /\ signal' = h
       ELSE At(h, "done") /\ UNCHANGED signal
    /\ UNCHANGED <<armed, armedBy, signalled, tries, woken>>

\* Mutant: the arm is not looked at again before an attempt.
StillBlocked_Unchecked == TRUE
\* The check before an attempt to deliver a block notice.
StillBlocked == armed

\* The backoff is over: the next attempt to deliver the block notice or, if the
\* block was resolved, MOOT: the handler ends and drops the signal that is
\* registered, its own or another handler's.
Attempt(h) ==
    /\ handler[h] = "backoff"
    /\ IF StillBlocked
       THEN At(h, "waking") /\ UNCHANGED <<signal, signalled, tries>>
       ELSE Ends(h) /\ signal' = 0 /\ tries' = [tries EXCEPT ![h] = 0]
    /\ UNCHANGED <<armed, armedBy, woken>>

\* The parent has the block notice: the handler waits for the resolve signal.
Woken(h) ==
    /\ handler[h] = "waking"
    /\ At(h, "awaiting")
    /\ woken' = TRUE
    /\ tries' = [tries EXCEPT ![h] = 0]
    /\ UNCHANGED <<armed, armedBy, signal, signalled>>

\* Mutant: an exhausted delivery keeps the id armed.
ArmAfterFailure_Kept == armed
\* The arm once every attempt has failed: a later request may try again.
ArmAfterFailure == FALSE

\* Mutant: one attempt too many.
AnotherTry_OneMore(h) == tries[h] <= Retries
\* A failed attempt is not the last one.
AnotherTry(h) == tries[h] < Retries

\* An attempt fails: another one, or FAILED, which releases the arm and drops
\* the registered signal.
WakeFails(h) ==
    /\ handler[h] = "waking"
    /\ IF AnotherTry(h)
       THEN /\ At(h, "backoff")
            /\ tries' = [tries EXCEPT ![h] = @ + 1]
            /\ UNCHANGED <<armed, armedBy, signal, signalled>>
       ELSE /\ Ends(h)
            /\ armed' = ArmAfterFailure /\ armedBy' = "child"
            /\ signal' = 0
            /\ tries' = [tries EXCEPT ![h] = 0]
    /\ UNCHANGED woken

\* The block was resolved: the handler turns to the resolution notice.
Signalled(h) ==
    /\ handler[h] = "awaiting" /\ h \in signalled
    /\ At(h, "closing")
    /\ UNCHANGED <<armed, armedBy, signal, signalled, tries, woken>>

\* The resolution notice is delivered, or its last attempt has failed: the handler
\* drops the registered signal either way.
NoticeEnds(h) ==
    /\ handler[h] = "closing"
    /\ Ends(h)
    /\ signal' = 0
    /\ UNCHANGED <<armed, armedBy, tries, woken>>

HandlerStep(h) ==
    \/ GraceEnds(h) \/ LookedUp(h) \/ Attempt(h) \/ Woken(h) \/ WakeFails(h)
    \/ Signalled(h) \/ NoticeEnds(h)
=============================================================================
