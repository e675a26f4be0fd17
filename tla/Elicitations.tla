---------------------------- MODULE Elicitations ----------------------------
(***************************************************************************)
(* One approval prompt of a native harness in a sub-agent's session, from  *)
(* the harness's hook to the cards people see and back.                    *)
(*                                                                         *)
(* The hook holds a long poll to the server.  The server parks a wait      *)
(* under the prompt's id, puts a card up in the session and in its         *)
(* ancestors' (here one), and waits for the first of a web verdict, a      *)
(* native-side answer, a disconnect and a timeout.  A poll that is severed *)
(* is posted again under the same id: the new wait takes the id over while *)
(* the old one may still be unwinding, a verdict given in the gap is kept  *)
(* as a tombstone, and the card of a severed wait is cleared only after a  *)
(* grace and only if nobody has parked again.  Every publication passes    *)
(* the block notifier (BlockNotifier), which wakes the parent's agent.     *)
(*                                                                         *)
(* Source: omnicraft/server/routes/sessions.py,                            *)
(*         omnicraft/runtime/pending_elicitations.py,                      *)
(*         omnicraft/claude_native_hook.py                                 *)
(***************************************************************************)
EXTENDS BlockNotifier

CONSTANTS
    MaxPosts,   \* posts of the prompt the hook makes at most
    MaxAnswers  \* web verdicts given at most

ASSUME PostsAssumption ==
    MaxPosts \in Nat \ {0} /\ MaxAnswers \in Nat /\ Cardinality(Handlers) >= MaxPosts

VARIABLES
    hook,       \* the hook process: about to post, holding a poll, or how it ended
    wait,       \* the server's wait of each post
    parked,     \* the wait the three registries hold under the id, or 0
    tombstone,  \* a verdict is kept for the next post of the id
    grace,      \* the waits whose deferred clear of the card is scheduled
    card,       \* the sessions that show the card (pending_elicitations._pending)
    clearing,   \* resolved events still to be mirrored into the ancestor by a thread
    answers     \* web verdicts given so far

server == <<wait, parked, tombstone, grace, card, clearing>>
vars == <<hook, server, answers, notifier>>

Waits == 1..MaxPosts

\* A wait: how far it has got, whether its connection is open, whether its future
\* and its resolved_elsewhere event are set, whether it returns a verdict, and
\* whether it put the card up.
WaitRecord == [at : {"none", "checking", "mirroring", "waiting", "reaping", "mirrorClear",
                     "ended"},
               open : BOOLEAN, future : BOOLEAN, elsewhere : BOOLEAN, taken : BOOLEAN,
               published : BOOLEAN]
Unposted == [at |-> "none", open |-> FALSE, future |-> FALSE, elsewhere |-> FALSE,
             taken |-> FALSE, published |-> FALSE]

\* How a hook ends: with the verdict, empty-handed (its harness asks in the
\* terminal), or killed by the harness that was answered in the terminal.
HookEnds == {"verdict", "failAsk", "killed"}

TypeOK ==
    /\ hook \in {"posting", "held"} \cup HookEnds
    /\ wait \in [Waits -> WaitRecord]
    /\ parked \in Waits \cup {0}
    /\ tombstone \in BOOLEAN
    /\ grace \subseteq Waits
    /\ card \subseteq Sessions
    /\ clearing \in 0..(MaxAnswers + MaxPosts)
    /\ answers \in 0..MaxAnswers
    /\ NotifierTypeOK

Init ==
    /\ hook = "posting"
    /\ wait = [w \in Waits |-> Unposted]
    /\ parked = 0 /\ tombstone = FALSE /\ grace = {} /\ card = {} /\ clearing = 0
    /\ answers = 0
    /\ NotifierInit

\* A request event for session s: the card goes up and the notifier looks at it.
PublishRequest(s) == card' = card \cup {s} /\ ObserveRequest(s)
\* A resolved event for session s.
PublishResolved(s) == card' = card \ {s} /\ ObserveResolved

-----------------------------------------------------------------------------
(* The hook *)

\* The hook posts the prompt: the server reads the session's labels first.
Post(w) ==
    /\ hook = "posting"
    /\ wait[w].at = "none" /\ \A v \in Waits : v < w => wait[v].at # "none"
    /\ wait' = [wait EXCEPT ![w].at = "checking", ![w].open = TRUE]
    /\ hook' = "held"
    /\ UNCHANGED <<parked, tombstone, grace, card, clearing, answers, notifier>>

\* A proxy cuts the long poll: the hook will post again, after its backoff.
Sever(w) ==
    /\ wait[w].open
    /\ wait' = [wait EXCEPT ![w].open = FALSE]
    /\ hook' = "posting"
    /\ UNCHANGED <<parked, tombstone, grace, card, clearing, answers, notifier>>

\* The hook gives up: a rejection, too many hard failures, or the deadline.
GiveUp ==
    /\ hook = "posting"
    /\ wait[1].at # "none"
    /\ hook' = "failAsk"
    /\ UNCHANGED <<server, answers, notifier>>

\* The prompt is answered in the terminal: the harness ends its hook.
AnsweredInTerminal ==
    /\ hook \in {"posting", "held"} /\ wait[1].at # "none"
    /\ hook' = "killed"
    /\ wait' = [w \in Waits |-> [wait[w] EXCEPT !.open = FALSE]]
    /\ UNCHANGED <<parked, tombstone, grace, card, clearing, answers, notifier>>

\* The wait's response reaches the hook: an empty one is a fail-ask.
Reply(w) ==
    /\ wait[w].at = "ended" /\ wait[w].open
    /\ hook' = IF wait[w].taken THEN "verdict" ELSE "failAsk"
    /\ wait' = [wait EXCEPT ![w].open = FALSE]
    /\ UNCHANGED <<parked, tombstone, grace, card, clearing, answers, notifier>>

-----------------------------------------------------------------------------
(* The server's wait of one post *)

\* The session's label, which a PATCH or a verdict may have set meanwhile, approves
\* its prompts: the wait returns an accept and parks nothing.
AutoApproved(w) ==
    /\ wait[w].at = "checking"
    /\ wait' = [wait EXCEPT ![w].at = "ended", ![w].taken = TRUE]
    /\ UNCHANGED <<hook, parked, tombstone, grace, card, clearing, answers, notifier>>

\* Mutant: the request is published although a verdict is waiting for it.
Kept_Ignored == FALSE
\* A verdict kept for this id is there to be consumed.
Kept == tombstone

\* The verdict of the gap is returned, and what this wait had parked popped,
\* before anything is published.
TakeTombstone(w) ==
    /\ wait[w].at = "checking" /\ Kept
    /\ wait' = [wait EXCEPT ![w].at = "ended", ![w].taken = TRUE]
    /\ tombstone' = FALSE
    /\ parked' = 0
    /\ UNCHANGED <<hook, grace, card, clearing, answers, notifier>>

\* The wait parks itself, over whatever held the id, and puts the card up; a
\* thread will mirror it into the ancestor.
Park(w) ==
    /\ wait[w].at = "checking" /\ ~Kept
    /\ wait' = [wait EXCEPT ![w].at = "mirroring", ![w].published = TRUE]
    /\ parked' = w
    /\ PublishRequest("child")
    /\ UNCHANGED <<hook, tombstone, grace, clearing, answers>>

\* The thread has mirrored the request into the ancestor.
MirrorRequest(w) ==
    /\ wait[w].at = "mirroring"
    /\ wait' = [wait EXCEPT ![w].at = "waiting"]
    /\ PublishRequest("parent")
    /\ UNCHANGED <<hook, parked, tombstone, grace, clearing, answers>>

\* A wait that ends decides here whether it has a verdict; its race tasks are
\* reaped next, and a verdict that comes in then is not looked at.
EndOf(w) ==
    /\ wait[w].at = "waiting"
    /\ wait' = [wait EXCEPT ![w].at = "reaping", ![w].taken = wait[w].future]
    /\ UNCHANGED <<hook, parked, tombstone, grace, card, clearing, answers, notifier>>

\* The wait ends on the verdict, a native-side answer or a disconnect.
WaitEnds(w) == (wait[w].future \/ wait[w].elsewhere \/ ~wait[w].open) /\ EndOf(w)

\* The wait's timeout, which may be a day, ends it.
TimesOut(w) == EndOf(w)

\* Mutant: the wait pops what is parked, its own or not.
Own_Any(w) == TRUE
\* What is parked is this wait's.
Own(w) == parked = w

\* The prompt was answered, as far as this wait knows.
Settled(w) == wait[w].taken \/ wait[w].elsewhere

\* The wait once it has unwound to a state: its future and its event are gone, and
\* a verdict it returns to a connection that was severed is lost.
Unwound(w, at) == [wait[w] EXCEPT !.at = at, !.future = FALSE, !.elsewhere = FALSE,
                           !.taken = wait[w].taken /\ wait[w].open]

\* The finally block: its own entries go, and the card goes now if the prompt was
\* answered, else after the grace.
Unpark(w) ==
    /\ wait[w].at = "reaping"
    /\ parked' = IF Own(w) THEN 0 ELSE parked
    /\ IF Settled(w)
       THEN /\ wait' = [wait EXCEPT ![w] = Unwound(w, "mirrorClear")]
            /\ PublishResolved("child")
            /\ UNCHANGED grace
       ELSE /\ wait' = [wait EXCEPT ![w] = Unwound(w, "ended")]
            /\ grace' = grace \cup {w}
            /\ UNCHANGED <<card, notifier>>
    /\ UNCHANGED <<hook, tombstone, clearing, answers>>

\* The thread has mirrored the resolved event of a settled wait.
MirrorClear(w) ==
    /\ wait[w].at = "mirrorClear"
    /\ wait' = [wait EXCEPT ![w].at = "ended"]
    /\ PublishResolved("parent")
    /\ UNCHANGED <<hook, parked, tombstone, grace, clearing, answers>>

\* Mutant: the deferred clear does not look whether the id was parked again.
Reparked_Unchecked == FALSE
\* A new wait holds the id, and owns the clear of its card.
Reparked == parked # 0

\* Mutant: the deferred clear forgets the card.
ClearDue_Never == FALSE
\* The deferred clear has a card to clear.
ClearDue == ~Reparked

\* The grace of a severed wait is over.
GraceOver(w) ==
    /\ w \in grace
    /\ grace' = grace \ {w}
    /\ IF ClearDue
       THEN PublishResolved("child") /\ clearing' = clearing + 1
       ELSE UNCHANGED <<card, clearing, notifier>>
    /\ UNCHANGED <<hook, wait, parked, tombstone, answers>>

-----------------------------------------------------------------------------
(* Answers *)

\* A web verdict: it goes to the parked wait, unless that one has a verdict
\* already, or becomes the tombstone; the card is cleared here and, by a thread,
\* in the ancestor.
Answer ==
    /\ answers < MaxAnswers /\ wait[1].published
    /\ answers' = answers + 1
    /\ IF parked = 0
       THEN tombstone' = TRUE /\ UNCHANGED wait
       ELSE /\ wait' = [wait EXCEPT ![parked].future = TRUE, ![parked].elsewhere = TRUE]
            /\ UNCHANGED tombstone
    /\ PublishResolved("child")
    /\ clearing' = clearing + 1
    /\ UNCHANGED <<hook, parked, grace>>

\* A thread mirrors the resolved event of a verdict or of a deferred clear.
MirrorResolved ==
    /\ clearing > 0
    /\ clearing' = clearing - 1
    /\ PublishResolved("parent")
    /\ UNCHANGED <<hook, wait, parked, tombstone, grace, answers>>

\* The tool's result is mirrored after a terminal answer: a wait still parked for
\* this tool learns that it was answered.
ToolResult ==
    /\ hook = "killed" /\ parked # 0
    /\ wait' = [wait EXCEPT ![parked].elsewhere = TRUE]
    /\ UNCHANGED <<hook, parked, tombstone, grace, card, clearing, answers, notifier>>

-----------------------------------------------------------------------------
WaitStep(w) ==
    \/ AutoApproved(w) \/ TakeTombstone(w) \/ Park(w) \/ MirrorRequest(w)
    \/ WaitEnds(w) \/ Unpark(w) \/ MirrorClear(w) \/ GraceOver(w)

NotifierStep(h) == HandlerStep(h) /\ UNCHANGED <<hook, server, answers>>

Next ==
    \/ \E w \in Waits : Post(w) \/ Sever(w) \/ Reply(w) \/ WaitStep(w) \/ TimesOut(w)
    \/ GiveUp \/ AnsweredInTerminal
    \/ Answer \/ MirrorResolved \/ ToolResult
    \/ \E h \in Handlers : NotifierStep(h)

\* The loop and its threads run, a disconnect is observed, and a handler's sleeps
\* and deliveries come back; nobody need answer, and no timeout is counted on.
Fairness ==
    /\ \A w \in Waits : WF_vars(WaitStep(w))
    /\ WF_vars(MirrorResolved)
    /\ \A h \in Handlers : WF_vars(NotifierStep(h))

Spec == Init /\ [][Next]_vars /\ Fairness

-----------------------------------------------------------------------------
(* Properties *)

\* A wait that is still waiting stays the one an answer reaches until another post
\* of the prompt parks: no wait that unwinds takes its registry entries away.
OnlyOwnerUnparks ==
    [][\A w \in Waits :
        (parked = w /\ parked' = 0) => wait'[w].at \notin {"mirroring", "waiting"}]_vars

\* As long as nobody has answered, a parked prompt shows its card, whatever
\* deferred clears of earlier posts are under way.
UnansweredKeepsItsCard ==
    \A w \in Waits :
        (answers = 0 /\ hook # "killed" /\ wait[w].at = "waiting" /\ parked = w) => "child" \in card

\* Nobody is asked for an approval whose verdict is waiting for the hook's retry.
NotAskedWhileAnswered == tombstone => parked = 0 /\ "child" \notin card

\* The parent is never woken for a prompt that shows nowhere any more: every
\* attempt to deliver a block notice begins while a card is up.
WakesOnlyForACard ==
    [][\A h \in Handlers : (handler[h] # "waking" /\ handler'[h] = "waking") => card # {}]_vars

\* Once the hook has returned or died, its cards go, in both sessions, and stay away.
CardsClear == (<>(hook \in HookEnds)) => <>[](card = {})

\* A block is not forgotten, however long the hook's poll is held: a prompt its session
\* armed is brought to the parent, or released for another publication of it to try
\* again.
BlockIsHandled == (armed /\ armedBy = "child") ~> (woken \/ ~armed \/ armedBy # "child")

\* The parent is woken at most once for one block.
OneWakePerBlock ==
    [][\A h \in Handlers : (handler[h] = "waking" /\ handler'[h] = "awaiting") => ~woken]_vars
=============================================================================
