---------------------------- MODULE RequestStream ----------------------------
(***************************************************************************)
(* What WSTunnelTransport promises a caller about each HTTP request it     *)
(* sends to a runner (runner/transports/ws_tunnel/transport.py): the       *)
(* response arrives whole, in order, or the caller gets an exception.      *)
(***************************************************************************)
EXTENDS Naturals

CONSTANTS
    Reqs,  \* the requests
    Chunks \* how many chunks the body of a response has

VARIABLES
    st,    \* what the caller has seen of each request
    got,   \* the number of body chunks it was given
    broken \* requests whose handler in the runner raised

vars == <<st, got, broken>>

Init ==
    /\ st = [r \in Reqs |-> "idle"]
    /\ got = [r \in Reqs |-> 0]
    /\ broken = {}

Move(r, from, to) == st[r] \in from /\ st' = [st EXCEPT ![r] = to]

Ask(r) == Move(r, {"idle"}, "asked") /\ UNCHANGED <<got, broken>>

\* The status and the headers are there.
Answer(r) == Move(r, {"asked"}, "open") /\ UNCHANGED <<got, broken>>

Deliver(r) ==
    /\ st[r] = "open" /\ got[r] < Chunks
    /\ got' = [got EXCEPT ![r] = @ + 1]
    /\ UNCHANGED <<st, broken>>

\* The iteration ends normally: only after the whole body, or where the
\* handler broke off.
Finish(r) ==
    /\ Move(r, {"open"}, "done")
    /\ got[r] = Chunks \/ r \in broken
    /\ UNCHANGED <<got, broken>>

\* ConnectError, or the ConnectionError of a lost tunnel.
Fail(r) == Move(r, {"idle", "asked", "open"}, "failed") /\ UNCHANGED <<got, broken>>

\* The caller goes away.
Leave(r) == Move(r, {"asked", "open"}, "left") /\ UNCHANGED <<got, broken>>

\* The handler in the runner raises.
Break(r) == broken' = broken \cup {r} /\ UNCHANGED <<st, got>>

Next ==
    \E r \in Reqs : \/ Ask(r) \/ Answer(r) \/ Deliver(r) \/ Finish(r) \/ Fail(r) \/ Leave(r)
                    \/ Break(r)

Spec == Init /\ [][Next]_vars
=============================================================================
