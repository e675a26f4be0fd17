----------------------- MODULE TunnelRequests_proofs -----------------------
(***************************************************************************)
(* Proofs about TunnelRequests, for any number of connections, requests    *)
(* and chunks: its types, and that the registry's in-flight maps hold      *)
(* nothing but requests somebody is still busy with.                       *)
(***************************************************************************)
EXTENDS TunnelRequests, TLAPS

\* A caller past its start has the session its request was opened on.
Bound == \A r \in Reqs : phase[r] \notin {"idle", "failed"} => conn[r] \in Conns

\* The frames scheduled are of requests that were opened.
PostedBound == \A m \in posted : conn[m.req] \in Conns

\* The inductive invariant of the types.
TInv == TypeOK /\ Bound /\ PostedBound

LEMMA InitTyped == Init => TInv
BY ConstantsAssumption
   DEF Init, TInv, TypeOK, Bound, PostedBound, Phases, Awaiting, Using, Over, Active

LEMMA AbortTyped ==
    ASSUME TypeOK, NEW c \in Conns, Abort(c)
    PROVE  /\ callbacks' \in [Reqs -> Seq({"head", "body", "end", "abort"})]
           /\ inFlight' \in [Conns -> SUBSET Reqs]
BY SMT DEF TypeOK, Abort, AbortCallback

LEMMA ClosedTyped ==
    ASSUME TypeOK, NEW r \in Reqs, Closed(r)
    PROVE  /\ inFlight' \in [Conns -> SUBSET Reqs]
           /\ \A c \in Conns : inFlight'[c] \subseteq inFlight[c]
           /\ conn[r] \in Conns => r \notin inFlight'[conn[r]]
<1>1. inFlight' = [c \in Conns |-> IF c = conn[r] THEN inFlight[c] \ {r} ELSE inFlight[c]]
  BY DEF TypeOK, Closed
<1> QED  BY <1>1 DEF TypeOK

LEMMA NextTyped == TInv /\ [Next]_vars => TInv'
<1> SUFFICES ASSUME TInv, [Next]_vars PROVE TInv'
  OBVIOUS
<1> USE ConstantsAssumption
    DEF TInv, TypeOK, Bound, PostedBound, Phases, Awaiting, Using, Over, Active,
        tunnelVars, replyVars, callerVars, runnerVars
<1>1. ASSUME NEW c \in Conns, Register(c) PROVE TInv'
  <2>1. CASE current = NoConn
    BY <1>1, <2>1 DEF Register
  <2>2. CASE current # NoConn
    <3>1. current \in Conns /\ Abort(current)
      BY <1>1, <2>2 DEF Register
    <3> QED  BY <1>1, <3>1, AbortTyped DEF Register
  <2> QED  BY <2>1, <2>2
<1>2. ASSUME NEW c \in Conns, Deregister(c) PROVE TInv'
  BY <1>2, AbortTyped DEF Deregister
<1>3. ASSUME NEW c \in Conns, LinkDown(c) PROVE TInv'
  BY SMTT(30), <1>3 DEF LinkDown
<1>4. ASSUME NEW c \in Conns, RunnerNotices(c) PROVE TInv'
  BY SMTT(30), <1>4 DEF RunnerNotices
<1>5. ASSUME NEW r \in Reqs, RouteFrame(r) PROVE TInv'
  <2>1. /\ Head(toServer[r]) \in {"head", "body", "end"}
        /\ Tail(toServer[r]) \in Seq({"head", "body", "end"})
    BY <1>5 DEF RouteFrame
  <2>2. callbacks' \in [Reqs -> Seq({"head", "body", "end", "abort"})]
    BY SMTT(30), <1>5, <2>1 DEF RouteFrame
  <2>3. toServer' \in [Reqs -> Seq({"head", "body", "end"})]
    BY <1>5, <2>1 DEF RouteFrame
  <2> QED  BY <1>5, <2>2, <2>3 DEF RouteFrame
<1>6. ASSUME NEW m \in posted, RunPosted(m) PROVE TInv'
  <2>1. m.req \in Reqs /\ m.kind \in {"request", "cancel"} /\ conn[m.req] \in Conns
    OBVIOUS
  <2>2. toRunner' \in [Reqs -> Seq({"request", "cancel"})]
    BY <1>6, <2>1 DEF RunPosted
  <2>3. /\ phase' \in [Reqs -> Phases] /\ inFlight' \in [Conns -> SUBSET Reqs]
        /\ \A r \in Reqs : phase'[r] # phase[r] => conn[r] \in Conns
    BY ZenonT(30), <1>6, <2>1, ClosedTyped DEF RunPosted, Goto
  <2> QED  BY <1>6, <2>2, <2>3 DEF RunPosted
<1>7. ASSUME NEW r \in Reqs, RunCallback(r) PROVE TInv'
  <2>1. PICK kind \in {"head", "body", "end", "abort"} : kind = Head(callbacks[r])
    BY <1>7 DEF RunCallback
  <2>2. callbacks' \in [Reqs -> Seq({"head", "body", "end", "abort"})]
    BY <1>7 DEF RunCallback
  <2>3. (IF kind = "body" THEN <<"body">> ELSE Sentinel(kind)) \in Seq({"body", "None"})
    <3>1. <<"body">> \in Seq({"body", "None"}) /\ <<"None">> \in Seq({"body", "None"})
          /\ <<>> \in Seq({"body", "None"})
      OBVIOUS
    <3> QED  BY ONLY <3>1 DEF Sentinel
  <2>4. queue' \in [Reqs -> Seq({"body", "None"})]
    BY <1>7, <2>1, <2>3 DEF RunCallback
  <2>5. head' \in [Reqs -> {"pending", "set", "error"}] /\ aborted' \in SUBSET Reqs
    BY <1>7 DEF RunCallback
  <2> QED  BY <1>7, <2>2, <2>4, <2>5 DEF RunCallback
<1>8. ASSUME NEW r \in Reqs, HeadReady(r) PROVE TInv'
  BY ZenonT(30), <1>8, ClosedTyped DEF HeadReady, Goto
<1>9. ASSUME NEW r \in Reqs, Take(r) PROVE TInv'
  <2>1. queue' \in [Reqs -> Seq({"body", "None"})]
    BY <1>9 DEF Take
  <2>2. conn[r] \in Conns
    BY <1>9 DEF Take
  <2>3. /\ phase' \in [Reqs -> Phases] /\ inFlight' \in [Conns -> SUBSET Reqs]
        /\ delivered' \in [Reqs -> Nat]
        /\ \A q \in Reqs \ {r} : phase'[q] = phase[q]
    <3>1. CASE \/ Goto(r, "failed") /\ Closed(r) /\ UNCHANGED delivered
               \/ Goto(r, "done") /\ Closed(r) /\ UNCHANGED delivered
      <4>1. inFlight' \in [Conns -> SUBSET Reqs]
        BY <3>1, ClosedTyped
      <4> QED  BY <3>1, <4>1 DEF Goto
    <3>2. CASE /\ Goto(r, "using") /\ UNCHANGED inFlight
               /\ delivered' = [delivered EXCEPT ![r] = @ + 1]
      BY <3>2 DEF Goto
    <3> QED  BY <1>9, <3>1, <3>2 DEF Take
  <2> QED  BY <1>9, <2>1, <2>2, <2>3 DEF Take
<1>10. ASSUME NEW r \in Reqs, RunnerReads(r) PROVE TInv'
  BY SMTT(30), <1>10 DEF RunnerReads
<1>11. ASSUME NEW r \in Reqs, SendHead(r) PROVE TInv'
  BY SMTT(30), <1>11 DEF SendHead, Sends
<1>12. ASSUME NEW r \in Reqs, SendChunk(r) PROVE TInv'
  BY SMTT(30), <1>12 DEF SendChunk, Sends
<1>13. ASSUME NEW r \in Reqs, SendEnd(r) PROVE TInv'
  BY SMTT(30), <1>13 DEF SendEnd, Sends
<1>14. ASSUME NEW r \in Reqs, AppCrashes(r) PROVE TInv'
  <2>1. CrashFrames(task[r]) \in Seq({"head", "body", "end"})
    <3>1. /\ <<"head", "body", "end">> \in Seq({"head", "body", "end"})
          /\ <<"end">> \in Seq({"head", "body", "end"})
      OBVIOUS
    <3> QED  BY ONLY <3>1 DEF CrashFrames
  <2>2. toServer' \in [Reqs -> Seq({"head", "body", "end"})]
    BY <1>14, <2>1 DEF AppCrashes, Sends
  <2> QED  BY <1>14, <2>2 DEF AppCrashes, Sends
<1>15. ASSUME NEW r \in Reqs, Open(r) PROVE TInv'
  BY <1>15 DEF Open, Goto
<1>16. ASSUME NEW r \in Reqs, Refuse(r) PROVE TInv'
  BY <1>16 DEF Refuse, Goto
<1>17. ASSUME NEW r \in Reqs, Iterate(r) PROVE TInv'
  BY <1>17 DEF Iterate, Goto
<1>18. ASSUME NEW r \in Reqs, Cancel(r) PROVE TInv'
  <2>1. /\ phase' = [phase EXCEPT ![r] = "left"] /\ conn[r] \in Conns
        /\ inFlight' \in [Conns -> SUBSET Reqs]
    BY <1>18, ClosedTyped DEF Cancel, Cancelled, Goto
  <2> QED  BY <1>18, <2>1 DEF Cancel
<1>19. ASSUME NEW r \in Reqs, Leave(r) PROVE TInv'
  <2>1. conn[r] \in Conns /\ inFlight' \in [Conns -> SUBSET Reqs]
    BY <1>19, ClosedTyped DEF Leave
  <2>2. posted' \in SUBSET [req : Reqs, kind : {"request", "cancel"}]
    BY <1>19 DEF Leave
  <2>3. \A m \in posted' : m \in posted \/ m.req = r
    BY <1>19 DEF Leave
  <2>4. phase' \in [Reqs -> Phases] /\ \A q \in Reqs \ {r} : phase'[q] = phase[q]
    BY <1>19 DEF Leave, Goto
  <2> QED  BY <1>19, <2>1, <2>2, <2>3, <2>4 DEF Leave
<1>20. ASSUME NEW r \in Reqs, CancelLeaving(r) PROVE TInv'
  BY <1>20, ClosedTyped DEF CancelLeaving, Goto
<1>21. CASE UNCHANGED vars
  BY <1>21 DEF vars
<1> QED
  BY <1>1, <1>2, <1>3, <1>4, <1>5, <1>6, <1>7, <1>8, <1>9, <1>10, <1>11, <1>12, <1>13,
     <1>14, <1>15, <1>16, <1>17, <1>18, <1>19, <1>20, <1>21
     DEF Next, ServerStep, CallerStep, AppStep

\* Type correctness of the tunnel, its callers and the runner's dispatch
\* tasks, for every number of connections, requests and chunks.
THEOREM TypeCorrect == Spec => []TypeOK
<1>1. TInv => TypeOK
  BY DEF TInv
<1> QED  BY InitTyped, NextTyped, <1>1, PTL DEF Spec

-----------------------------------------------------------------------------

\* What the actions of a caller that closes its slot have in common: the
\* request leaves the map, whatever phase it goes to.
LEMMA ClosedOwned ==
    ASSUME TInv, InFlightOwned, NEW r \in Reqs, conn[r] \in Conns, Closed(r),
           UNCHANGED <<current, conn>>, \A q \in Reqs \ {r} : phase'[q] = phase[q]
    PROVE  InFlightOwned'
<1>1. \A c \in Conns : inFlight'[c] \subseteq inFlight[c]
  BY ClosedTyped DEF TInv
<1>2. \A c \in Conns : r \notin inFlight'[c]
  BY <1>1, ClosedTyped DEF TInv, InFlightOwned
<1>3. \A c \in Conns : \A q \in inFlight'[c] : q \in Reqs \ {r} /\ q \in inFlight[c]
  BY <1>1, <1>2 DEF TInv, TypeOK
<1> QED  BY <1>3 DEF InFlightOwned

\* A connection that is not registered has an empty map, and an abort empties
\* the map of the one that is.
LEMMA AbortOwned ==
    ASSUME TInv, InFlightOwned, NEW c \in Conns, c = current, Abort(c),
           UNCHANGED <<conn, phase>>
    PROVE  InFlightOwned'
<1>1. \A d \in Conns : inFlight'[d] = {}
  <2>1. \A d \in Conns \ {c} : inFlight[d] = {}
    BY DEF TInv, TypeOK, InFlightOwned
  <2>2. inFlight' = [inFlight EXCEPT ![c] = {}]
    BY DEF Abort
  <2> QED  BY <2>1, <2>2 DEF TInv, TypeOK
<1> QED  BY <1>1 DEF InFlightOwned

LEMMA NextOwned ==
    ASSUME ~CancelInClose, TInv, InFlightOwned, [Next]_vars PROVE InFlightOwned'
<1> USE ConstantsAssumption DEF Phases, Awaiting, Using, Over
<1>1. ASSUME NEW c \in Conns, Register(c) PROVE InFlightOwned'
  <2>1. CASE current = NoConn
    <3>1. \A d \in Conns : inFlight[d] = {}
      BY <2>1 DEF InFlightOwned, TInv, TypeOK
    <3>2. UNCHANGED inFlight
      BY <1>1, <2>1 DEF Register
    <3> QED  BY <3>1, <3>2 DEF InFlightOwned
  <2>2. CASE current # NoConn
    <3>1. current \in Conns
      BY <2>2 DEF TInv, TypeOK
    <3> QED  BY <1>1, <2>2, <3>1, AbortOwned DEF Register
  <2> QED  BY <2>1, <2>2
<1>2. ASSUME NEW c \in Conns, Deregister(c) PROVE InFlightOwned'
  BY <1>2, AbortOwned DEF Deregister
<1>3. ASSUME NEW m \in posted, RunPosted(m) PROVE InFlightOwned'
  <2>1. m.req \in Reqs /\ conn[m.req] \in Conns
    BY DEF TInv, TypeOK, PostedBound
  <2>2. CASE UNCHANGED <<phase, inFlight>>
    BY <1>3, <2>2 DEF RunPosted, InFlightOwned
  <2>3. CASE Goto(m.req, "head") /\ UNCHANGED inFlight
    BY <1>3, <2>1, <2>3 DEF RunPosted, Goto, InFlightOwned, TInv, TypeOK
  <2>4. CASE Closed(m.req) /\ Goto(m.req, IF m.kind = "request" THEN "failed" ELSE "left")
    <3>1. \A q \in Reqs \ {m.req} : phase'[q] = phase[q]
      BY <2>4 DEF Goto, TInv, TypeOK
    <3> QED  BY <1>3, <2>1, <2>4, <3>1, ClosedOwned DEF RunPosted
  <2> QED  BY <1>3, <2>2, <2>3, <2>4 DEF RunPosted
<1>4. ASSUME NEW r \in Reqs, HeadReady(r) PROVE InFlightOwned'
  <2>1. conn[r] \in Conns /\ \A q \in Reqs \ {r} : phase'[q] = phase[q]
    BY <1>4 DEF HeadReady, Goto, TInv, TypeOK, Bound
  <2>2. CASE head[r] = "set"
    BY SMTT(30), <1>4, <2>2 DEF HeadReady, Goto, InFlightOwned, TInv, TypeOK
  <2>3. CASE head[r] # "set"
    BY <1>4, <2>1, <2>3, ClosedOwned DEF HeadReady
  <2> QED  BY <2>2, <2>3
<1>5. ASSUME NEW r \in Reqs, Take(r) PROVE InFlightOwned'
  <2>1. conn[r] \in Conns /\ \A q \in Reqs \ {r} : phase'[q] = phase[q]
    BY <1>5 DEF Take, Goto, TInv, TypeOK, Bound
  <2>2. CASE Closed(r)
    BY <1>5, <2>1, <2>2, ClosedOwned DEF Take
  <2>3. CASE Goto(r, "using") /\ UNCHANGED inFlight
    BY <1>5, <2>3 DEF Take, Goto, InFlightOwned, TInv, TypeOK
  <2> QED  BY <1>5, <2>2, <2>3 DEF Take
<1>6. ASSUME NEW r \in Reqs, Open(r) PROVE InFlightOwned'
  <2>1. \A c \in Conns : r \notin inFlight[c]
    BY <1>6 DEF Open, InFlightOwned
  <2>2. /\ current \in Conns
        /\ phase' = [phase EXCEPT ![r] = "sending"] /\ conn' = [conn EXCEPT ![r] = current]
        /\ inFlight' = [inFlight EXCEPT ![current] = @ \cup {r}] /\ current' = current
    BY <1>6 DEF Open, Goto, TInv, TypeOK
  <2> QED  BY <2>1, <2>2 DEF InFlightOwned, TInv, TypeOK
<1>7. ASSUME NEW r \in Reqs, Iterate(r) PROVE InFlightOwned'
  <2>1. phase' = [phase EXCEPT ![r] = "reading"] /\ UNCHANGED <<current, inFlight, conn>>
    BY <1>7 DEF Iterate, Goto, tunnelVars
  <2> QED  BY <2>1 DEF InFlightOwned, TInv, TypeOK
<1>8. ASSUME NEW r \in Reqs, Cancel(r) PROVE InFlightOwned'
  <2>1. conn[r] \in Conns /\ \A q \in Reqs \ {r} : phase'[q] = phase[q]
    BY <1>8 DEF Cancel, Goto, TInv, TypeOK, Bound
  <2> QED  BY <1>8, <2>1, ClosedOwned DEF Cancel, Cancelled
<1>9. ASSUME NEW r \in Reqs, Leave(r) PROVE InFlightOwned'
  <2>1. conn[r] \in Conns /\ \A q \in Reqs \ {r} : phase'[q] = phase[q]
    BY <1>9 DEF Leave, Goto, TInv, TypeOK, Bound
  <2>2. CASE Goto(r, "leaving") /\ UNCHANGED inFlight
    BY <1>9, <2>2 DEF Leave, Goto, InFlightOwned, TInv, TypeOK
  <2>3. CASE Closed(r)
    BY <1>9, <2>1, <2>3, ClosedOwned DEF Leave
  <2> QED  BY <1>9, <2>2, <2>3 DEF Leave
<1>10. ASSUME UNCHANGED <<current, inFlight, phase, conn>> PROVE InFlightOwned'
  BY <1>10 DEF InFlightOwned
<1>11. ASSUME NEW c \in Conns, LinkDown(c) \/ RunnerNotices(c) PROVE InFlightOwned'
  BY <1>10, <1>11 DEF LinkDown, RunnerNotices, callerVars
<1>12. ASSUME NEW r \in Reqs,
              RouteFrame(r) \/ RunCallback(r) \/ RunnerReads(r) \/ AppStep(r)
       PROVE  InFlightOwned'
  <2>1. ASSUME AppStep(r) PROVE UNCHANGED <<current, inFlight, phase, conn>>
    BY <2>1 DEF AppStep, SendHead, SendChunk, SendEnd, AppCrashes, Sends, callerVars
  <2>2. ASSUME RouteFrame(r) \/ RunCallback(r) \/ RunnerReads(r)
        PROVE  UNCHANGED <<current, inFlight, phase, conn>>
    BY <2>2 DEF RouteFrame, RunCallback, RunnerReads, callerVars, tunnelVars
  <2> QED  BY <1>10, <1>12, <2>1, <2>2
<1>13. ASSUME NEW r \in Reqs, Refuse(r) PROVE InFlightOwned'
  <2>1. \A c \in Conns : r \notin inFlight[c]
    BY <1>13 DEF Refuse, InFlightOwned
  <2>2. UNCHANGED <<current, inFlight, conn>> /\ \A q \in Reqs \ {r} : phase'[q] = phase[q]
    BY <1>13 DEF Refuse, Goto, tunnelVars, TInv, TypeOK
  <2> QED  BY SMTT(30), <2>1, <2>2 DEF InFlightOwned, TInv, TypeOK
<1>14. CASE UNCHANGED vars
  BY <1>10, <1>14 DEF vars, tunnelVars, callerVars
<1> QED
  BY <1>1, <1>2, <1>3, <1>4, <1>5, <1>6, <1>7, <1>8, <1>9, <1>11, <1>12, <1>13, <1>14
     DEF Next, ServerStep, CallerStep, CancelLeaving

\* The registry keeps reassembly state for nobody: an in-flight entry belongs
\* to a caller that has not finished, on the registered connection, unless a
\* caller is cancelled inside aclose().
THEOREM NoOrphanedEntry == ASSUME ~CancelInClose PROVE Spec => []InFlightOwned
<1>1. Init => InFlightOwned
  BY DEF Init, InFlightOwned
<1>2. TInv /\ InFlightOwned /\ [Next]_vars => TInv' /\ InFlightOwned'
  BY NextTyped, NextOwned
<1> QED  BY InitTyped, <1>1, <1>2, PTL DEF Spec
=============================================================================
