------------------------ MODULE RequestStream_proofs ------------------------
(***************************************************************************)
(* The proof that TunnelRequests implements RequestStream: what a caller   *)
(* sees of a response that crosses the tunnel is whole and in order, or an *)
(* exception.                                                              *)
(*                                                                         *)
(* A frame on its way is known by its number: the head is number 1, the    *)
(* k-th chunk k + 1, the end Chunks + 2.  The invariant follows the frames *)
(* of a request from the runner through the socket, the callbacks of the   *)
(* caller's loop and the body queue: at each hop the frames are those      *)
(* whose turn it is.                                                       *)
(*                                                                         *)
(* And the proofs that what must reach somebody is on its way: the loss of *)
(* a tunnel and the end of a response to the caller that waits, the cancel *)
(* of a caller that leaves to the runner.                                  *)
(***************************************************************************)
EXTENDS TunnelRequests_proofs

\* A connection holds the reassembly state of the requests opened on it.
OpenOn == \A c \in Conns : \A r \in inFlight[c] : conn[r] = c

\* Nothing of a request exists before it is opened.
Fresh(r) ==
    /\ phase[r] = "idle" => conn[r] = NoConn
    /\ conn[r] = NoConn =>
          /\ toRunner[r] = <<>> /\ toServer[r] = <<>> /\ callbacks[r] = <<>>
          /\ head[r] = "pending" /\ queue[r] = <<>> /\ delivered[r] = 0
          /\ task[r] = "none"

NoRequest(s) == \A i \in 1 .. Len(s) : s[i] # "request"

OneRequest(s) ==
    \A i, j \in 1 .. Len(s) : s[i] = "request" /\ s[j] = "request" => i = j

\* The request frame is sent once and starts one dispatch task.
Once(r) ==
    /\ [req |-> r, kind |-> "request"] \in posted => task[r] = "none" /\ NoRequest(toRunner[r])
    /\ OneRequest(toRunner[r])
    /\ task[r] = "none" \/ NoRequest(toRunner[r])
    /\ task[r] \in {"none", "running"} => sent[r] = 0

\* Frame f may have number n; b: the app has crashed.
Fits(b, f, n) ==
    CASE f = "head" -> n = 1
      [] f = "body" -> n \in 2 .. Chunks + 1
      [] f \in {"end", "None"} -> n > 1 /\ (n = Chunks + 2 \/ b)
      [] OTHER -> TRUE

\* The frames of s may follow n frames.
InPlace(b, s, n) == \A i \in 1 .. Len(s) : Fits(b, s[i], n + i)

Crashed(r) == task[r] = "crashed"

\* The frames the caller's loop has handled, and those the app has sent.
Passed(r) == IF head[r] = "pending" THEN 0 ELSE 1 + delivered[r] + Len(queue[r])

Emitted(r) == CASE task[r] = "streaming" -> sent[r] + 1
                [] task[r] = "ended" -> Chunks + 2
                [] OTHER -> 0

QueueInPlace(r) ==
    /\ head[r] = "pending" => queue[r] = <<>> /\ delivered[r] = 0
    /\ InPlace(Crashed(r), queue[r], 1 + delivered[r])

CallbacksInPlace(r) == InPlace(Crashed(r), callbacks[r], Passed(r))

SocketInPlace(r) ==
    IsOpen(r) => /\ InPlace(Crashed(r), toServer[r], Passed(r) + Len(callbacks[r]))
                 /\ conn[r] \in up /\ task[r] \notin {"crashed", "cancelled"} =>
                       Emitted(r) = Passed(r) + Len(callbacks[r]) + Len(toServer[r])

Listening(r) == r \notin aborted /\ phase[r] \notin Over

InOrder(r) == Listening(r) => QueueInPlace(r) /\ CallbacksInPlace(r) /\ SocketInPlace(r)

RInv ==
    /\ TInv /\ OpenOn
    /\ \A r \in Reqs : Fresh(r) /\ Once(r) /\ InOrder(r)

-----------------------------------------------------------------------------
(* Numbered frames *)

LEMMA FitsMore ==
    ASSUME NEW b \in BOOLEAN, NEW f, NEW n \in Nat, Fits(b, f, n) PROVE Fits(TRUE, f, n)
BY DEF Fits

LEMMA InPlaceMore ==
    ASSUME NEW b \in BOOLEAN, NEW S, NEW s \in Seq(S), NEW n \in Nat, InPlace(b, s, n)
    PROVE  InPlace(TRUE, s, n)
<1>1. ASSUME NEW i \in 1 .. Len(s) PROVE Fits(TRUE, s[i], n + i)
  <2>1. Fits(b, s[i], n + i) /\ n + i \in Nat
    BY DEF InPlace
  <2> QED  BY <2>1, FitsMore
<1> QED  BY <1>1 DEF InPlace

LEMMA InPlaceEmpty ==
    ASSUME NEW b, NEW n \in Nat PROVE InPlace(b, <<>>, n)
BY DEF InPlace

LEMMA InPlaceTail ==
    ASSUME NEW b, NEW S, NEW s \in Seq(S), s # <<>>, NEW n \in Nat, InPlace(b, s, n)
    PROVE  Fits(b, Head(s), n + 1) /\ InPlace(b, Tail(s), n + 1)
<1> DEFINE fits(i) == Fits(b, s[i], n + i)
<1>1. \A i \in 1 .. Len(s) : fits(i)
  BY DEF InPlace
<1>2. Len(s) \in Nat \ {0} /\ Head(s) = s[1] /\ fits(1)
  BY <1>1
<1>3. ASSUME NEW i \in 1 .. Len(Tail(s))
      PROVE  Fits(b, Tail(s)[i], n + 1 + i)
  <2>1. i + 1 \in 1 .. Len(s) /\ Tail(s)[i] = s[i + 1] /\ n + (i + 1) = n + 1 + i
    BY <1>2
  <2>2. fits(i + 1)
    BY <1>1, <2>1
  <2> QED  BY <2>1, <2>2
<1> QED  BY <1>2, <1>3 DEF InPlace

LEMMA InPlaceConcat ==
    ASSUME NEW b, NEW S, NEW s \in Seq(S), NEW t \in Seq(S), NEW n \in Nat,
           InPlace(b, s, n), InPlace(b, t, n + Len(s))
    PROVE  InPlace(b, s \o t, n)
<1>1. \A i \in 1 .. Len(s) : Fits(b, s[i], n + i)
  BY DEF InPlace
<1>2. \A i \in 1 .. Len(t) : Fits(b, t[i], n + Len(s) + i)
  BY DEF InPlace
<1>3. ASSUME NEW i \in 1 .. Len(s \o t) PROVE Fits(b, (s \o t)[i], n + i)
  <2>1. CASE i <= Len(s)
    BY <1>1, <2>1
  <2>2. CASE i > Len(s)
    <3>1. PICK k \in 1 .. Len(t) : i = Len(s) + k
      <4>1. i - Len(s) \in 1 .. Len(t) /\ i = Len(s) + (i - Len(s))
        BY <2>2
      <4> QED  BY <4>1
    <3>2. (s \o t)[i] = t[k]
      BY <3>1
    <3>3. n + i = n + Len(s) + k
      BY <3>1
    <3>4. Fits(b, t[k], n + Len(s) + k)
      BY <1>2
    <3> QED  BY <3>2, <3>3, <3>4
  <2> QED  BY <2>1, <2>2
<1> QED  BY <1>3 DEF InPlace

LEMMA InPlaceAppend ==
    ASSUME NEW b, NEW S, NEW s \in Seq(S), NEW f \in S, NEW n \in Nat,
           InPlace(b, s, n), Fits(b, f, n + Len(s) + 1)
    PROVE  InPlace(b, Append(s, f), n)
<1>1. \A i \in 1 .. Len(s) : Fits(b, s[i], n + i)
  BY DEF InPlace
<1>2. ASSUME NEW i \in 1 .. Len(Append(s, f)) PROVE Fits(b, Append(s, f)[i], n + i)
  <2>1. CASE i <= Len(s)
    BY <1>1, <2>1
  <2>2. CASE i > Len(s)
    <3>1. i = Len(s) + 1 /\ Append(s, f)[i] = f /\ n + i = n + Len(s) + 1
      BY <2>2
    <3> QED  BY <3>1
  <2> QED  BY <2>1, <2>2
<1> QED  BY <1>2 DEF InPlace

LEMMA FramesInPlace ==
    ASSUME NEW b, NEW f, NEW n \in Nat, Fits(b, f, n + 1)
    PROVE  InPlace(b, <<f>>, n)
BY DEF InPlace

-----------------------------------------------------------------------------
(* The connection a request is opened on *)

LEMMA AbortOpenOn ==
    ASSUME TInv, OpenOn, NEW c \in Conns, Abort(c), UNCHANGED conn PROVE OpenOn'
BY DEF TInv, TypeOK, OpenOn, Abort

LEMMA ClosedOpenOn ==
    ASSUME TInv, OpenOn, NEW r \in Reqs, Closed(r), UNCHANGED conn PROVE OpenOn'
<1>1. \A c \in Conns : inFlight'[c] \subseteq inFlight[c]
  BY ClosedTyped DEF TInv
<1> QED  BY <1>1 DEF OpenOn

LEMMA NextOpenOn ==
    ASSUME TInv, OpenOn, \A r \in Reqs : Fresh(r), [Next]_vars PROVE OpenOn'
<1>1. ASSUME UNCHANGED <<inFlight, conn>> PROVE OpenOn'
  BY <1>1 DEF OpenOn
<1>2. ASSUME NEW c \in Conns, Register(c) \/ Deregister(c) PROVE OpenOn'
  <2>1. current \in Conns \cup {NoConn} /\ UNCHANGED conn
    BY <1>2 DEF TInv, TypeOK, Register, Deregister
  <2> QED  BY <1>1, <1>2, <2>1, AbortOpenOn DEF Register, Deregister
<1>3. ASSUME NEW c \in Conns, LinkDown(c) \/ RunnerNotices(c) PROVE OpenOn'
  BY <1>1, <1>3 DEF LinkDown, RunnerNotices, callerVars
<1>4. ASSUME NEW m \in posted, RunPosted(m) PROVE OpenOn'
  <2>1. m.req \in Reqs
    BY DEF TInv, TypeOK
  <2> QED  BY <1>1, <1>4, <2>1, ClosedOpenOn DEF RunPosted
<1>5. ASSUME NEW r \in Reqs, RouteFrame(r) \/ RunCallback(r) \/ RunnerReads(r) PROVE OpenOn'
  BY <1>1, <1>5 DEF RouteFrame, RunCallback, RunnerReads, tunnelVars, callerVars
<1>6. ASSUME NEW r \in Reqs, AppStep(r) PROVE OpenOn'
  BY <1>1, <1>6 DEF AppStep, SendHead, SendChunk, SendEnd, AppCrashes, Sends, callerVars
<1>7. ASSUME NEW r \in Reqs, HeadReady(r) PROVE OpenOn'
  BY <1>1, <1>7, ClosedOpenOn DEF HeadReady
<1>8. ASSUME NEW r \in Reqs, Take(r) PROVE OpenOn'
  BY <1>1, <1>8, ClosedOpenOn DEF Take
<1>9. ASSUME NEW r \in Reqs, Cancel(r) PROVE OpenOn'
  BY <1>9, ClosedOpenOn DEF Cancel, Cancelled
<1>10. ASSUME NEW r \in Reqs, Leave(r) PROVE OpenOn'
  BY <1>1, <1>10, ClosedOpenOn DEF Leave
<1>11. ASSUME NEW r \in Reqs, CancelLeaving(r) PROVE OpenOn'
  BY <1>1, <1>11, ClosedOpenOn DEF CancelLeaving
<1>12. ASSUME NEW r \in Reqs, Refuse(r) \/ Iterate(r) PROVE OpenOn'
  BY <1>1, <1>12 DEF Refuse, Iterate, tunnelVars
<1>13. ASSUME NEW r \in Reqs, Open(r) PROVE OpenOn'
  <2>1. /\ current \in Conns /\ conn[r] = NoConn
        /\ conn' = [conn EXCEPT ![r] = current]
        /\ inFlight' = [inFlight EXCEPT ![current] = @ \cup {r}]
    BY <1>13 DEF Open, TInv, TypeOK, Fresh
  <2>2. \A c \in Conns : r \notin inFlight[c]
    BY <2>1, ConstantsAssumption DEF OpenOn
  <2> QED  BY <2>1, <2>2 DEF OpenOn, TInv, TypeOK
<1>14. CASE UNCHANGED vars
  BY <1>1, <1>14 DEF vars, tunnelVars, callerVars
<1> QED
  BY <1>2, <1>3, <1>4, <1>5, <1>6, <1>7, <1>8, <1>9, <1>10, <1>11, <1>12, <1>13, <1>14
     DEF Next, ServerStep, CallerStep

-----------------------------------------------------------------------------
(* A step of one request leaves the others alone *)

RequestStep(r) ==
    \/ ServerStep(r) \/ CallerStep(r) \/ RunnerReads(r) \/ AppStep(r)
    \/ Open(r) \/ Refuse(r) \/ Iterate(r) \/ Cancel(r) \/ Leave(r) \/ CancelLeaving(r)

ConnStep(c) == Register(c) \/ Deregister(c) \/ LinkDown(c) \/ RunnerNotices(c)

CallerAlone(q) ==
    /\ phase'[q] = phase[q] /\ conn'[q] = conn[q] /\ delivered'[q] = delivered[q]
    /\ callbacks'[q] = callbacks[q] /\ head'[q] = head[q] /\ queue'[q] = queue[q]
    /\ q \in aborted' <=> q \in aborted

TunnelAlone(q) ==
    /\ toRunner'[q] = toRunner[q] /\ toServer'[q] = toServer[q]
    /\ \A c \in Conns : q \in inFlight'[c] <=> q \in inFlight[c]
    /\ [req |-> q, kind |-> "request"] \in posted' <=> [req |-> q, kind |-> "request"] \in posted

Alone(q) == /\ CallerAlone(q) /\ TunnelAlone(q)
            /\ task'[q] = task[q] /\ sent'[q] = sent[q]

LEMMA ClosedAlone ==
    ASSUME TInv, NEW r \in Reqs, NEW q \in Reqs \ {r}, Closed(r)
    PROVE  \A c \in Conns : q \in inFlight'[c] <=> q \in inFlight[c]
BY DEF TInv, TypeOK, Closed

LEMMA OthersAlone ==
    ASSUME TInv, NEW r \in Reqs, NEW q \in Reqs \ {r}, RequestStep(r)
    PROVE  Alone(q) /\ UNCHANGED <<current, up>>
<1> USE DEF TInv, TypeOK, Alone, CallerAlone, TunnelAlone
<1>1. CASE RouteFrame(r)
  BY <1>1 DEF RouteFrame, callerVars, replyVars, runnerVars
<1>2. ASSUME NEW m \in posted, m.req = r, RunPosted(m) PROVE Alone(q) /\ UNCHANGED <<current, up>>
  <2>1. CallerAlone(q) /\ task'[q] = task[q] /\ sent'[q] = sent[q] /\ UNCHANGED <<current, up>>
    BY <1>2 DEF RunPosted, Goto, replyVars, runnerVars
  <2>2. \A c \in Conns : q \in inFlight'[c] <=> q \in inFlight[c]
    BY <1>2, ClosedAlone DEF RunPosted
  <2>3. toRunner'[q] = toRunner[q] /\ toServer'[q] = toServer[q]
    BY <1>2 DEF RunPosted
  <2>4. [req |-> q, kind |-> "request"] \in posted' <=> [req |-> q, kind |-> "request"] \in posted
    <3>1. [req |-> q, kind |-> "request"].req # m.req
      BY <1>2
    <3>2. [req |-> q, kind |-> "request"] # m
      BY <3>1
    <3>3. posted' = posted \ {m}
      BY Zenon, <1>2 DEF RunPosted
    <3> QED  BY <3>2, <3>3
  <2> QED  BY <2>1, <2>2, <2>3, <2>4
<1>3. CASE RunCallback(r)
  BY <1>3 DEF RunCallback, tunnelVars, runnerVars
<1>4. CASE HeadReady(r) \/ Take(r) \/ Cancel(r) \/ CancelLeaving(r) \/ Leave(r)
  <2>1. CallerAlone(q) /\ task'[q] = task[q] /\ sent'[q] = sent[q] /\ UNCHANGED <<current, up>>
    BY <1>4 DEF HeadReady, Take, Cancel, CancelLeaving, Leave, Goto, replyVars, runnerVars
  <2>2. \A c \in Conns : q \in inFlight'[c] <=> q \in inFlight[c]
    BY <1>4, ClosedAlone DEF HeadReady, Take, Cancel, Cancelled, CancelLeaving, Leave
  <2>3. UNCHANGED <<toRunner, toServer>>
    BY <1>4 DEF HeadReady, Take, Cancel, CancelLeaving, Leave
  <2>4. [req |-> q, kind |-> "request"] \in posted' <=> [req |-> q, kind |-> "request"] \in posted
    BY <1>4 DEF HeadReady, Take, Cancel, CancelLeaving, Leave
  <2> QED  BY <2>1, <2>2, <2>3, <2>4
<1>5. CASE AppStep(r)
  BY <1>5 DEF AppStep, SendHead, SendChunk, SendEnd, AppCrashes, Sends, callerVars, replyVars
<1>6. CASE Open(r)
  BY <1>6 DEF Open, Goto, replyVars, runnerVars
<1>7. CASE Refuse(r) \/ Iterate(r)
  BY <1>7 DEF Refuse, Iterate, Goto, tunnelVars, replyVars, runnerVars
<1>8. CASE RunnerReads(r)
  BY <1>8 DEF RunnerReads, callerVars, replyVars, runnerVars
<1> QED
  BY <1>1, <1>2, <1>3, <1>4, <1>5, <1>6, <1>7, <1>8 DEF RequestStep, ServerStep, CallerStep

LEMMA NextSteps ==
    ASSUME [Next]_vars
    PROVE  \/ \E c \in Conns : ConnStep(c)
           \/ \E r \in Reqs : RequestStep(r)
           \/ UNCHANGED vars
BY DEF Next, ConnStep, RequestStep

-----------------------------------------------------------------------------
(* Nothing before the request is opened, one request frame *)

\* What Fresh and Once say of a request survives a step that leaves the pipe
\* of the request alone.
LEMMA FreshKept ==
    ASSUME NEW r \in Reqs, Fresh(r), phase'[r] = "idle" => phase[r] = "idle",
           conn'[r] = conn[r],
           toRunner'[r] = toRunner[r] \/ toRunner'[r] = <<>>,
           toServer'[r] = toServer[r] \/ toServer'[r] = <<>>,
           callbacks'[r] = callbacks[r], head'[r] = head[r], queue'[r] = queue[r],
           delivered'[r] = delivered[r],
           task'[r] = task[r] \/ conn[r] # NoConn
    PROVE  Fresh(r)'
BY DEF Fresh

\* What a step does to a request that has a connection is of no concern.
LEMMA FreshBound ==
    ASSUME NEW r \in Reqs, conn'[r] # NoConn, phase'[r] # "idle" PROVE Fresh(r)'
BY DEF Fresh

LEMMA NextFresh ==
    ASSUME TInv, OpenOn, [Next]_vars, NEW q \in Reqs, Fresh(q) PROVE Fresh(q)'
<1> USE ConstantsAssumption DEF Phases, Awaiting, Using, Over, Active
<1> HIDE DEF Fresh
<1>0. \/ phase[q] # "idle" /\ conn[q] # NoConn
      \/ /\ conn[q] = NoConn /\ \A c \in Conns : q \notin inFlight[c]
         /\ \A m \in posted : m.req # q
         /\ toRunner[q] = <<>> /\ toServer[q] = <<>> /\ callbacks[q] = <<>>
         /\ head[q] = "pending" /\ queue[q] = <<>> /\ delivered[q] = 0 /\ task[q] = "none"
  BY DEF Fresh, OpenOn, TInv, TypeOK, PostedBound
<1>1. ASSUME NEW c \in Conns, Abort(c),
             UNCHANGED <<toRunner, toServer, phase, conn, head, queue, delivered, task>>
      PROVE  Fresh(q)'
  <2>1. CASE q \in inFlight[c]
    <3>1. phase[q] # "idle" /\ conn[q] # NoConn
      BY <1>0, <2>1
    <3> QED  BY <1>1, <3>1, FreshBound
  <2>2. CASE q \notin inFlight[c]
    <3>1. callbacks'[q] = callbacks[q]
      BY <1>1, <2>2 DEF Abort
    <3> QED  BY <1>1, <3>1, FreshKept
  <2> QED  BY <2>1, <2>2
<1>2. ASSUME NEW c \in Conns, Register(c) \/ Deregister(c) PROVE Fresh(q)'
  <2>1. /\ current \in Conns \cup {NoConn}
        /\ UNCHANGED <<toRunner, toServer, phase, conn, head, queue, delivered, task>>
    BY <1>2 DEF TInv, TypeOK, Register, Deregister, runnerVars
  <2>2. CASE UNCHANGED callbacks
    BY <2>1, <2>2, FreshKept
  <2> QED  BY <1>1, <1>2, <2>1, <2>2 DEF Register, Deregister
<1>3. ASSUME NEW c \in Conns, LinkDown(c) \/ RunnerNotices(c) PROVE Fresh(q)'
  <2>1. UNCHANGED <<phase, conn, callbacks, head, queue, delivered>>
    BY <1>3 DEF LinkDown, RunnerNotices, callerVars, replyVars
  <2>2. toServer'[q] = toServer[q] \/ toServer'[q] = <<>>
    BY <1>3 DEF LinkDown, RunnerNotices
  <2>3. toRunner'[q] = toRunner[q] \/ toRunner'[q] = <<>>
    BY <1>3 DEF LinkDown, RunnerNotices
  <2>4. task'[q] = task[q] \/ conn[q] # NoConn
    BY <1>3 DEF LinkDown, RunnerNotices, runnerVars
  <2> QED  BY <2>1, <2>2, <2>3, <2>4, FreshKept
<1>4. ASSUME NEW r \in Reqs, RequestStep(r) PROVE Fresh(q)'
  <2>1. CASE q # r
    <3>1. Alone(q)
      BY <1>4, <2>1, OthersAlone
    <3> QED  BY <3>1, FreshKept DEF Alone, CallerAlone, TunnelAlone
  <2>2. CASE q = r /\ (RouteFrame(r) \/ RunCallback(r) \/ RunnerReads(r) \/ AppStep(r))
    <3>1. UNCHANGED <<phase, conn>>
      BY <2>2 DEF RouteFrame, RunCallback, RunnerReads, AppStep, SendHead, SendChunk,
             SendEnd, AppCrashes, Sends, callerVars
    <3>2. toServer[r] # <<>> \/ callbacks[r] # <<>> \/ toRunner[r] # <<>> \/ task[r] # "none"
      BY <2>2 DEF RouteFrame, RunCallback, RunnerReads, AppStep, SendHead, SendChunk,
             SendEnd, AppCrashes
    <3> QED  BY <1>0, <2>2, <3>1, <3>2, FreshBound
  <2>3. CASE /\ q = r
             /\ Take(r) \/ HeadReady(r) \/ Iterate(r) \/ Cancel(r) \/ Leave(r) \/ CancelLeaving(r)
    <3>1. phase'[r] # "idle" /\ phase[r] \notin {"idle", "failed"} /\ UNCHANGED conn
      BY <2>3 DEF Take, HeadReady, Iterate, Cancel, Leave, CancelLeaving, Goto, TInv, TypeOK
    <3> QED  BY <2>3, <3>1, FreshBound DEF TInv, TypeOK, Bound
  <2>4. CASE q = r /\ Open(r)
    <3>1. phase'[r] # "idle" /\ conn'[r] # NoConn
      BY <2>4 DEF Open, Goto, TInv, TypeOK
    <3> QED  BY <2>4, <3>1, FreshBound
  <2>5. CASE q = r /\ Refuse(r)
    <3>1. phase'[r] # "idle"
      BY <2>5 DEF Refuse, Goto, TInv, TypeOK
    <3> QED  BY <2>5, <3>1, FreshKept DEF Refuse, tunnelVars, replyVars, runnerVars
  <2>6. ASSUME q = r, NEW m \in posted, m.req = r, RunPosted(m) PROVE Fresh(q)'
    <3>1. conn[r] \in Conns
      BY <2>6 DEF TInv, TypeOK, PostedBound
    <3>2. phase'[q] # "idle"
      BY <1>0, <2>6, <3>1 DEF RunPosted, Goto, TInv, TypeOK
    <3> QED  BY <2>6, <3>1, <3>2, FreshBound DEF RunPosted
  <2> QED
    BY <1>4, <2>1, <2>2, <2>3, <2>4, <2>5, <2>6 DEF RequestStep, ServerStep, CallerStep
<1>5. CASE UNCHANGED vars
  BY <1>5, FreshKept DEF vars, tunnelVars, callerVars, replyVars, runnerVars
<1> QED
  BY <1>2, <1>3, <1>4, <1>5, NextSteps DEF ConnStep

LEMMA TailRequests ==
    ASSUME NEW S, NEW s \in Seq(S), s # <<>>
    PROVE  /\ NoRequest(s) => NoRequest(Tail(s)) /\ Head(s) # "request"
           /\ OneRequest(s) => OneRequest(Tail(s))
           /\ OneRequest(s) /\ Head(s) = "request" => NoRequest(Tail(s))
<1>1. Len(s) \in Nat \ {0} /\ Head(s) = s[1] /\ 1 \in 1 .. Len(s)
  OBVIOUS
<1>2. \A i \in 1 .. Len(Tail(s)) : i + 1 \in 1 .. Len(s) /\ i + 1 # 1 /\ Tail(s)[i] = s[i + 1]
  BY <1>1
<1>3. \A i, j \in 1 .. Len(Tail(s)) : i + 1 = j + 1 => i = j
  OBVIOUS
<1>4. NoRequest(s) => NoRequest(Tail(s)) /\ Head(s) # "request"
  BY <1>1, <1>2 DEF NoRequest
<1>5. OneRequest(s) => OneRequest(Tail(s))
  BY <1>2, <1>3 DEF OneRequest
<1>6. OneRequest(s) /\ Head(s) = "request" => NoRequest(Tail(s))
  BY <1>1, <1>2 DEF OneRequest, NoRequest
<1> QED  BY <1>4, <1>5, <1>6

LEMMA AppendRequests ==
    ASSUME NEW S, NEW s \in Seq(S), NEW f \in S
    PROVE  /\ NoRequest(s) => OneRequest(Append(s, f))
           /\ f # "request" /\ NoRequest(s) => NoRequest(Append(s, f))
           /\ f # "request" /\ OneRequest(s) => OneRequest(Append(s, f))
<1>1. \A i \in 1 .. Len(Append(s, f)) :
        \/ i \in 1 .. Len(s) /\ Append(s, f)[i] = s[i]
        \/ i = Len(s) + 1 /\ Append(s, f)[i] = f
  OBVIOUS
<1> QED  BY <1>1 DEF NoRequest, OneRequest

LEMMA NextOnce ==
    ASSUME TInv, OpenOn, [Next]_vars, NEW q \in Reqs, Fresh(q), Once(q) PROVE Once(q)'
<1> HIDE DEF NoRequest, OneRequest
<1>0. NoRequest(<<>>) /\ OneRequest(<<>>)
  BY DEF NoRequest, OneRequest
<1>1. ASSUME UNCHANGED <<posted, toRunner, task, sent>> PROVE Once(q)'
  BY <1>1 DEF Once
<1>2. ASSUME NEW c \in Conns, ConnStep(c) PROVE Once(q)'
  <2>1. CASE Register(c) \/ Deregister(c) \/ LinkDown(c)
    BY <1>1, <2>1 DEF Register, Deregister, LinkDown, runnerVars
  <2>2. CASE RunnerNotices(c)
    <3>1. \/ task'[q] = task[q]
          \/ task[q] \in Active /\ task'[q] = "cancelled"
      BY <2>2 DEF RunnerNotices, Orphaned
    <3>2. toRunner'[q] = toRunner[q] \/ toRunner'[q] = <<>>
      BY <2>2 DEF RunnerNotices
    <3> QED  BY <1>0, <2>2, <3>1, <3>2 DEF Once, RunnerNotices, Active
  <2> QED  BY <1>2, <2>1, <2>2 DEF ConnStep
<1>3. ASSUME NEW r \in Reqs, RequestStep(r) PROVE Once(q)'
  <2>1. CASE q # r
    <3>1. Alone(q)
      BY <1>3, <2>1, OthersAlone
    <3> QED  BY <3>1 DEF Once, Alone, TunnelAlone
  <2>2. CASE \/ RouteFrame(r) \/ CallerStep(r) \/ Refuse(r) \/ Iterate(r) \/ Cancel(r)
             \/ CancelLeaving(r)
    BY <1>1, <2>2 DEF RouteFrame, CallerStep, RunCallback, HeadReady, Take, Refuse, Iterate,
       Cancel, CancelLeaving, tunnelVars, runnerVars
  <2>3. CASE q = r /\ Leave(r)
    <3>1. \/ posted' = posted \cup {[req |-> r, kind |-> "cancel"]}
          \/ posted' = posted
      BY <2>3 DEF Leave
    <3>2. [req |-> r, kind |-> "request"] # [req |-> r, kind |-> "cancel"]
      OBVIOUS
    <3> QED  BY <2>3, <3>1, <3>2 DEF Leave, Once, runnerVars
  <2>4. CASE q = r /\ Open(r)
    <3>1. toRunner[r] = <<>> /\ task[r] = "none" /\ UNCHANGED <<toRunner, task, sent>>
      BY <2>4 DEF Open, Fresh, runnerVars
    <3> QED  BY <1>0, <2>4, <3>1 DEF Once
  <2>5. CASE q = r /\ AppStep(r)
    <3>1. UNCHANGED <<posted, toRunner>>
      BY <2>5 DEF AppStep, SendHead, SendChunk, SendEnd, AppCrashes, Sends
    <3>2. task[r] # "none" /\ task'[r] \notin {"none", "running"}
      BY <2>5 DEF AppStep, SendHead, SendChunk, SendEnd, AppCrashes, TInv, TypeOK
    <3> QED  BY <2>5, <3>1, <3>2 DEF Once
  <2>6. CASE q = r /\ RunnerReads(r)
    <3>1. PICK s \in Seq({"request", "cancel"}) : s = toRunner[r] /\ s # <<>>
      BY <2>6 DEF RunnerReads, TInv, TypeOK
    <3>2. toRunner'[r] = Tail(s) /\ UNCHANGED <<posted, sent>>
      BY <2>6, <3>1 DEF RunnerReads, TInv, TypeOK
    <3>3. CASE Head(s) = "request"
      <4>1. ~NoRequest(s) /\ NoRequest(Tail(s)) /\ OneRequest(Tail(s))
        BY <2>6, <3>1, <3>3, TailRequests DEF Once
      <4>2. task[r] = "none" /\ [req |-> r, kind |-> "request"] \notin posted /\ sent[r] = 0
        BY <2>6, <3>1, <4>1 DEF Once
      <4> QED  BY <2>6, <3>2, <4>1, <4>2 DEF Once
    <3>4. CASE Head(s) # "request"
      <4>1. /\ NoRequest(s) => NoRequest(Tail(s))
            /\ OneRequest(Tail(s))
        BY <2>6, <3>1, TailRequests DEF Once
      <4>2. \/ task'[r] = task[r]
            \/ task[r] \in Active /\ task'[r] = "cancelled"
        BY <2>6, <3>1, <3>4 DEF RunnerReads, TInv, TypeOK
      <4> QED  BY <2>6, <3>1, <3>2, <4>1, <4>2 DEF Once, Active
    <3> QED  BY <3>3, <3>4
  <2>7. ASSUME q = r, NEW m \in posted, m.req = r, RunPosted(m) PROVE Once(q)'
    <3>1. PICK s \in Seq({"request", "cancel"}) : s = toRunner[r]
      BY DEF TInv, TypeOK
    <3>2. /\ m.kind \in {"request", "cancel"} /\ m = [req |-> r, kind |-> m.kind]
          /\ posted' = posted \ {m} /\ UNCHANGED <<task, sent>>
      BY <2>7 DEF RunPosted, TInv, TypeOK, runnerVars
    <3>3. toRunner'[r] = s \/ toRunner'[r] = Append(s, m.kind)
      BY <2>7, <3>1 DEF RunPosted, TInv, TypeOK
    <3>4. CASE m.kind = "request"
      <4>1. [req |-> r, kind |-> "request"] \notin posted' /\ task[r] = "none" /\ NoRequest(s)
        BY <2>7, <3>1, <3>2, <3>4 DEF Once
      <4>2. OneRequest(toRunner'[r])
        BY <2>7, <3>1, <3>2, <3>3, <4>1, AppendRequests DEF Once
      <4> QED  BY <2>7, <3>2, <4>1, <4>2 DEF Once
    <3>5. CASE m.kind = "cancel"
      <4>1. /\ NoRequest(s) => NoRequest(toRunner'[r])
            /\ OneRequest(toRunner'[r])
        BY <2>7, <3>1, <3>2, <3>3, <3>5, AppendRequests DEF Once
      <4> QED  BY <2>7, <3>1, <3>2, <4>1 DEF Once
    <3> QED  BY <3>2, <3>4, <3>5
  <2> QED
    BY <1>3, <2>1, <2>2, <2>3, <2>4, <2>5, <2>6, <2>7 DEF RequestStep, ServerStep
<1>4. CASE UNCHANGED vars
  BY <1>1, <1>4 DEF vars, tunnelVars, runnerVars
<1> QED  BY <1>2, <1>3, <1>4, NextSteps

-----------------------------------------------------------------------------
(* The frames of a response, in place at every hop *)

LEMMA Counts ==
    ASSUME TInv, NEW r \in Reqs
    PROVE  /\ Passed(r) \in Nat /\ 1 + delivered[r] \in Nat
           /\ Len(callbacks[r]) \in Nat /\ Len(toServer[r]) \in Nat
           /\ Passed(r) + Len(callbacks[r]) \in Nat
           /\ Crashed(r) \in BOOLEAN
BY DEF TInv, TypeOK, Passed, Crashed

\* A step that moves no frame of the request keeps its frames in place.
LEMMA InOrderKept ==
    ASSUME NEW r \in Reqs, InOrder(r), Listening(r)' => Listening(r),
           head'[r] = head[r], queue'[r] = queue[r], delivered'[r] = delivered[r],
           callbacks'[r] = callbacks[r], toServer'[r] = toServer[r],
           IsOpen(r)' => IsOpen(r), conn'[r] = conn[r], conn[r] \in up' => conn[r] \in up,
           sent'[r] = sent[r],
           \/ task'[r] = task[r]
           \/ task[r] # "crashed" /\ task'[r] = "cancelled"
           \/ task[r] = "none" /\ task'[r] = "running"
    PROVE  InOrder(r)'
<1>1. Crashed(r)' = Crashed(r) /\ Passed(r)' = Passed(r)
  BY DEF Crashed, Passed
<1>2. task'[r] \notin {"crashed", "cancelled"} =>
         task[r] \notin {"crashed", "cancelled"} /\ Emitted(r)' = Emitted(r)
  BY DEF Emitted
<1>3. QueueInPlace(r) => QueueInPlace(r)'
  BY <1>1 DEF QueueInPlace
<1>4. CallbacksInPlace(r) => CallbacksInPlace(r)'
  BY <1>1 DEF CallbacksInPlace
<1>5. SocketInPlace(r) => SocketInPlace(r)'
  BY <1>1, <1>2 DEF SocketInPlace
<1> QED  BY <1>3, <1>4, <1>5 DEF InOrder

\* Another request's step, or none.
LEMMA InOrderAlone ==
    ASSUME TInv, NEW r \in Reqs, InOrder(r), Alone(r), UNCHANGED up PROVE InOrder(r)'
<1>1. IsOpen(r)' => IsOpen(r)
  BY DEF IsOpen, Alone, CallerAlone, TunnelAlone, TInv, TypeOK
<1>2. Listening(r)' => Listening(r)
  BY DEF Listening, Alone, CallerAlone
<1> QED  BY <1>1, <1>2, InOrderKept DEF Alone, CallerAlone, TunnelAlone

\* An abort ends the stream of the requests of the connection.
LEMMA AbortInOrder ==
    ASSUME TInv, OpenOn, NEW r \in Reqs, InOrder(r), NEW c \in Conns, Abort(c),
           UNCHANGED <<toServer, phase, conn, head, queue, aborted, delivered, task, sent>>,
           conn[r] \in up' => conn[r] \in up
    PROVE  InOrder(r)'
<1>1. IsOpen(r)' => IsOpen(r) /\ r \notin inFlight[c]
  BY DEF IsOpen, Abort, OpenOn, TInv, TypeOK
<1>2. Listening(r)' => Listening(r)
  BY DEF Listening
<1>3. CASE r \notin inFlight[c]
  <2>1. callbacks'[r] = callbacks[r]
    BY <1>3 DEF Abort
  <2> QED  BY <1>1, <1>2, <2>1, InOrderKept
<1>4. CASE r \in inFlight[c]
  <2>1. callbacks'[r] = Append(callbacks[r], "abort")
    BY <1>4 DEF Abort, AbortCallback
  <2>2. Crashed(r)' = Crashed(r) /\ Passed(r)' = Passed(r)
    BY DEF Crashed, Passed
  <2>3. QueueInPlace(r) => QueueInPlace(r)'
    BY <2>2 DEF QueueInPlace
  <2>4. CallbacksInPlace(r) => CallbacksInPlace(r)'
    <3>1. Fits(Crashed(r), "abort", Passed(r) + Len(callbacks[r]) + 1)
      BY DEF Fits
    <3>2. callbacks[r] \in Seq({"head", "body", "end", "abort"})
      BY DEF TInv, TypeOK
    <3> QED  BY <2>1, <2>2, <3>1, <3>2, InPlaceAppend, Counts DEF CallbacksInPlace
  <2>5. SocketInPlace(r)'
    BY <1>1, <1>4 DEF SocketInPlace
  <2> QED  BY <1>2, <2>3, <2>4, <2>5 DEF InOrder
<1> QED  BY <1>3, <1>4

LEMMA ConnInOrder ==
    ASSUME TInv, OpenOn, NEW q \in Reqs, Fresh(q), InOrder(q), NEW c \in Conns, ConnStep(c)
    PROVE  InOrder(q)'
<1> USE ConstantsAssumption
<1>1. CASE Register(c)
  <2>1. /\ current \in Conns \cup {NoConn}
        /\ conn[q] \in up' => conn[q] \in up
        /\ UNCHANGED <<toServer, phase, conn, head, queue, aborted, delivered, task, sent>>
    BY <1>1 DEF Register, TInv, TypeOK, runnerVars
  <2>2. CASE current = NoConn
    <3>1. IsOpen(q)' => IsOpen(q)
      BY <1>1, <2>1, <2>2 DEF Register, IsOpen
    <3>2. Listening(q)' => Listening(q)
      BY <2>1 DEF Listening
    <3> QED  BY <1>1, <2>1, <2>2, <3>1, <3>2, InOrderKept DEF Register
  <2>3. CASE current \in Conns /\ Abort(current)
    BY <2>1, <2>3, AbortInOrder
  <2> QED  BY <1>1, <2>1, <2>2, <2>3 DEF Register
<1>2. CASE Deregister(c)
  <2>1. /\ conn[q] \in up' => conn[q] \in up
        /\ UNCHANGED <<toServer, phase, conn, head, queue, aborted, delivered, task, sent>>
        /\ Abort(c)
    BY <1>2 DEF Deregister, runnerVars
  <2> QED  BY <2>1, AbortInOrder
<1>3. CASE LinkDown(c)
  <2>1. UNCHANGED <<inFlight, phase, conn, callbacks, head, queue, aborted, delivered, task, sent>>
    BY <1>3 DEF LinkDown, callerVars, replyVars, runnerVars
  <2>2. /\ up' = up \ {c}
        /\ \/ toServer'[q] = toServer[q]
           \/ toServer'[q] = <<>> /\ conn[q] = c
    BY <1>3 DEF LinkDown
  <2>3. (IsOpen(q)' => IsOpen(q)) /\ (Listening(q)' => Listening(q))
    BY <2>1 DEF IsOpen, Listening
  <2>4. CASE toServer'[q] = toServer[q]
    BY <2>1, <2>2, <2>3, <2>4, InOrderKept
  <2>5. CASE toServer'[q] = <<>> /\ conn[q] = c
    <3>1. Crashed(q)' = Crashed(q) /\ Passed(q)' = Passed(q)
      BY <2>1 DEF Crashed, Passed
    <3>2. QueueInPlace(q) => QueueInPlace(q)'
      BY <2>1, <3>1 DEF QueueInPlace
    <3>3. CallbacksInPlace(q) => CallbacksInPlace(q)'
      BY <2>1, <3>1 DEF CallbacksInPlace
    <3>4. SocketInPlace(q)'
      <4>1. InPlace(Crashed(q)', toServer'[q], Passed(q)' + Len(callbacks'[q]))
        BY <2>1, <2>5, <3>1, InPlaceEmpty, Counts
      <4> QED  BY <2>1, <2>2, <2>5, <4>1 DEF SocketInPlace
    <3> QED  BY <2>3, <3>2, <3>3, <3>4 DEF InOrder
  <2> QED  BY <2>2, <2>4, <2>5
<1>4. CASE RunnerNotices(c)
  <2>1. UNCHANGED <<up, inFlight, toServer, phase, conn, callbacks, head, queue, aborted,
                    delivered, sent>>
    BY <1>4 DEF RunnerNotices, callerVars, replyVars
  <2>2. \/ task'[q] = task[q]
        \/ task[q] # "crashed" /\ task'[q] = "cancelled"
    BY <1>4 DEF RunnerNotices, Orphaned, Active
  <2>3. (IsOpen(q)' => IsOpen(q)) /\ (Listening(q)' => Listening(q))
    BY <2>1 DEF IsOpen, Listening
  <2> QED  BY <2>1, <2>2, <2>3, InOrderKept
<1> QED  BY <1>1, <1>2, <1>3, <1>4 DEF ConnStep

LEMMA RouteInOrder ==
    ASSUME TInv, NEW r \in Reqs, InOrder(r), RouteFrame(r) PROVE InOrder(r)'
<1> DEFINE b == Crashed(r)
           p == Passed(r)
           cb == callbacks[r]
           ts == toServer[r]
<1>1. /\ UNCHANGED <<up, inFlight, phase, conn, head, queue, aborted, delivered, task, sent>>
      /\ ts # <<>> /\ toServer'[r] = Tail(ts)
      /\ callbacks'[r] = IF IsOpen(r) THEN Append(cb, Head(ts)) ELSE cb
  BY DEF RouteFrame, TInv, TypeOK, runnerVars
<1>2. /\ IsOpen(r)' = IsOpen(r) /\ Listening(r)' = Listening(r)
      /\ Crashed(r)' = b /\ Passed(r)' = p /\ Emitted(r)' = Emitted(r)
  BY <1>1 DEF IsOpen, Listening, Crashed, Passed, Emitted
<1>3. QueueInPlace(r) => QueueInPlace(r)'
  BY <1>1, <1>2 DEF QueueInPlace
<1>4. CASE ~IsOpen(r)
  <2>1. CallbacksInPlace(r) => CallbacksInPlace(r)'
    BY <1>1, <1>2, <1>4 DEF CallbacksInPlace
  <2> QED  BY <1>2, <1>3, <1>4, <2>1 DEF InOrder, SocketInPlace
<1>5. CASE IsOpen(r) /\ Listening(r)
  <2>1. QueueInPlace(r) /\ InPlace(b, cb, p) /\ InPlace(b, ts, p + Len(cb))
    BY <1>5 DEF InOrder, CallbacksInPlace, SocketInPlace
  <2>2. /\ cb \in Seq({"head", "body", "end", "abort"})
        /\ ts \in Seq({"head", "body", "end"}) /\ Head(ts) \in {"head", "body", "end"}
    BY <1>1 DEF TInv, TypeOK
  <2>3. Fits(b, Head(ts), p + Len(cb) + 1) /\ InPlace(b, Tail(ts), p + Len(cb) + 1)
    <3> HIDE DEF b, p, cb, ts
    <3>1. p + Len(cb) \in Nat
      BY Counts DEF p, cb
    <3> QED  BY <1>1, <2>1, <2>2, <3>1, InPlaceTail
  <2>4. InPlace(b, Append(cb, Head(ts)), p)
    <3> HIDE DEF b, p, cb, ts
    <3>1. p \in Nat
      BY Counts DEF p
    <3> QED  BY <2>1, <2>2, <2>3, <3>1, InPlaceAppend
  <2>5. Len(Append(cb, Head(ts))) = Len(cb) + 1 /\ Len(Tail(ts)) = Len(ts) - 1
    BY <1>1, <2>2
  <2>6. CallbacksInPlace(r)'
    BY <1>1, <1>2, <1>5, <2>4 DEF CallbacksInPlace
  <2>7. InPlace(Crashed(r)', toServer'[r], Passed(r)' + Len(callbacks'[r]))
    <3>1. p + (Len(cb) + 1) = p + Len(cb) + 1
      BY Counts
    <3> QED  BY <1>1, <1>2, <1>5, <2>3, <2>5, <3>1
  <2>8. conn'[r] \in up' /\ task'[r] \notin {"crashed", "cancelled"} =>
           Emitted(r)' = Passed(r)' + Len(callbacks'[r]) + Len(toServer'[r])
    <3>1. conn[r] \in up /\ task[r] \notin {"crashed", "cancelled"} =>
             Emitted(r) = p + Len(cb) + Len(ts)
      BY <1>5 DEF InOrder, SocketInPlace
    <3>2. p + (Len(cb) + 1) + (Len(ts) - 1) = p + Len(cb) + Len(ts)
      <4>1. p \in Nat /\ Len(cb) \in Nat /\ Len(ts) \in Nat
        BY Counts
      <4> HIDE DEF p, cb, ts
      <4> QED  BY <4>1
    <3> QED  BY <1>1, <1>2, <1>5, <2>5, <3>1, <3>2
  <2> QED  BY <1>3, <2>1, <2>6, <2>7, <2>8 DEF InOrder, SocketInPlace
<1> QED  BY <1>2, <1>4, <1>5 DEF InOrder

\* The callback of a frame hands it on: the head to the future, a chunk or
\* the end to the queue.
LEMMA CallbackInOrder ==
    ASSUME TInv, NEW r \in Reqs, InOrder(r), RunCallback(r) PROVE InOrder(r)'
<1> DEFINE b == Crashed(r)
           p == Passed(r)
           cb == callbacks[r]
           kind == Head(cb)
           place == 1 + delivered[r]
<1>1. /\ UNCHANGED <<up, inFlight, toServer, phase, conn, delivered, task, sent>>
      /\ cb # <<>> /\ callbacks'[r] = Tail(cb)
      /\ kind = "abort" => r \in aborted'
      /\ r \in aborted => r \in aborted'
  BY DEF RunCallback, TInv, TypeOK, tunnelVars, runnerVars
<1>2. IsOpen(r)' = IsOpen(r) /\ Crashed(r)' = b /\ Emitted(r)' = Emitted(r)
  BY <1>1 DEF IsOpen, Crashed, Emitted
<1>3. CASE kind # "abort" /\ Listening(r)
  <2>1. QueueInPlace(r) /\ InPlace(b, cb, p) /\ SocketInPlace(r)
    BY <1>3 DEF InOrder, CallbacksInPlace
  <2>2. cb \in Seq({"head", "body", "end", "abort"}) /\ kind \in {"head", "body", "end"}
    BY <1>1, <1>3 DEF TInv, TypeOK
  <2>3. p \in Nat /\ place \in Nat /\ Len(cb) \in Nat \ {0} /\ Len(Tail(cb)) = Len(cb) - 1
    BY <1>1, <2>2, Counts
  <2>4. Fits(b, kind, p + 1) /\ InPlace(b, Tail(cb), p + 1)
    <3> HIDE DEF b, p, cb
    <3> QED  BY <1>1, <2>1, <2>2, <2>3, InPlaceTail
  <2>5. Passed(r)' = p + 1 /\ QueueInPlace(r)'
    <3>1. CASE kind = "head"
      <4>1. p = 0
        BY <2>3, <2>4, <3>1 DEF Fits
      <4>2. head[r] = "pending" /\ queue[r] = <<>> /\ delivered[r] = 0
        <5>1. Len(queue[r]) \in Nat /\ delivered[r] \in Nat
          BY DEF TInv, TypeOK
        <5>2. head[r] = "pending"
          BY <4>1, <5>1 DEF Passed
        <5> QED  BY <2>1, <5>2 DEF QueueInPlace
      <4>3. head'[r] = "set" /\ queue'[r] = <<>>
        BY <3>1, <4>2 DEF RunCallback, Sentinel, TInv, TypeOK
      <4>4. Passed(r)' = 1
        BY <1>1, <4>2, <4>3 DEF Passed
      <4>5. InPlace(b, queue'[r], place)
        BY <2>3, <4>3, InPlaceEmpty
      <4> QED  BY <1>1, <1>2, <4>1, <4>3, <4>4, <4>5 DEF QueueInPlace
    <3>2. CASE kind \in {"body", "end"}
      <4> DEFINE f == IF kind = "body" THEN "body" ELSE "None"
      <4>1. p # 0 /\ Fits(b, f, p + 1)
        BY <2>3, <2>4, <3>2 DEF Fits
      <4>2. head[r] # "pending" /\ p = 1 + delivered[r] + Len(queue[r])
        BY <4>1 DEF Passed
      <4>4. queue[r] \in Seq({"body", "None"}) /\ f \in {"body", "None"}
        BY DEF TInv, TypeOK
      <4>3. head'[r] # "pending" /\ queue'[r] = Append(queue[r], f)
        <5>1. head'[r] # "pending"
          BY <4>2 DEF RunCallback, TInv, TypeOK
        <5>2. (IF kind = "body" THEN <<"body">> ELSE Sentinel(kind)) = <<f>>
          BY <3>2 DEF Sentinel
        <5>3. queue'[r] = queue[r] \o <<f>>
          BY <5>2 DEF RunCallback, TInv, TypeOK
        <5>4. queue[r] \o <<f>> = Append(queue[r], f)
          BY <4>4
        <5> QED  BY <5>1, <5>3, <5>4
      <4>5. InPlace(b, Append(queue[r], f), place)
        <5>1. place + Len(queue[r]) + 1 = p + 1
          BY <4>2
        <5>2. InPlace(b, queue[r], place)
          BY <2>1 DEF QueueInPlace
        <5> HIDE DEF b, p, cb, kind, place, f
        <5> QED  BY <2>3, <4>1, <4>4, <5>1, <5>2, InPlaceAppend
      <4>6. Passed(r)' = p + 1
        <5>1. Len(queue'[r]) = Len(queue[r]) + 1
          BY <4>3, <4>4
        <5>2. Passed(r)' = 1 + delivered[r] + Len(queue'[r])
          BY <1>1, <4>3 DEF Passed
        <5>3. Len(queue[r]) \in Nat /\ delivered[r] \in Nat
          BY <4>4 DEF TInv, TypeOK
        <5> QED  BY <4>2, <5>1, <5>2, <5>3
      <4> QED  BY <1>1, <1>2, <4>3, <4>5, <4>6 DEF QueueInPlace
    <3> QED  BY <2>2, <3>1, <3>2
  <2>6. CallbacksInPlace(r)'
    BY <1>1, <1>2, <2>4, <2>5 DEF CallbacksInPlace
  <2>7. SocketInPlace(r)'
    <3>1. Passed(r)' + Len(callbacks'[r]) = p + Len(cb)
      <4>1. PICK m : m = Len(Tail(cb))
        OBVIOUS
      <4>2. Passed(r)' = p + 1 /\ Len(callbacks'[r]) = m
        BY <1>1, <2>5, <4>1
      <4>3. Len(cb) = m + 1 /\ m \in Nat /\ p \in Nat
        <5> HIDE DEF cb, p
        <5> QED  BY <2>3, <4>1
      <4> HIDE DEF cb, p
      <4> QED  BY <4>2, <4>3
    <3> QED  BY <1>1, <1>2, <2>1, <3>1 DEF SocketInPlace
  <2> QED  BY <2>5, <2>6, <2>7 DEF InOrder
<1>4. CASE kind = "abort" \/ ~Listening(r)
  BY <1>1, <1>4 DEF Listening, InOrder
<1> QED  BY <1>3, <1>4

\* The caller takes the next item of the queue.
LEMMA TakeInOrder ==
    ASSUME TInv, NEW r \in Reqs, InOrder(r), Take(r)
    PROVE  /\ InOrder(r)'
           /\ r \notin aborted => Fits(Crashed(r), Head(queue[r]), delivered[r] + 2)
<1> DEFINE b == Crashed(r)
           qu == queue[r]
           place == 1 + delivered[r]
<1>1. /\ UNCHANGED <<up, toServer, conn, callbacks, head, aborted, task, sent>>
      /\ qu # <<>> /\ queue'[r] = Tail(qu) /\ phase[r] \notin Over
  BY DEF Take, TInv, TypeOK, runnerVars, Over
<1>2. CASE r \in aborted
  BY <1>1, <1>2 DEF InOrder, Listening
<1>3. CASE r \notin aborted
  <2>1. QueueInPlace(r) /\ CallbacksInPlace(r) /\ SocketInPlace(r)
    BY <1>1, <1>3 DEF InOrder, Listening
  <2>2. /\ qu \in Seq({"body", "None"}) /\ place \in Nat /\ delivered[r] \in Nat
        /\ head[r] # "pending" /\ InPlace(b, qu, place)
    BY <1>1, <2>1 DEF QueueInPlace, TInv, TypeOK
  <2>3. Fits(b, Head(qu), place + 1) /\ InPlace(b, Tail(qu), place + 1)
    <3> HIDE DEF b, qu, place
    <3> QED  BY <1>1, <2>2, InPlaceTail
  <2>4. Fits(Crashed(r), Head(queue[r]), delivered[r] + 2)
    <3>1. place + 1 = delivered[r] + 2
      BY <2>2
    <3> QED  BY <2>3, <3>1
  <2>5. CASE Head(qu) = "None"
    <3>1. phase'[r] = "done"
      BY <1>3, <2>5 DEF Take, Goto, TInv, TypeOK
    <3> QED  BY <1>3, <2>4, <3>1 DEF InOrder, Listening, Over
  <2>6. CASE Head(qu) # "None"
    <3>1. /\ UNCHANGED inFlight /\ delivered'[r] = delivered[r] + 1
      BY <1>3, <2>6 DEF Take, TInv, TypeOK
    <3>2. IsOpen(r)' = IsOpen(r) /\ Crashed(r)' = b /\ Emitted(r)' = Emitted(r)
      BY <1>1, <3>1 DEF IsOpen, Crashed, Emitted
    <3>3. Passed(r)' = Passed(r)
      <4>1. Len(Tail(qu)) = Len(qu) - 1 /\ Len(qu) \in Nat
        BY <1>1, <2>2
      <4>2. Passed(r) = 1 + delivered[r] + Len(qu)
        BY <2>2 DEF Passed
      <4>3. Passed(r)' = 1 + (delivered[r] + 1) + (Len(qu) - 1)
        BY <1>1, <2>2, <3>1, <4>1 DEF Passed
      <4>4. \A i, k \in Nat : 1 + (i + 1) + (k - 1) = 1 + i + k
        OBVIOUS
      <4> HIDE DEF qu
      <4> QED  BY ONLY <2>2, <4>1, <4>2, <4>3, <4>4
    <3>4. QueueInPlace(r)'
      <4>1. 1 + delivered'[r] = place + 1
        BY <2>2, <3>1
      <4> QED  BY <1>1, <2>2, <2>3, <3>2, <4>1 DEF QueueInPlace
    <3>5. CallbacksInPlace(r)'
      BY <1>1, <2>1, <3>2, <3>3 DEF CallbacksInPlace
    <3>6. SocketInPlace(r)'
      BY <1>1, <2>1, <3>2, <3>3 DEF SocketInPlace
    <3> QED  BY <2>4, <3>4, <3>5, <3>6 DEF InOrder
  <2> QED  BY <2>5, <2>6
<1> QED  BY <1>2, <1>3

\* The app's frames are the next ones of the response.
LEMMA SentInOrder ==
    ASSUME TInv, NEW r \in Reqs, InOrder(r), NEW fs \in Seq({"head", "body", "end"}),
           UNCHANGED <<inFlight, up, phase, conn, callbacks, head, queue, aborted, delivered>>,
           conn[r] \in up, toServer'[r] = toServer[r] \o fs,
           task[r] \notin {"crashed", "cancelled"},
           InPlace(Crashed(r)', fs, Emitted(r)),
           task'[r] = "crashed" \/ Emitted(r)' = Emitted(r) + Len(fs), Emitted(r) \in Nat
    PROVE  InOrder(r)'
<1> DEFINE b == Crashed(r)'
           p == Passed(r)
           cb == callbacks[r]
           ts == toServer[r]
<1>1. /\ IsOpen(r)' = IsOpen(r) /\ Listening(r)' = Listening(r) /\ Passed(r)' = Passed(r)
      /\ Crashed(r) = FALSE /\ b \in BOOLEAN
  BY DEF IsOpen, Listening, Passed, Crashed
<1>2. /\ queue[r] \in Seq({"body", "None"})
      /\ cb \in Seq({"head", "body", "end", "abort"})
      /\ ts \in Seq({"head", "body", "end"})
  BY DEF TInv, TypeOK
<1>3. /\ p \in Nat /\ 1 + delivered[r] \in Nat /\ p + Len(cb) \in Nat
      /\ Len(cb) \in Nat /\ Len(ts) \in Nat /\ Len(fs) \in Nat
      /\ Len(ts \o fs) = Len(ts) + Len(fs)
  BY <1>2, Counts
<1>4. ASSUME NEW S, NEW s \in Seq(S), NEW n \in Nat, InPlace(FALSE, s, n) PROVE InPlace(b, s, n)
  <2>1. b = FALSE \/ b = TRUE
    BY <1>1
  <2>2. InPlace(TRUE, s, n)
    BY <1>4, InPlaceMore
  <2> HIDE DEF b
  <2> QED  BY <1>4, <2>1, <2>2
<1>5. CASE Listening(r)
  <2>1. QueueInPlace(r) /\ CallbacksInPlace(r) /\ SocketInPlace(r)
    BY <1>5 DEF InOrder
  <2>2. QueueInPlace(r)'
    <3>1. InPlace(b, queue[r], 1 + delivered[r])
      BY <1>1, <1>2, <1>3, <1>4, <2>1 DEF QueueInPlace
    <3> QED  BY <2>1, <3>1 DEF QueueInPlace
  <2>3. CallbacksInPlace(r)'
    <3>1. InPlace(b, cb, p)
      BY <1>1, <1>2, <1>3, <1>4, <2>1 DEF CallbacksInPlace
    <3> QED  BY <1>1, <3>1 DEF CallbacksInPlace
  <2>4. ASSUME IsOpen(r)
        PROVE  /\ InPlace(b, ts \o fs, p + Len(cb))
               /\ task'[r] = "crashed" \/ Emitted(r)' = p + Len(cb) + Len(ts \o fs)
    <3>1. InPlace(b, ts, p + Len(cb))
      BY <1>1, <1>2, <1>3, <1>4, <2>1, <2>4 DEF SocketInPlace
    <3>2. Emitted(r) = p + Len(cb) + Len(ts)
      BY <2>1, <2>4 DEF SocketInPlace
    <3>3. InPlace(b, fs, p + Len(cb) + Len(ts))
      BY <3>2
    <3> HIDE DEF b, p, cb, ts
    <3>4. InPlace(b, ts \o fs, p + Len(cb))
      BY <1>2, <1>3, <3>1, <3>3, InPlaceConcat
    <3>5. p + Len(cb) + Len(ts) + Len(fs) = p + Len(cb) + (Len(ts) + Len(fs))
      BY <1>3
    <3> QED  BY <1>3, <3>2, <3>4, <3>5
  <2>5. SocketInPlace(r)'
    BY <1>1, <2>4 DEF SocketInPlace
  <2> QED  BY <2>2, <2>3, <2>5 DEF InOrder
<1> QED  BY <1>1, <1>5 DEF InOrder

LEMMA AppInOrder ==
    ASSUME TInv, NEW r \in Reqs, Once(r), InOrder(r), AppStep(r) PROVE InOrder(r)'
<1> USE ConstantsAssumption
<1>1. /\ UNCHANGED <<inFlight, up, phase, conn, callbacks, head, queue, aborted, delivered>>
      /\ conn[r] \in up
  BY DEF AppStep, SendHead, SendChunk, SendEnd, AppCrashes, Sends, callerVars, replyVars
<1>2. sent[r] \in 0 .. Chunks
  BY DEF TInv, TypeOK
<1>3. CASE SendHead(r)
  <2>1. /\ task[r] = "running" /\ task'[r] = "streaming" /\ sent'[r] = sent[r] /\ sent[r] = 0
        /\ toServer'[r] = toServer[r] \o <<"head">>
    BY <1>3 DEF SendHead, Sends, Once, TInv, TypeOK
  <2>2. Emitted(r) = 0 /\ Emitted(r)' = Emitted(r) + 1 /\ Emitted(r) \in Nat
    BY <2>1 DEF Emitted
  <2>3. InPlace(Crashed(r)', <<"head">>, Emitted(r))
    <3>1. Fits(Crashed(r)', "head", Emitted(r) + 1)
      BY <2>2 DEF Fits
    <3> QED  BY <2>2, <3>1, FramesInPlace
  <2>4. <<"head">> \in Seq({"head", "body", "end"}) /\ Len(<<"head">>) = 1
    OBVIOUS
  <2> QED  BY <1>1, <2>1, <2>2, <2>3, <2>4, SentInOrder
<1>4. CASE SendChunk(r)
  <2>1. /\ task[r] = "streaming" /\ task'[r] = "streaming" /\ sent'[r] = sent[r] + 1
        /\ sent[r] < Chunks /\ toServer'[r] = toServer[r] \o <<"body">>
    BY <1>4 DEF SendChunk, Sends, TInv, TypeOK
  <2>2. Emitted(r) = sent[r] + 1 /\ Emitted(r)' = Emitted(r) + 1 /\ Emitted(r) \in Nat
    BY <1>2, <2>1 DEF Emitted
  <2>3. InPlace(Crashed(r)', <<"body">>, Emitted(r))
    <3>1. sent[r] + 1 + 1 \in 2 .. Chunks + 1
      <4>1. PICK n \in 0 .. Chunks : n = sent[r]
        BY <1>2
      <4>2. n < Chunks
        BY <2>1, <4>1
      <4>3. n + 1 + 1 \in 2 .. Chunks + 1
        BY <4>2
      <4> QED  BY <4>1, <4>3
    <3>2. Fits(Crashed(r)', "body", sent[r] + 1 + 1)
      BY <3>1 DEF Fits
    <3>3. Fits(Crashed(r)', "body", Emitted(r) + 1)
      BY <2>2, <3>2
    <3> QED  BY <2>2, <3>3, FramesInPlace
  <2>4. <<"body">> \in Seq({"head", "body", "end"}) /\ Len(<<"body">>) = 1
    OBVIOUS
  <2> QED  BY <1>1, <2>1, <2>2, <2>3, <2>4, SentInOrder
<1>5. CASE SendEnd(r)
  <2>1. /\ task[r] = "streaming" /\ task'[r] = "ended" /\ sent[r] = Chunks
        /\ toServer'[r] = toServer[r] \o <<"end">>
    BY <1>5 DEF SendEnd, Sends, TInv, TypeOK
  <2>2. Emitted(r) = Chunks + 1 /\ Emitted(r)' = Emitted(r) + 1 /\ Emitted(r) \in Nat
    BY <1>2, <2>1 DEF Emitted
  <2>3. InPlace(Crashed(r)', <<"end">>, Emitted(r))
    <3>1. Fits(Crashed(r)', "end", Emitted(r) + 1)
      BY <2>2 DEF Fits
    <3> QED  BY <2>2, <3>1, FramesInPlace
  <2>4. <<"end">> \in Seq({"head", "body", "end"}) /\ Len(<<"end">>) = 1
    OBVIOUS
  <2> QED  BY <1>1, <2>1, <2>2, <2>3, <2>4, SentInOrder
<1>6. CASE AppCrashes(r)
  <2> DEFINE fs == CrashFrames(task[r])
  <2>1. /\ task[r] \in {"running", "streaming", "ended"} /\ task'[r] = "crashed"
        /\ toServer'[r] = toServer[r] \o fs
    BY <1>6 DEF AppCrashes, Sends, TInv, TypeOK
  <2>2. Crashed(r)' = TRUE /\ Emitted(r) \in Nat
    BY <1>2, <2>1 DEF Crashed, Emitted
  <2>3. fs \in Seq({"head", "body", "end"}) /\ InPlace(TRUE, fs, Emitted(r))
    <3>1. CASE task[r] = "running"
      <4>1. fs = <<"head", "body", "end">> /\ Emitted(r) = 0
        BY <3>1 DEF CrashFrames, Emitted
      <4>2. InPlace(TRUE, <<"head", "body", "end">>, 0)
        <5>1. Fits(TRUE, "head", 0 + 1) /\ Fits(TRUE, "body", 0 + 2) /\ Fits(TRUE, "end", 0 + 3)
          BY DEF Fits
        <5> DEFINE s == <<"head", "body", "end">>
        <5>2. Len(s) = 3 /\ s[1] = "head" /\ s[2] = "body" /\ s[3] = "end"
          OBVIOUS
        <5>3. \A i \in 1 .. Len(s) : i = 1 \/ i = 2 \/ i = 3
          BY <5>2
        <5>4. InPlace(TRUE, s, 0)
          <6> HIDE DEF s
          <6> QED  BY <5>1, <5>2, <5>3 DEF InPlace
        <5> QED  BY <5>4
      <4>3. <<"head", "body", "end">> \in Seq({"head", "body", "end"})
        OBVIOUS
      <4> QED  BY <4>1, <4>2, <4>3
    <3>2. CASE task[r] # "running"
      <4>1. fs = <<"end">> /\ Emitted(r) + 1 > 1
        <5>1. fs = <<"end">>
          BY <3>2 DEF CrashFrames
        <5>2. Emitted(r) = sent[r] + 1 \/ Emitted(r) = Chunks + 2
          BY <2>1, <3>2 DEF Emitted
        <5> QED  BY <1>2, <5>1, <5>2
      <4>2. InPlace(TRUE, <<"end">>, Emitted(r))
        <5>1. Fits(TRUE, "end", Emitted(r) + 1)
          BY <4>1 DEF Fits
        <5> QED  BY <2>2, <5>1, FramesInPlace
      <4>3. <<"end">> \in Seq({"head", "body", "end"})
        OBVIOUS
      <4> QED  BY <4>1, <4>2, <4>3
    <3> QED  BY <3>1, <3>2
  <2> HIDE DEF fs
  <2> QED  BY <1>1, <2>1, <2>2, <2>3, SentInOrder
<1> QED  BY <1>3, <1>4, <1>5, <1>6 DEF AppStep

LEMMA OpenInOrder ==
    ASSUME TInv, NEW r \in Reqs, Fresh(r), Open(r) PROVE InOrder(r)'
<1> USE ConstantsAssumption
<1>1. /\ toServer[r] = <<>> /\ callbacks[r] = <<>> /\ head[r] = "pending" /\ queue[r] = <<>>
      /\ delivered[r] = 0 /\ task[r] = "none"
      /\ UNCHANGED <<toServer, callbacks, head, queue, delivered, task, sent>>
  BY DEF Open, Fresh, replyVars, runnerVars
<1>2. Passed(r)' = 0 /\ Emitted(r)' = 0 /\ Len(<<>>) = 0
  BY <1>1 DEF Passed, Emitted
<1>3. QueueInPlace(r)'
  <2>1. InPlace(Crashed(r)', <<>>, 1 + 0)
    BY InPlaceEmpty
  <2> QED  BY <1>1, <2>1 DEF QueueInPlace
<1>4. InPlace(Crashed(r)', <<>>, 0)
  BY InPlaceEmpty
<1>5. CallbacksInPlace(r)'
  BY <1>1, <1>2, <1>4 DEF CallbacksInPlace
<1>6. SocketInPlace(r)'
  <2>1. Passed(r)' + Len(callbacks'[r]) = 0 /\ Len(toServer'[r]) = 0
    BY <1>1, <1>2
  <2>2. InPlace(Crashed(r)', toServer'[r], Passed(r)' + Len(callbacks'[r]))
    BY <1>1, <1>4, <2>1
  <2>3. Emitted(r)' = Passed(r)' + Len(callbacks'[r]) + Len(toServer'[r])
    BY <1>2, <2>1
  <2> QED  BY <2>2, <2>3 DEF SocketInPlace
<1> QED  BY <1>3, <1>5, <1>6 DEF InOrder

LEMMA ClosedShut ==
    ASSUME TInv, NEW r \in Reqs, Closed(r), UNCHANGED conn PROVE IsOpen(r)' => IsOpen(r)
BY DEF TInv, TypeOK, Closed, IsOpen

LEMMA NextInOrder ==
    ASSUME TInv, OpenOn, [Next]_vars, NEW q \in Reqs, Fresh(q), Once(q), InOrder(q)
    PROVE  InOrder(q)'
<1>1. ASSUME NEW r \in Reqs, RequestStep(r) PROVE InOrder(q)'
  <2>1. CASE q # r
    BY <1>1, <2>1, OthersAlone, InOrderAlone
  <2>2. CASE q = r /\ (RouteFrame(r) \/ RunCallback(r) \/ Take(r) \/ AppStep(r) \/ Open(r))
    BY <2>2, RouteInOrder, CallbackInOrder, TakeInOrder, AppInOrder, OpenInOrder
  <2>3. ASSUME q = r, UNCHANGED <<up, toServer, conn, replyVars, delivered, runnerVars>>,
               phase[r] \notin Over \/ phase'[r] \in Over,
               UNCHANGED inFlight \/ Closed(r)
        PROVE  InOrder(q)'
    <3>1. IsOpen(r)' => IsOpen(r)
      <4>1. UNCHANGED conn
        BY <2>3
      <4>2. CASE UNCHANGED inFlight
        BY <4>1, <4>2 DEF IsOpen
      <4> QED  BY <2>3, <4>1, <4>2, ClosedShut
    <3>2. Listening(r)' => Listening(r)
      BY <2>3 DEF Listening, replyVars
    <3> QED  BY <2>3, <3>1, <3>2, InOrderKept DEF replyVars, runnerVars
  <2>4. CASE q = r /\ (HeadReady(r) \/ Refuse(r) \/ Iterate(r) \/ Cancel(r) \/ Leave(r)
                        \/ CancelLeaving(r))
    <3>1. UNCHANGED <<up, toServer, conn, replyVars, delivered, runnerVars>>
      BY <2>4 DEF HeadReady, Refuse, Iterate, Cancel, Leave, CancelLeaving, tunnelVars
    <3>2. phase[r] \notin Over
      BY <2>4 DEF HeadReady, Refuse, Iterate, Cancel, Leave, CancelLeaving, Over, Awaiting, Using
    <3>3. UNCHANGED inFlight \/ Closed(r)
      BY <2>4 DEF HeadReady, Refuse, Iterate, Cancel, Leave, CancelLeaving, Cancelled, tunnelVars
    <3> QED  BY <2>3, <2>4, <3>1, <3>2, <3>3
  <2>5. ASSUME q = r, NEW m \in posted, m.req = r, RunPosted(m) PROVE InOrder(q)'
    <3>1. UNCHANGED <<up, toServer, conn, replyVars, delivered, runnerVars>>
      BY <2>5 DEF RunPosted
    <3>2. phase[r] \notin Over \/ phase'[r] \in Over
      BY <2>5 DEF RunPosted, Over
    <3>3. UNCHANGED inFlight \/ Closed(r)
      BY <2>5 DEF RunPosted
    <3> QED  BY <2>3, <2>5, <3>1, <3>2, <3>3
  <2>6. CASE q = r /\ RunnerReads(r)
    <3>1. UNCHANGED <<up, inFlight, toServer, callerVars, sent>>
      BY <2>6 DEF RunnerReads
    <3>2. (IsOpen(r)' => IsOpen(r)) /\ (Listening(r)' => Listening(r))
      BY <3>1 DEF IsOpen, Listening, callerVars, replyVars
    <3>3. \/ task'[r] = task[r]
          \/ task[r] # "crashed" /\ task'[r] = "cancelled"
          \/ task[r] = "none" /\ task'[r] = "running"
      <4>1. CASE Head(toRunner[r]) = "request"
        <5>1. ~NoRequest(toRunner[r])
          BY <2>6, <4>1, TailRequests DEF RunnerReads, TInv, TypeOK
        <5>2. task[r] = "none"
          BY <2>6, <5>1 DEF Once
        <5> QED  BY <2>6, <4>1, <5>2 DEF RunnerReads, TInv, TypeOK
      <4>2. CASE Head(toRunner[r]) # "request"
        BY <2>6, <4>2 DEF RunnerReads, Active, TInv, TypeOK
      <4> QED  BY <4>1, <4>2
    <3> QED  BY <2>6, <3>1, <3>2, <3>3, InOrderKept DEF callerVars, replyVars
  <2> QED
    BY <1>1, <2>1, <2>2, <2>4, <2>5, <2>6 DEF RequestStep, ServerStep, CallerStep
<1>2. CASE UNCHANGED vars
  BY <1>2, InOrderAlone
     DEF vars, tunnelVars, callerVars, replyVars, runnerVars, Alone, CallerAlone, TunnelAlone
<1> QED  BY <1>1, <1>2, NextSteps, ConnInOrder

LEMMA InitInPlace == Init => RInv
<1> SUFFICES ASSUME Init PROVE RInv
  OBVIOUS
<1>1. TInv /\ OpenOn
  BY InitTyped DEF Init, OpenOn
<1>2. ASSUME NEW r \in Reqs PROVE Fresh(r) /\ Once(r) /\ InOrder(r)
  <2>1. Fresh(r)
    BY <1>2 DEF Init, Fresh
  <2>2. Once(r)
    BY <1>2 DEF Init, Once, NoRequest, OneRequest
  <2>3. InOrder(r)
    <3>1. queue[r] = <<>> /\ callbacks[r] = <<>> /\ delivered[r] = 0 /\ Passed(r) = 0 /\ ~IsOpen(r)
      BY <1>2 DEF Init, Passed, IsOpen
    <3>2. InPlace(Crashed(r), <<>>, 0) /\ InPlace(Crashed(r), <<>>, 1 + 0)
      BY InPlaceEmpty
    <3> QED  BY <3>1, <3>2 DEF InOrder, QueueInPlace, CallbacksInPlace, SocketInPlace
  <2> QED  BY <2>1, <2>2, <2>3
<1> QED  BY <1>1, <1>2 DEF RInv

LEMMA NextInPlace == RInv /\ [Next]_vars => RInv'
<1> SUFFICES ASSUME RInv, [Next]_vars PROVE RInv'
  OBVIOUS
<1>1. TInv' /\ OpenOn'
  BY NextTyped, NextOpenOn DEF RInv
<1>2. ASSUME NEW r \in Reqs PROVE Fresh(r)' /\ Once(r)' /\ InOrder(r)'
  BY <1>2, NextFresh, NextOnce, NextInOrder DEF RInv
<1> QED  BY <1>1, <1>2 DEF RInv

\* Every frame of a response in its place, at every hop between the app and
\* the caller: nothing is lost out of the middle of a response, doubled or
\* overtaken while its request is open.
THEOREM FramesInOrder == Spec => []RInv
BY InitInPlace, NextInPlace, PTL DEF Spec

-----------------------------------------------------------------------------
(* The refinement *)

\* What RequestStream sees of a request.
Seen(p) == CASE p \in {"sending", "head"} -> "asked"
             [] p \in Using \cup {"reading"} -> "open"
             [] p = "leaving" -> "left"
             [] OTHER -> p

SeenOf == [r \in Reqs |-> Seen(phase[r])]

CrashedReqs == {r \in Reqs : task[r] = "crashed"}

LEMMA GotoSeen ==
    ASSUME TInv, NEW r \in Reqs, NEW p, Goto(r, p)
    PROVE  SeenOf[r] = Seen(phase[r]) /\ SeenOf' = [SeenOf EXCEPT ![r] = Seen(p)]
<1>1. \A q \in Reqs : phase'[q] = IF q = r THEN p ELSE phase[q]
  BY DEF Goto, TInv, TypeOK
<1> HIDE DEF Seen
<1> QED  BY <1>1 DEF SeenOf

\* The steps of RequestStream in terms of the state of the tunnel.
LEMMA StreamMoves ==
    ASSUME NEW r \in Reqs,
           \/ /\ UNCHANGED <<delivered, CrashedReqs>>
              /\ \E to : /\ SeenOf' = [SeenOf EXCEPT ![r] = to]
                         /\ \/ SeenOf[r] = "idle" /\ to \in {"asked", "failed"}
                            \/ SeenOf[r] = "asked" /\ to \in {"open", "failed", "left"}
                            \/ SeenOf[r] = "open" /\ to \in {"failed", "left"}
                            \/ /\ SeenOf[r] = "open" /\ to = "done"
                               /\ delivered[r] = Chunks \/ r \in CrashedReqs
           \/ /\ SeenOf[r] = "open" /\ delivered[r] < Chunks
              /\ delivered' = [delivered EXCEPT ![r] = @ + 1]
              /\ UNCHANGED <<SeenOf, CrashedReqs>>
           \/ CrashedReqs' = CrashedReqs \cup {r} /\ UNCHANGED <<SeenOf, delivered>>
    PROVE  Stream!Next
BY DEF Stream!Next, Stream!Ask, Stream!Answer, Stream!Deliver, Stream!Finish, Stream!Fail,
       Stream!Leave, Stream!Break, Stream!Move, SeenOf, Seen, CrashedReqs

LEMMA StreamStutters ==
    ASSUME UNCHANGED <<SeenOf, delivered, CrashedReqs>> PROVE UNCHANGED Stream!vars
BY DEF Stream!vars, SeenOf, Seen, CrashedReqs

\* A caller whose phase changes, and nothing else RequestStream sees.
LEMMA GotoStreams ==
    ASSUME TInv, NEW r \in Reqs, NEW p, Goto(r, p), UNCHANGED <<delivered, task>>,
           \/ phase[r] = "idle" /\ p \in {"sending", "failed"}
           \/ phase[r] = "sending" /\ p \in {"head", "failed", "left"}
           \/ phase[r] = "head" /\ p \in {"answered", "failed", "left"}
           \/ phase[r] \in Using /\ p \in {"reading", "leaving", "left"}
           \/ phase[r] = "reading" /\ p \in {"using", "failed", "left"}
           \/ phase[r] = "reading" /\ p = "done" /\ (delivered[r] = Chunks \/ Crashed(r))
           \/ phase[r] = "leaving" /\ p = "left"
    PROVE  [Stream!Next]_(Stream!vars)
<1>1. /\ SeenOf[r] = Seen(phase[r]) /\ SeenOf' = [SeenOf EXCEPT ![r] = Seen(p)]
      /\ SeenOf = [SeenOf EXCEPT ![r] = Seen(phase[r])]
      /\ UNCHANGED CrashedReqs /\ (r \in CrashedReqs <=> Crashed(r))
  <2>1. SeenOf[r] = Seen(phase[r])
    BY DEF SeenOf
  <2>2. SeenOf = [SeenOf EXCEPT ![r] = SeenOf[r]]
    BY DEF SeenOf
  <2>3. UNCHANGED CrashedReqs /\ (r \in CrashedReqs <=> Crashed(r))
    BY DEF CrashedReqs, Crashed
  <2> QED  BY <2>1, <2>2, <2>3, GotoSeen
<1>2. CASE Seen(p) = Seen(phase[r])
  BY <1>1, <1>2, StreamStutters
<1>3. CASE Seen(p) # Seen(phase[r])
  <2>1. \/ Seen(phase[r]) = "idle" /\ Seen(p) \in {"asked", "failed"}
        \/ Seen(phase[r]) = "asked" /\ Seen(p) \in {"open", "failed", "left"}
        \/ Seen(phase[r]) = "open" /\ Seen(p) \in {"failed", "left"}
        \/ /\ Seen(phase[r]) = "open" /\ Seen(p) = "done"
           /\ delivered[r] = Chunks \/ Crashed(r)
    BY <1>3 DEF Seen, Using
  <2> HIDE DEF Seen
  <2> QED  BY <1>1, <2>1, StreamMoves
<1> QED  BY <1>2, <1>3

\* Every step of the tunnel is a step of RequestStream or nothing to it.
LEMMA StreamStep ==
    ASSUME RInv, [Next]_vars PROVE [Stream!Next]_(Stream!vars)
<1> USE DEF RInv
<1>1. ASSUME UNCHANGED <<phase, delivered, task>> PROVE UNCHANGED Stream!vars
  BY <1>1, StreamStutters DEF SeenOf, CrashedReqs
<1>2. ASSUME UNCHANGED <<phase, delivered>>, CrashedReqs' = CrashedReqs
      PROVE  UNCHANGED Stream!vars
  BY <1>2, StreamStutters DEF SeenOf
<1>3. ASSUME NEW c \in Conns, ConnStep(c) PROVE UNCHANGED Stream!vars
  <2>1. CASE Register(c) \/ Deregister(c) \/ LinkDown(c)
    BY <1>1, <2>1 DEF Register, Deregister, LinkDown, callerVars, runnerVars
  <2>2. CASE RunnerNotices(c)
    <3>1. CrashedReqs' = CrashedReqs
      BY <2>2 DEF RunnerNotices, Orphaned, Active, CrashedReqs
    <3> QED  BY <1>2, <2>2, <3>1 DEF RunnerNotices, callerVars
  <2> QED  BY <1>3, <2>1, <2>2 DEF ConnStep
<1>4. ASSUME NEW r \in Reqs, RequestStep(r) PROVE [Stream!Next]_(Stream!vars)
  <2>1. CASE RouteFrame(r) \/ RunCallback(r)
    BY <1>1, <2>1 DEF RouteFrame, RunCallback, runnerVars
  <2>2. ASSUME NEW m \in posted, m.req = r, RunPosted(m) PROVE [Stream!Next]_(Stream!vars)
    <3>1. UNCHANGED <<delivered, task>>
      BY <2>2 DEF RunPosted, runnerVars
    <3>2. CASE UNCHANGED phase
      BY <1>1, <3>1, <3>2
    <3>3. CASE phase[r] = "sending" /\ (Goto(r, "head") \/ Goto(r, "failed"))
      BY <3>1, <3>3, GotoStreams
    <3>4. CASE phase[r] = "leaving" /\ Goto(r, "left")
      BY <3>1, <3>4, GotoStreams
    <3> QED  BY <2>2, <3>2, <3>3, <3>4 DEF RunPosted
  <2>3. CASE HeadReady(r)
    BY <2>3, GotoStreams DEF HeadReady, runnerVars
  <2>4. CASE Take(r)
    <3>1. UNCHANGED task /\ phase[r] = "reading"
      BY <2>4 DEF Take, runnerVars
    <3>2. CASE Goto(r, "failed") /\ UNCHANGED delivered
      BY <3>1, <3>2, GotoStreams
    <3>3. CASE /\ r \notin aborted /\ Head(queue[r]) = "None"
               /\ Goto(r, "done") /\ UNCHANGED delivered
      <4>1. Fits(Crashed(r), "None", delivered[r] + 2)
        BY <2>4, <3>3, TakeInOrder
      <4>2. delivered[r] = Chunks \/ Crashed(r)
        BY <4>1, ConstantsAssumption DEF Fits, TInv, TypeOK
      <4> QED  BY <3>1, <3>3, <4>2, GotoStreams
    <3>4. CASE /\ r \notin aborted /\ Head(queue[r]) = "body"
               /\ Goto(r, "using") /\ delivered' = [delivered EXCEPT ![r] = @ + 1]
      <4>1. Fits(Crashed(r), "body", delivered[r] + 2)
        BY <2>4, <3>4, TakeInOrder
      <4>2. delivered[r] < Chunks
        BY <4>1, ConstantsAssumption DEF Fits, TInv, TypeOK
      <4>3. SeenOf' = SeenOf /\ SeenOf[r] = "open"
        <5>1. \A q \in Reqs : Seen(phase'[q]) = Seen(phase[q])
          BY <3>1, <3>4 DEF Goto, Seen, Using, TInv, TypeOK
        <5>2. Seen(phase[r]) = "open"
          BY <3>1 DEF Seen, Using
        <5> HIDE DEF Seen
        <5> QED  BY <5>1, <5>2 DEF SeenOf
      <4>4. UNCHANGED CrashedReqs
        BY <3>1 DEF CrashedReqs
      <4> QED  BY <3>4, <4>2, <4>3, <4>4, StreamMoves
    <3> QED  BY <2>4, <3>2, <3>3, <3>4 DEF Take
  <2>5. CASE RunnerReads(r)
    <3>1. CrashedReqs' = CrashedReqs
      <4>1. CASE Head(toRunner[r]) = "request"
        <5>1. ~NoRequest(toRunner[r])
          BY <2>5, <4>1, TailRequests DEF RunnerReads, TInv, TypeOK
        <5>2. task[r] = "none" /\ task' = [task EXCEPT ![r] = "running"]
          BY <2>5, <4>1, <5>1 DEF Once, RunnerReads
        <5> QED  BY <5>2 DEF CrashedReqs, TInv, TypeOK
      <4>2. CASE Head(toRunner[r]) # "request"
        <5>1. \/ task' = task
              \/ task[r] \in Active /\ task' = [task EXCEPT ![r] = "cancelled"]
          BY <2>5, <4>2 DEF RunnerReads
        <5> QED  BY <5>1 DEF CrashedReqs, Active, TInv, TypeOK
      <4> QED  BY <4>1, <4>2
    <3> QED  BY <1>2, <2>5, <3>1 DEF RunnerReads, callerVars
  <2>6. CASE AppStep(r)
    <3>1. UNCHANGED <<phase, delivered>>
      BY <2>6 DEF AppStep, SendHead, SendChunk, SendEnd, AppCrashes, Sends, callerVars
    <3>2. CASE SendHead(r) \/ SendChunk(r) \/ SendEnd(r)
      <4>1. CrashedReqs' = CrashedReqs
        BY <3>2 DEF SendHead, SendChunk, SendEnd, CrashedReqs, TInv, TypeOK
      <4> QED  BY <1>2, <3>1, <4>1
    <3>3. CASE AppCrashes(r)
      <4>1. CrashedReqs' = CrashedReqs \cup {r} /\ SeenOf' = SeenOf
        BY <3>1, <3>3 DEF AppCrashes, CrashedReqs, SeenOf, TInv, TypeOK
      <4> QED  BY <3>1, <4>1, StreamMoves
    <3> QED  BY <2>6, <3>2, <3>3 DEF AppStep
  <2>7. CASE Open(r) \/ Refuse(r) \/ Iterate(r)
    BY <2>7, GotoStreams DEF Open, Refuse, Iterate, runnerVars
  <2>8. CASE Cancel(r) \/ Leave(r) \/ CancelLeaving(r)
    <3>1. UNCHANGED <<delivered, task>>
      BY <2>8 DEF Cancel, Leave, CancelLeaving, runnerVars
    <3>2. CASE Cancel(r)
      BY <3>1, <3>2, GotoStreams DEF Cancel, Awaiting
    <3>3. CASE Leave(r) \/ CancelLeaving(r)
      BY <3>1, <3>3, GotoStreams DEF Leave, CancelLeaving
    <3> QED  BY <2>8, <3>2, <3>3
  <2> QED
    BY <1>4, <2>1, <2>2, <2>3, <2>4, <2>5, <2>6, <2>7, <2>8
       DEF RequestStep, ServerStep, CallerStep
<1>5. CASE UNCHANGED vars
  BY <1>1, <1>5 DEF vars, callerVars, runnerVars
<1> QED  BY <1>3, <1>4, <1>5, NextSteps

\* The tunnel implements RequestStream, for every number of connections,
\* requests and chunks, whatever is lost, replaced, cancelled or raised: what a
\* caller takes from WSTunnelTransport is the whole response in order, one its
\* app broke off, or an exception.
THEOREM ImplementsStream == Spec => StreamSpec
<1>1. Init => Stream!Init
  BY DEF Init, Stream!Init, Using
<1>2. RInv /\ [Next]_vars => [Stream!Next]_(Stream!vars)
  BY StreamStep
<1> QED  BY <1>1, <1>2, InitInPlace, NextInPlace, PTL DEF Spec, StreamSpec, Stream!Spec

-----------------------------------------------------------------------------
(* The loss of a connection *)

HasAbort(s) == \E i \in 1 .. Len(s) : s[i] = "abort"

\* The abort of a request is scheduled on its caller's loop.
AbortScheduled(r) == HasAbort(callbacks[r])

\* It has run: the head is there or failed, and the body queue will wake the
\* iterator, which looks at aborted_with first.
AbortTaken(r) == r \in aborted /\ head[r] # "pending" /\ queue[r] # <<>>

\* Only the registered connection has requests in flight.
OnCurrent == \A c \in Conns : inFlight[c] # {} => c = current

\* A caller that is not done with its response is told of an abort, or still
\* listed where the next abort will find it.
Told(r) == phase[r] \in Awaiting \cup Using => IsOpen(r) \/ AbortScheduled(r) \/ AbortTaken(r)

\* A caller that awaits an acknowledgement has a frame that will bring it.
Awaited(r) ==
    /\ phase[r] = "sending" => [req |-> r, kind |-> "request"] \in posted
    /\ phase[r] = "leaving" => [req |-> r, kind |-> "cancel"] \in posted

LossInv == RInv /\ OnCurrent /\ \A r \in Reqs : Told(r) /\ Awaited(r)

\* No caller waits in vain: one that waits for the acknowledgement of a frame
\* has that frame on the WebSocket loop, and one whose connection was replaced
\* or lost has an abort on its way or in its queue.
NobodyWaitsInVain ==
    \A r \in Reqs :
        /\ Awaited(r)
        /\ phase[r] \in Awaiting /\ conn[r] # current => AbortScheduled(r) \/ AbortTaken(r)

LEMMA AbortStays ==
    ASSUME NEW S, NEW s \in Seq(S), NEW f \in S
    PROVE  /\ HasAbort(s) => HasAbort(Append(s, f))
           /\ f = "abort" => HasAbort(Append(s, f))
           /\ HasAbort(s) => s # <<>> /\ (Head(s) = "abort" \/ HasAbort(Tail(s)))
<1>1. /\ Len(s) \in Nat /\ Len(Append(s, f)) = Len(s) + 1
      /\ \A i \in 1 .. Len(s) : i \in 1 .. Len(s) + 1 /\ Append(s, f)[i] = s[i]
      /\ Append(s, f)[Len(s) + 1] = f /\ Len(s) + 1 \in 1 .. Len(s) + 1
  OBVIOUS
<1>2. HasAbort(s) => HasAbort(Append(s, f))
  BY <1>1 DEF HasAbort
<1>3. f = "abort" => HasAbort(Append(s, f))
  BY <1>1 DEF HasAbort
<1>4. ASSUME NEW i \in 1 .. Len(s), s[i] = "abort"
      PROVE  s # <<>> /\ (Head(s) = "abort" \/ HasAbort(Tail(s)))
  <2>1. s # <<>> /\ Head(s) = s[1]
    BY <1>1, <1>4
  <2>2. CASE i = 1
    BY <1>4, <2>1, <2>2
  <2>3. CASE i # 1
    <3>1. i - 1 \in 1 .. Len(Tail(s)) /\ Tail(s)[i - 1] = s[i]
      BY <1>1, <2>1, <2>3
    <3> QED  BY <1>4, <2>1, <3>1 DEF HasAbort
  <2> QED  BY <2>2, <2>3
<1> QED  BY <1>2, <1>3, <1>4 DEF HasAbort

LEMMA NextOnCurrent ==
    ASSUME TInv, OnCurrent, [Next]_vars PROVE OnCurrent'
<1> USE ConstantsAssumption DEF TInv, TypeOK
<1>1. ASSUME current' = current, \A c \in Conns : inFlight'[c] \subseteq inFlight[c]
      PROVE  OnCurrent'
  BY <1>1 DEF OnCurrent
<1>2. ASSUME NEW c \in Conns, Register(c) \/ Deregister(c) PROVE OnCurrent'
  <2>1. \A d \in Conns : inFlight'[d] = {}
    <3>1. CASE current = NoConn
      BY <1>2, <3>1 DEF Register, Deregister, OnCurrent
    <3>2. CASE current # NoConn
      <4>1. inFlight' = [inFlight EXCEPT ![current] = {}]
        BY <1>2, <3>2 DEF Register, Deregister, Abort
      <4> QED  BY <3>2, <4>1 DEF OnCurrent
    <3> QED  BY <3>1, <3>2
  <2> QED  BY <2>1 DEF OnCurrent
<1>3. ASSUME NEW r \in Reqs, RequestStep(r), ~Open(r) PROVE OnCurrent'
  <2>1. current' = current /\ (UNCHANGED inFlight \/ Closed(r))
    BY <1>3 DEF RequestStep, ServerStep, CallerStep, AppStep, RouteFrame, RunPosted, RunCallback,
       HeadReady, Take, RunnerReads, SendHead, SendChunk, SendEnd, AppCrashes, Sends, Refuse,
       Iterate, Cancel, Cancelled, Leave, CancelLeaving, tunnelVars
  <2> QED  BY <1>1, <2>1, ClosedTyped
<1>4. ASSUME NEW r \in Reqs, Open(r) PROVE OnCurrent'
  BY <1>4 DEF Open, OnCurrent
<1>5. ASSUME NEW c \in Conns, LinkDown(c) \/ RunnerNotices(c) PROVE OnCurrent'
  BY <1>1, <1>5 DEF LinkDown, RunnerNotices
<1>6. CASE UNCHANGED vars
  BY <1>1, <1>6 DEF vars, tunnelVars
<1> QED  BY <1>2, <1>3, <1>4, <1>5, <1>6, NextSteps DEF ConnStep

\* A frame stays on the WebSocket loop until its own callback runs.
LEMMA PostedAlone ==
    ASSUME TInv, NEW r \in Reqs, NEW q \in Reqs \ {r}, RequestStep(r), NEW k,
           [req |-> q, kind |-> k] \in posted
    PROVE  [req |-> q, kind |-> k] \in posted'
<1>1. CASE \E m \in posted : m.req = r /\ RunPosted(m)
  <2>1. PICK m \in posted : m.req = r /\ RunPosted(m)
    BY <1>1
  <2>2. [req |-> q, kind |-> k].req # m.req
    BY <2>1
  <2>3. [req |-> q, kind |-> k] # m
    BY <2>2
  <2>4. posted' = posted \ {m}
    BY Zenon, <2>1 DEF RunPosted
  <2> QED  BY <2>3, <2>4
<1>2. CASE RouteFrame(r) \/ CallerStep(r) \/ RunnerReads(r) \/ Refuse(r) \/ Iterate(r)
           \/ Cancel(r) \/ CancelLeaving(r)
  BY <1>2 DEF RouteFrame, CallerStep, RunCallback, HeadReady, Take, RunnerReads, Refuse, Iterate,
     Cancel, CancelLeaving, tunnelVars
<1>3. CASE AppStep(r)
  BY <1>3 DEF AppStep, SendHead, SendChunk, SendEnd, AppCrashes, Sends
<1>4. CASE Open(r) \/ Leave(r)
  BY <1>4 DEF Open, Leave
<1> QED  BY <1>1, <1>2, <1>3, <1>4 DEF RequestStep, ServerStep

LEMMA OthersTold ==
    ASSUME TInv, NEW r \in Reqs, NEW q \in Reqs \ {r}, RequestStep(r), conn[q] \in Conns \cup {NoConn},
           Told(q), Awaited(q)
    PROVE  Told(q)' /\ Awaited(q)'
<1>1. Alone(q)
  BY OthersAlone
<1>2. Told(q)'
  BY <1>1 DEF Told, Alone, CallerAlone, TunnelAlone, IsOpen, AbortScheduled, AbortTaken
<1>3. Awaited(q)'
  BY <1>1, PostedAlone DEF Awaited, Alone, CallerAlone
<1> QED  BY <1>2, <1>3

\* An abort finds everyone who is listed.
LEMMA AbortTold ==
    ASSUME TInv, OpenOn, NEW c \in Conns, Abort(c), NEW q \in Reqs, Told(q),
           UNCHANGED <<phase, conn, head, queue, aborted>>
    PROVE  Told(q)'
<1> USE DEF TInv, TypeOK
<1>1. callbacks[q] \in Seq({"head", "body", "end", "abort"})
  OBVIOUS
<1>2. CASE q \in inFlight[c]
  <2>1. callbacks'[q] = Append(callbacks[q], "abort")
    BY <1>2 DEF Abort, AbortCallback
  <2>2. HasAbort(callbacks'[q])
    BY <1>1, <2>1, AbortStays
  <2> QED  BY <2>2 DEF Told, AbortScheduled
<1>3. CASE q \notin inFlight[c]
  <2>1. callbacks'[q] = callbacks[q] /\ \A d \in Conns : q \in inFlight[d] => q \in inFlight'[d]
    BY <1>3 DEF Abort
  <2> QED  BY <2>1 DEF Told, IsOpen, AbortScheduled, AbortTaken
<1> QED  BY <1>2, <1>3

LEMMA ConnTold ==
    ASSUME RInv, NEW c \in Conns, ConnStep(c), NEW q \in Reqs, Told(q), Awaited(q)
    PROVE  Told(q)' /\ Awaited(q)'
<1> USE ConstantsAssumption DEF RInv
<1>1. UNCHANGED <<phase, conn, head, queue, aborted, posted>>
  BY DEF ConnStep, Register, Deregister, LinkDown, RunnerNotices, callerVars, replyVars
<1>2. CASE Register(c) \/ Deregister(c)
  <2>1. Awaited(q)'
    BY <1>1 DEF Awaited
  <2>2. ASSUME current = NoConn PROVE Told(q)'
    <3>1. UNCHANGED <<callbacks, inFlight>>
      BY <1>2, <2>2 DEF Register, Deregister
    <3> QED  BY <1>1, <3>1 DEF Told, IsOpen, AbortScheduled, AbortTaken
  <2>3. ASSUME current # NoConn PROVE Told(q)'
    <3>1. current \in Conns
      BY <2>3 DEF TInv, TypeOK
    <3>2. Abort(current)
      BY <1>2, <2>3 DEF Register, Deregister
    <3> QED  BY <1>1, <3>1, <3>2, AbortTold
  <2> QED  BY <2>1, <2>2, <2>3
<1>3. CASE LinkDown(c) \/ RunnerNotices(c)
  BY <1>1, <1>3 DEF LinkDown, RunnerNotices, callerVars, replyVars, Told, Awaited, IsOpen,
     AbortScheduled, AbortTaken
<1> QED  BY <1>2, <1>3 DEF ConnStep

LEMMA CallbackTold ==
    ASSUME TInv, NEW r \in Reqs, RunCallback(r), Told(r) PROVE Told(r)'
<1> USE DEF TInv, TypeOK
<1>1. /\ UNCHANGED <<inFlight, phase, conn>>
      /\ callbacks[r] \in Seq({"head", "body", "end", "abort"}) /\ callbacks[r] # <<>>
      /\ callbacks'[r] = Tail(callbacks[r])
      /\ Head(callbacks[r]) \in {"head", "body", "end", "abort"}
  BY DEF RunCallback, tunnelVars
<1>2. /\ head[r] # "pending" => head'[r] # "pending"
      /\ Head(callbacks[r]) = "abort" => head'[r] # "pending"
  BY <1>1 DEF RunCallback
<1>3. /\ r \in aborted => r \in aborted'
      /\ Head(callbacks[r]) = "abort" => r \in aborted'
  BY <1>1 DEF RunCallback
<1>4. /\ queue[r] # <<>> => queue'[r] # <<>>
      /\ Head(callbacks[r]) = "abort" => queue'[r] # <<>>
  <2> DEFINE q == queue[r]
  <2>1. q \in Seq({"body", "None"})
    OBVIOUS
  <2>2. CASE Head(callbacks[r]) = "body"
    <3>1. queue'[r] = q \o <<"body">>
      BY <1>1, <2>2 DEF RunCallback
    <3>2. Len(q \o <<"body">>) = Len(q) + 1 /\ Len(q) \in Nat
      BY <2>1
    <3> QED  BY <2>2, <3>1, <3>2
  <2>3. CASE Head(callbacks[r]) \in {"end", "abort"}
    <3>1. queue'[r] = q \o <<"None">>
      BY <1>1, <2>3 DEF RunCallback, Sentinel
    <3>2. Len(q \o <<"None">>) = Len(q) + 1 /\ Len(q) \in Nat
      BY <2>1
    <3> QED  BY <3>1, <3>2
  <2>4. CASE Head(callbacks[r]) = "head"
    <3>1. queue'[r] = q \o <<>>
      BY <1>1, <2>4 DEF RunCallback, Sentinel
    <3>2. q \o <<>> = q
      BY <2>1
    <3> QED  BY <2>4, <3>1, <3>2
  <2> QED  BY <1>1, <2>2, <2>3, <2>4
<1>5. AbortTaken(r) => AbortTaken(r)'
  BY <1>2, <1>3, <1>4 DEF AbortTaken
<1>6. AbortScheduled(r) => AbortScheduled(r)' \/ AbortTaken(r)'
  BY <1>1, <1>2, <1>3, <1>4, AbortStays DEF AbortScheduled, AbortTaken
<1> QED  BY <1>1, <1>5, <1>6 DEF Told, IsOpen

LEMMA OwnTold ==
    ASSUME TInv, NEW r \in Reqs, RequestStep(r), Told(r), Awaited(r)
    PROVE  Told(r)' /\ Awaited(r)'
<1> USE ConstantsAssumption DEF TInv, TypeOK, Awaiting, Using
<1>1. ASSUME UNCHANGED <<phase, inFlight, conn, callbacks, head, queue, aborted>> PROVE Told(r)'
  BY <1>1 DEF Told, IsOpen, AbortScheduled, AbortTaken
<1>2. ASSUME UNCHANGED <<phase, posted>> PROVE Awaited(r)'
  BY <1>2 DEF Awaited
<1>3. ASSUME phase'[r] \in {"answered", "using", "reading", "failed", "done", "left", "head"}
      PROVE  Awaited(r)'
  BY <1>3 DEF Awaited
<1>4. ASSUME phase'[r] \in {"failed", "done", "left", "leaving"} PROVE Told(r)'
  BY <1>4 DEF Told
<1>5. ASSUME phase[r] \in Awaiting \cup Using,
             UNCHANGED <<inFlight, conn, callbacks, head, queue, aborted>>
      PROVE  Told(r)'
  BY <1>5 DEF Told, IsOpen, AbortScheduled, AbortTaken
<1>6. ASSUME NEW m \in posted, m.req = r, RunPosted(m) PROVE Told(r)' /\ Awaited(r)'
  <2>1. posted' = posted \ {m} /\ UNCHANGED <<conn, callbacks, head, queue, aborted>>
    BY Zenon, <1>6 DEF RunPosted, replyVars
  <2>2. CASE phase[r] # (IF m.kind = "request" THEN "sending" ELSE "leaving")
    <3>1. UNCHANGED <<phase, inFlight>>
      BY <1>6, <2>2 DEF RunPosted
    <3>2. phase[r] = "sending" => m # [req |-> r, kind |-> "request"]
      BY <2>2
    <3>3. phase[r] = "leaving" => m # [req |-> r, kind |-> "cancel"]
      BY <2>2
    <3>4. Awaited(r)'
      BY <2>1, <3>1, <3>2, <3>3 DEF Awaited
    <3> QED  BY <1>1, <2>1, <3>1, <3>4
  <2>3. CASE phase[r] = (IF m.kind = "request" THEN "sending" ELSE "leaving")
    <3>1. CASE m.kind = "request" /\ current = conn[r]
      <4>1. phase'[r] = "head" /\ UNCHANGED inFlight
        BY <1>6, <2>3, <3>1 DEF RunPosted, Goto
      <4> QED  BY <1>3, <1>5, <2>1, <2>3, <3>1, <4>1
    <3>2. CASE ~(m.kind = "request" /\ current = conn[r])
      <4>1. phase'[r] \in {"failed", "left"}
        BY <1>6, <2>3, <3>2 DEF RunPosted, Goto
      <4> QED  BY <1>3, <1>4, <4>1
    <3> QED  BY <3>1, <3>2
  <2> QED  BY <2>2, <2>3
<1>7. CASE RouteFrame(r)
  <2>1. UNCHANGED <<phase, inFlight, conn, head, queue, aborted, posted>>
    BY <1>7 DEF RouteFrame
  <2>2. PICK f \in {"head", "body", "end", "abort"} :
           callbacks'[r] \in {callbacks[r], Append(callbacks[r], f)}
    BY <1>7 DEF RouteFrame
  <2>3. AbortScheduled(r) => AbortScheduled(r)'
    <3>1. callbacks[r] \in Seq({"head", "body", "end", "abort"})
      OBVIOUS
    <3>2. HasAbort(callbacks[r]) => HasAbort(Append(callbacks[r], f))
      BY <3>1, AbortStays
    <3> QED  BY <2>2, <3>2 DEF AbortScheduled
  <2>4. Told(r)'
    BY <2>1, <2>3 DEF Told, IsOpen, AbortTaken
  <2> QED  BY <1>2, <2>1, <2>4
<1>8. CASE RunCallback(r)
  BY <1>2, <1>8, CallbackTold DEF RunCallback, tunnelVars
<1>9. CASE HeadReady(r)
  <2>1. CASE head[r] = "set"
    <3>1. phase'[r] = "answered" /\ phase[r] = "head"
          /\ UNCHANGED <<inFlight, conn, callbacks, head, queue, aborted>>
      BY <1>9, <2>1 DEF HeadReady, Goto, replyVars
    <3> QED  BY <1>3, <1>5, <3>1
  <2>2. CASE head[r] # "set"
    BY <1>3, <1>4, <1>9, <2>2 DEF HeadReady, Goto
  <2> QED  BY <2>1, <2>2
<1>10. CASE Take(r)
  <2>1. CASE Goto(r, "failed") \/ Goto(r, "done")
    BY <1>3, <1>4, <2>1 DEF Goto
  <2>2. CASE r \notin aborted /\ Goto(r, "using") /\ UNCHANGED inFlight
    <3>1. phase'[r] = "using" /\ phase[r] = "reading" /\ UNCHANGED <<inFlight, conn, callbacks>>
      BY <1>10, <2>2 DEF Take, Goto
    <3>2. Told(r)'
      BY <2>2, <3>1 DEF Told, IsOpen, AbortScheduled, AbortTaken
    <3> QED  BY <1>3, <3>1, <3>2
  <2> QED  BY <1>10, <2>1, <2>2 DEF Take
<1>11. CASE RunnerReads(r)
  BY <1>1, <1>2, <1>11 DEF RunnerReads, callerVars, replyVars
<1>12. CASE AppStep(r)
  BY <1>1, <1>2, <1>12
     DEF AppStep, SendHead, SendChunk, SendEnd, AppCrashes, Sends, callerVars, replyVars
<1>13. CASE Open(r)
  <2>1. /\ current \in Conns /\ phase'[r] = "sending" /\ conn'[r] = current
        /\ r \in inFlight'[current] /\ [req |-> r, kind |-> "request"] \in posted'
    BY <1>13 DEF Open, Goto
  <2> QED  BY <2>1 DEF Told, Awaited, IsOpen
<1>14. CASE Refuse(r) \/ Cancel(r) \/ CancelLeaving(r)
  BY <1>3, <1>4, <1>14 DEF Refuse, Cancel, CancelLeaving, Goto
<1>15. CASE Iterate(r)
  <2>1. phase'[r] = "reading" /\ phase[r] \in Using
        /\ UNCHANGED <<inFlight, conn, callbacks, head, queue, aborted>>
    BY <1>15 DEF Iterate, Goto, tunnelVars, replyVars
  <2> QED  BY <1>3, <1>5, <2>1
<1>16. CASE Leave(r)
  <2>1. CASE Goto(r, "left")
    BY <1>3, <1>4, <2>1 DEF Goto
  <2>2. CASE Goto(r, "leaving") /\ posted' = posted \cup {[req |-> r, kind |-> "cancel"]}
    <3>1. phase'[r] = "leaving"
      BY <2>2 DEF Goto
    <3> QED  BY <1>4, <2>2, <3>1 DEF Awaited
  <2> QED  BY <1>16, <2>1, <2>2 DEF Leave
<1> QED
  BY <1>6, <1>7, <1>8, <1>9, <1>10, <1>11, <1>12, <1>13, <1>14, <1>15, <1>16
     DEF RequestStep, ServerStep, CallerStep

LEMMA NextTold == LossInv /\ [Next]_vars => LossInv'
<1> SUFFICES ASSUME LossInv, [Next]_vars PROVE LossInv'
  OBVIOUS
<1>1. RInv' /\ OnCurrent'
  BY NextInPlace, NextOnCurrent DEF LossInv, RInv
<1>2. ASSUME NEW q \in Reqs PROVE Told(q)' /\ Awaited(q)'
  <2>1. Told(q) /\ Awaited(q) /\ TInv /\ RInv
    BY DEF LossInv, RInv
  <2>2. ASSUME NEW r \in Reqs, RequestStep(r) PROVE Told(q)' /\ Awaited(q)'
    <3>1. conn[q] \in Conns \cup {NoConn}
      BY <2>1 DEF TInv, TypeOK
    <3>2. CASE q = r
      BY <2>1, <2>2, <3>2, OwnTold
    <3>3. CASE q # r
      BY <2>1, <2>2, <3>1, <3>3, OthersTold
    <3> QED  BY <3>2, <3>3
  <2>3. CASE UNCHANGED vars
    BY <2>1, <2>3 DEF vars, tunnelVars, callerVars, replyVars, Told, Awaited, IsOpen,
       AbortScheduled, AbortTaken
  <2> QED  BY <2>1, <2>2, <2>3, ConnTold, NextSteps
<1> QED  BY <1>1, <1>2 DEF LossInv

LEMMA LossInit == Init => LossInv
<1>1. Init => OnCurrent
  BY DEF Init, OnCurrent
<1>2. Init => \A r \in Reqs : Told(r) /\ Awaited(r)
  BY DEF Init, Told, Awaited, Awaiting, Using
<1> QED  BY <1>1, <1>2, InitInPlace DEF LossInv

\* A caller whose tunnel is replaced or lost is told: either it is still in the
\* in-flight map of the registered connection, or the abort is scheduled on its
\* loop or wakes it from the head future and the body queue.  A frame whose
\* acknowledgement it awaits is on the WebSocket loop.  It is what the liveness
\* of transport.py's requests rests on, wherever a cancellation lands.
THEOREM LossReachesCaller == Spec => []NobodyWaitsInVain
<1>2. LossInv => NobodyWaitsInVain
  <2> SUFFICES ASSUME LossInv, NEW r \in Reqs
               PROVE  /\ Awaited(r)
                      /\ phase[r] \in Awaiting /\ conn[r] # current =>
                            AbortScheduled(r) \/ AbortTaken(r)
    BY DEF NobodyWaitsInVain
  <2>1. IsOpen(r) => conn[r] = current
    BY DEF LossInv, RInv, TInv, TypeOK, IsOpen, OnCurrent
  <2> QED  BY <2>1 DEF LossInv, Told
<1> QED  BY <1>2, LossInit, NextTold, PTL DEF Spec
-----------------------------------------------------------------------------
(* The end of a response *)

HasEnd(s) == \E i \in 1 .. Len(s) : s[i] \in {"end", "abort", "None"}

\* The end of a response, or of its connection, has yet to reach its caller.
EndAhead(r) ==
    \/ conn[r] \notin up
    \/ IsOpen(r) /\ HasEnd(toServer[r])
    \/ HasEnd(callbacks[r])
    \/ HasEnd(queue[r]) \/ AbortTaken(r)

Unanswered(r) == phase[r] \in Awaiting \cup Using /\ task[r] \in {"ended", "crashed"}

\* A caller whose app has ended the response has that end ahead of it, in the
\* socket, on its loop or in its queue; or an abort, or the loss of the socket.
EndOnItsWay == \A r \in Reqs : Unanswered(r) => EndAhead(r)

LEMMA EndsConcat ==
    ASSUME NEW S, NEW s \in Seq(S), NEW t \in Seq(S), HasEnd(s) \/ HasEnd(t)
    PROVE  HasEnd(s \o t)
<1>1. /\ Len(s) \in Nat /\ Len(t) \in Nat /\ Len(s \o t) = Len(s) + Len(t)
      /\ \A i \in 1 .. Len(s) : i \in 1 .. Len(s) + Len(t) /\ (s \o t)[i] = s[i]
      /\ \A i \in 1 .. Len(t) :
            Len(s) + i \in 1 .. Len(s) + Len(t) /\ (s \o t)[Len(s) + i] = t[i]
  OBVIOUS
<1>2. CASE HasEnd(s)
  BY <1>1, <1>2 DEF HasEnd
<1>3. CASE HasEnd(t)
  BY <1>1, <1>3 DEF HasEnd
<1> QED  BY <1>2, <1>3

LEMMA EndsAppend ==
    ASSUME NEW S, NEW s \in Seq(S), NEW f \in S, HasEnd(s) \/ f \in {"end", "abort", "None"}
    PROVE  HasEnd(Append(s, f))
<1>1. /\ Len(s) \in Nat /\ Len(Append(s, f)) = Len(s) + 1
      /\ \A i \in 1 .. Len(s) : i \in 1 .. Len(s) + 1 /\ Append(s, f)[i] = s[i]
      /\ Append(s, f)[Len(s) + 1] = f /\ Len(s) + 1 \in 1 .. Len(s) + 1
  OBVIOUS
<1> QED  BY <1>1 DEF HasEnd

LEMMA EndsTail ==
    ASSUME NEW S, NEW s \in Seq(S), HasEnd(s)
    PROVE  s # <<>> /\ (Head(s) \in {"end", "abort", "None"} \/ HasEnd(Tail(s)))
<1>1. PICK i \in 1 .. Len(s) : s[i] \in {"end", "abort", "None"}
  BY DEF HasEnd
<1>2. s # <<>> /\ Head(s) = s[1] /\ Len(s) \in Nat
  BY <1>1
<1>3. CASE i = 1
  BY <1>1, <1>2, <1>3
<1>4. CASE i # 1
  <2>1. i - 1 \in 1 .. Len(Tail(s)) /\ Tail(s)[i - 1] = s[i]
    BY <1>1, <1>2, <1>4
  <2> QED  BY <1>1, <1>2, <2>1 DEF HasEnd
<1> QED  BY <1>3, <1>4

\* An abort of the connection, or its loss, ends what was on its way.
LEMMA ConnEnds ==
    ASSUME LossInv, EndOnItsWay, NEW c \in Conns, ConnStep(c), NEW q \in Reqs, Unanswered(q)'
    PROVE  EndAhead(q)'
<1> USE ConstantsAssumption DEF LossInv, RInv, TInv, TypeOK
<1>1. UNCHANGED <<phase, conn, head, queue, aborted>>
  BY DEF ConnStep, Register, Deregister, LinkDown, RunnerNotices, callerVars, replyVars
<1>2. CASE Register(c) \/ Deregister(c)
  <2>1. UNCHANGED <<task, toServer>> /\ (conn[q] \notin up => conn'[q] \notin up')
    BY <1>1, <1>2 DEF Register, Deregister, runnerVars
  <2>2. EndAhead(q)
    BY <1>1, <2>1 DEF EndOnItsWay, Unanswered
  <2>3. CASE current = NoConn
    <3>1. UNCHANGED <<callbacks, inFlight>>
      BY <1>2, <2>3 DEF Register, Deregister
    <3> QED  BY <1>1, <2>1, <2>2, <3>1 DEF EndAhead, IsOpen, AbortTaken
  <2>4. CASE current # NoConn
    <3>1. callbacks'[q] = IF q \in inFlight[current] THEN Append(callbacks[q], "abort")
                                                     ELSE callbacks[q]
      BY <1>2, <2>4 DEF Register, Deregister, Abort, AbortCallback
    <3>2. callbacks[q] \in Seq({"head", "body", "end", "abort"})
      OBVIOUS
    <3>3. HasEnd(Append(callbacks[q], "abort"))
      BY <3>2, EndsAppend
    <3>4. IsOpen(q) => q \in inFlight[current]
      BY DEF IsOpen, OnCurrent
    <3> QED  BY <1>1, <2>1, <2>2, <3>1, <3>3, <3>4 DEF EndAhead, AbortTaken
  <2> QED  BY <2>3, <2>4
<1>3. CASE LinkDown(c)
  <2>1. UNCHANGED <<task, callbacks, inFlight>> /\ up' = up \ {c}
        /\ (conn[q] # c => toServer'[q] = toServer[q])
    BY <1>3 DEF LinkDown, callerVars, replyVars, runnerVars
  <2>2. EndAhead(q)
    BY <1>1, <2>1 DEF EndOnItsWay, Unanswered
  <2> QED  BY <1>1, <2>1, <2>2 DEF EndAhead, IsOpen, AbortTaken
<1>4. CASE RunnerNotices(c)
  <2>1. /\ UNCHANGED <<callbacks, inFlight, up, toServer>>
        /\ task'[q] \in {"ended", "crashed"} => task'[q] = task[q]
    BY <1>4 DEF RunnerNotices, callerVars, replyVars
  <2>2. EndAhead(q)
    BY <1>1, <2>1 DEF EndOnItsWay, Unanswered
  <2> QED  BY <1>1, <2>1, <2>2 DEF EndAhead, IsOpen, AbortTaken
<1> QED  BY <1>2, <1>3, <1>4 DEF ConnStep

LEMMA RouteEnds ==
    ASSUME TInv, NEW r \in Reqs, RouteFrame(r), EndAhead(r) PROVE EndAhead(r)'
<1> USE DEF TInv, TypeOK
<1>1. /\ UNCHANGED <<up, inFlight, conn, head, queue, aborted>> /\ toServer[r] # <<>>
      /\ toServer'[r] = Tail(toServer[r])
      /\ callbacks'[r] = IF IsOpen(r) THEN Append(callbacks[r], Head(toServer[r])) ELSE callbacks[r]
  BY DEF RouteFrame
<1>2. /\ toServer[r] \in Seq({"head", "body", "end", "abort"})
      /\ callbacks[r] \in Seq({"head", "body", "end", "abort"})
      /\ Head(toServer[r]) \in {"head", "body", "end", "abort"}
  BY <1>1
<1>3. HasEnd(callbacks[r]) => HasEnd(callbacks'[r])
  BY <1>1, <1>2, EndsAppend
<1>4. IsOpen(r) /\ HasEnd(toServer[r]) => HasEnd(toServer'[r]) \/ HasEnd(callbacks'[r])
  BY <1>1, <1>2, EndsTail, EndsAppend
<1> QED  BY <1>1, <1>3, <1>4 DEF EndAhead, IsOpen, AbortTaken

LEMMA CallbackEnds ==
    ASSUME TInv, NEW r \in Reqs, RunCallback(r), EndAhead(r) PROVE EndAhead(r)'
<1> USE DEF TInv, TypeOK
<1> DEFINE k == Head(callbacks[r])
           new == IF k = "body" THEN <<"body">> ELSE Sentinel(k)
<1>1. /\ UNCHANGED <<up, inFlight, conn, toServer>> /\ callbacks[r] # <<>>
      /\ callbacks[r] \in Seq({"head", "body", "end", "abort"})
      /\ k \in {"head", "body", "end", "abort"}
      /\ callbacks'[r] = Tail(callbacks[r]) /\ queue'[r] = queue[r] \o new
  BY DEF RunCallback, tunnelVars
<1>2. queue[r] \in Seq({"body", "None"}) /\ new \in Seq({"body", "None"})
  <2>1. /\ <<"body">> \in Seq({"body", "None"}) /\ <<"None">> \in Seq({"body", "None"})
        /\ <<>> \in Seq({"body", "None"})
    OBVIOUS
  <2>2. new \in {<<"body">>, <<"None">>, <<>>}
    BY DEF Sentinel
  <2> QED  BY <2>1, <2>2
<1>3. k \in {"end", "abort"} => HasEnd(new)
  BY DEF Sentinel, HasEnd
<1>4. HasEnd(queue[r]) \/ k \in {"end", "abort"} => HasEnd(queue'[r])
  BY <1>1, <1>2, <1>3, EndsConcat
<1>5. HasEnd(callbacks[r]) => HasEnd(callbacks'[r]) \/ k \in {"end", "abort"}
  BY <1>1, EndsTail
<1>6. AbortTaken(r) => AbortTaken(r)'
  <2>1. /\ r \in aborted => r \in aborted'
        /\ head[r] # "pending" => head'[r] # "pending"
    BY DEF RunCallback
  <2>2. queue[r] # <<>> => queue'[r] # <<>>
    <3>1. Len(queue'[r]) = Len(queue[r]) + Len(new) /\ Len(queue[r]) \in Nat /\ Len(new) \in Nat
      BY <1>1, <1>2
    <3>2. queue[r] # <<>> => Len(queue[r]) # 0
      BY <1>2
    <3>3. queue'[r] = <<>> => Len(queue'[r]) = 0
      OBVIOUS
    <3> QED  BY <3>1, <3>2, <3>3
  <2> QED  BY <2>1, <2>2 DEF AbortTaken
<1> QED  BY <1>1, <1>4, <1>5, <1>6 DEF EndAhead, IsOpen

LEMMA OwnEnds ==
    ASSUME LossInv, EndOnItsWay, NEW r \in Reqs, RequestStep(r), Unanswered(r)'
    PROVE  EndAhead(r)'
<1> USE ConstantsAssumption DEF LossInv, RInv, TInv, TypeOK, Awaiting, Using
<1>1. ASSUME Unanswered(r), UNCHANGED <<up, inFlight, conn, toServer, callbacks, head, queue, aborted>>
      PROVE  EndAhead(r)'
  BY <1>1 DEF EndOnItsWay, EndAhead, IsOpen, AbortTaken
<1>2. CASE phase'[r] \in {"failed", "done", "left", "leaving"}
  BY <1>2 DEF Unanswered
<1>3. ASSUME NEW m \in posted, m.req = r, RunPosted(m) PROVE EndAhead(r)'
  <2>1. UNCHANGED <<up, conn, toServer, callbacks, head, queue, aborted, task>>
    BY <1>3 DEF RunPosted, replyVars, runnerVars
  <2>2. \/ UNCHANGED <<phase, inFlight>>
        \/ phase[r] = "sending" /\ phase'[r] = "head" /\ UNCHANGED inFlight
        \/ phase'[r] \in {"failed", "left"}
    BY <1>3 DEF RunPosted, Goto
  <2> QED  BY <1>1, <1>2, <2>1, <2>2 DEF Unanswered
<1>4. CASE RouteFrame(r)
  BY <1>4, RouteEnds DEF RouteFrame, runnerVars, Unanswered, EndOnItsWay
<1>5. CASE RunCallback(r)
  BY <1>5, CallbackEnds DEF RunCallback, runnerVars, Unanswered, EndOnItsWay
<1>6. CASE HeadReady(r) \/ Iterate(r)
  <2>1. \/ phase'[r] = "failed"
        \/ /\ phase[r] \in {"head", "answered", "using"} /\ task' = task
           /\ UNCHANGED <<up, inFlight, conn, toServer, callbacks, head, queue, aborted>>
    BY <1>6 DEF HeadReady, Iterate, Goto, replyVars, tunnelVars, runnerVars
  <2> QED  BY <1>1, <1>2, <2>1 DEF Unanswered
<1>7. CASE Take(r)
  <2>1. CASE Goto(r, "failed") \/ Goto(r, "done")
    BY <1>2, <2>1 DEF Goto
  <2>2. CASE r \notin aborted /\ Head(queue[r]) = "body" /\ UNCHANGED inFlight
    <3>1. /\ phase[r] = "reading" /\ queue'[r] = Tail(queue[r])
          /\ UNCHANGED <<up, conn, toServer, callbacks, head, aborted, task>>
      BY <1>7 DEF Take, runnerVars
    <3>2. HasEnd(queue[r]) => HasEnd(queue'[r])
      <4>1. queue[r] \in Seq({"body", "None"})
        OBVIOUS
      <4>2. HasEnd(queue[r]) => Head(queue[r]) \in {"end", "abort", "None"} \/ HasEnd(Tail(queue[r]))
        BY <4>1, EndsTail
      <4> QED  BY <2>2, <3>1, <4>2
    <3> QED  BY <2>2, <3>1, <3>2 DEF EndOnItsWay, Unanswered, EndAhead, IsOpen, AbortTaken
  <2> QED  BY <1>7, <2>1, <2>2 DEF Take
<1>8. CASE RunnerReads(r)
  <2>1. /\ UNCHANGED <<up, inFlight, conn, toServer, callbacks, head, queue, aborted, phase>>
        /\ task'[r] \in {"ended", "crashed"} => task'[r] = task[r]
    BY <1>8 DEF RunnerReads, callerVars, replyVars
  <2> QED  BY <1>1, <2>1 DEF Unanswered
<1>9. CASE SendHead(r) \/ SendChunk(r)
  BY <1>9 DEF SendHead, SendChunk, Unanswered
<1>10. CASE SendEnd(r) \/ AppCrashes(r)
  <2>1. PICK frames \in {<<"end">>, <<"head", "body", "end">>} : Sends(r, frames)
    BY <1>10 DEF SendEnd, AppCrashes, CrashFrames
  <2>2. HasEnd(<<"end">>) /\ HasEnd(<<"head", "body", "end">>)
    <3>1. 1 \in 1 .. Len(<<"end">>) /\ 3 \in 1 .. Len(<<"head", "body", "end">>)
      OBVIOUS
    <3> QED  BY <3>1 DEF HasEnd
  <2>3. HasEnd(toServer'[r])
    <3>1. /\ <<"end">> \in Seq({"head", "body", "end"})
          /\ <<"head", "body", "end">> \in Seq({"head", "body", "end"})
      OBVIOUS
    <3>2. toServer[r] \in Seq({"head", "body", "end"}) /\ toServer'[r] = toServer[r] \o frames
      BY <2>1 DEF Sends
    <3>3. frames \in Seq({"head", "body", "end"}) /\ HasEnd(frames)
      BY <2>1, <2>2, <3>1
    <3>4. HasEnd(toServer[r] \o frames)
      BY <3>2, <3>3, EndsConcat
    <3> QED  BY <3>2, <3>4
  <2>4. UNCHANGED <<inFlight, phase, conn, callbacks, head, queue, aborted>>
    BY <2>1 DEF Sends, callerVars, replyVars
  <2>5. IsOpen(r) \/ AbortScheduled(r) \/ AbortTaken(r)
    BY <2>4 DEF Told, Unanswered
  <2> QED  BY <2>3, <2>4, <2>5 DEF EndAhead, IsOpen, AbortScheduled, HasAbort, HasEnd, AbortTaken
<1>11. CASE Open(r)
  <2>1. task'[r] = "none"
    BY <1>11 DEF Open, Fresh, runnerVars
  <2> QED  BY <2>1 DEF Unanswered
<1>12. CASE Refuse(r) \/ Cancel(r) \/ Leave(r) \/ CancelLeaving(r)
  <2>1. phase'[r] \in {"failed", "left", "leaving"}
    BY <1>12 DEF Refuse, Cancel, Leave, CancelLeaving, Goto
  <2> QED  BY <1>2, <2>1
<1> QED
  BY <1>3, <1>4, <1>5, <1>6, <1>7, <1>8, <1>9, <1>10, <1>11, <1>12
     DEF RequestStep, ServerStep, CallerStep, AppStep

LEMMA NextEnds == LossInv /\ EndOnItsWay /\ [Next]_vars => EndOnItsWay'
<1> SUFFICES ASSUME LossInv, EndOnItsWay, [Next]_vars, NEW q \in Reqs, Unanswered(q)'
             PROVE  EndAhead(q)'
  BY DEF EndOnItsWay
<1>1. ASSUME NEW r \in Reqs, RequestStep(r), q # r PROVE EndAhead(q)'
  <2>1. Alone(q) /\ UNCHANGED up
    BY <1>1, OthersAlone DEF LossInv, RInv
  <2>2. conn[q] \in Conns \cup {NoConn}
    BY DEF LossInv, RInv, TInv, TypeOK
  <2> QED  BY <2>1, <2>2 DEF EndOnItsWay, Unanswered, EndAhead, IsOpen, AbortTaken,
              Alone, CallerAlone, TunnelAlone
<1>2. CASE UNCHANGED vars
  BY <1>2 DEF vars, tunnelVars, callerVars, replyVars, runnerVars, EndOnItsWay, Unanswered, EndAhead,
     IsOpen, AbortTaken
<1> QED  BY <1>1, <1>2, ConnEnds, OwnEnds, NextSteps

\* What the dispatch of an app sends last reaches the caller that still waits for
\* it, unless the connection is lost, which LossReachesCaller is about: routing,
\* callbacks and queue drop nothing of a request that is in use, and a request is
\* closed in the registry only when its caller is done with it.  It is what
\* ServedRequestEnds asks, but for the fairness that makes the loops run.
THEOREM EndReachesCaller == Spec => []EndOnItsWay
<1>1. Init => LossInv /\ EndOnItsWay
  BY LossInit DEF Init, EndOnItsWay, Unanswered
<1> QED  BY <1>1, NextTold, NextEnds, PTL DEF Spec
-----------------------------------------------------------------------------
(* A caller that leaves *)

\* The only socket that may be open is that of the registered connection.
OneSocket == up \subseteq {current}

\* Whoever has the head of a response has a runner that took the request.
Begun(r) ==
    task[r] = "none" =>
        /\ toServer[r] = <<>> /\ head[r] # "set"
        /\ phase[r] \notin Using \cup {"reading", "leaving"}
        /\ \A i \in 1 .. Len(callbacks[r]) : callbacks[r][i] = "abort"

HasCancel(s) == \E i \in 1 .. Len(s) : s[i] = "cancel"

\* The runner has stopped working for the request, or will be made to: by a cancel
\* frame, on the WebSocket loop or in the socket, or by the loss of its connection.
CancelAhead(r) ==
    /\ task[r] # "none"
    /\ \/ task[r] \notin Active
       \/ conn[r] \notin up
       \/ [req |-> r, kind |-> "cancel"] \in posted
       \/ HasCancel(toRunner[r])

LeavingHeard == \A r \in Reqs : phase[r] = "leaving" => CancelAhead(r)

\* Nothing undoes it.
CancelKept == \A r \in Reqs : CancelAhead(r) => CancelAhead(r)'

LeaveInv == RInv /\ OneSocket /\ LeavingHeard /\ \A r \in Reqs : Begun(r)

LEMMA SocketsKept ==
    ASSUME NEW r \in Reqs, RequestStep(r) PROVE UNCHANGED <<current, up>>
<1>1. CASE ServerStep(r) \/ CallerStep(r) \/ AppStep(r) \/ RunnerReads(r)
  BY <1>1 DEF ServerStep, CallerStep, AppStep, RouteFrame, RunPosted, RunCallback, HeadReady, Take,
     RunnerReads, SendHead, SendChunk, SendEnd, AppCrashes, Sends, tunnelVars
<1>2. CASE Open(r) \/ Refuse(r) \/ Iterate(r) \/ Cancel(r) \/ Leave(r) \/ CancelLeaving(r)
  BY <1>2 DEF Open, Refuse, Iterate, Cancel, Leave, CancelLeaving, tunnelVars
<1> QED  BY <1>1, <1>2 DEF RequestStep

LEMMA NextOneSocket == ASSUME TInv, OneSocket, [Next]_vars PROVE OneSocket'
<1>1. ASSUME NEW c \in Conns, ConnStep(c) PROVE OneSocket'
  BY <1>1 DEF ConnStep, Register, Deregister, LinkDown, RunnerNotices, OneSocket
<1>2. CASE UNCHANGED vars
  BY <1>2 DEF vars, tunnelVars, OneSocket
<1> QED  BY <1>1, <1>2, SocketsKept, NextSteps DEF OneSocket

LEMMA ConnBegun ==
    ASSUME TInv, NEW c \in Conns, ConnStep(c), NEW q \in Reqs, Begun(q) PROVE Begun(q)'
<1> USE ConstantsAssumption DEF TInv, TypeOK
<1>1. /\ UNCHANGED <<phase, head>> /\ toServer'[q] \in {toServer[q], <<>>}
      /\ task'[q] = "none" => task[q] = "none"
  BY DEF ConnStep, Register, Deregister, LinkDown, RunnerNotices, callerVars, replyVars, runnerVars
<1>2. callbacks'[q] \in {callbacks[q], Append(callbacks[q], "abort")}
  BY DEF ConnStep, Register, Deregister, LinkDown, RunnerNotices, Abort, AbortCallback, callerVars,
     replyVars
<1>3. (\A i \in 1 .. Len(callbacks[q]) : callbacks[q][i] = "abort")
        => \A i \in 1 .. Len(callbacks'[q]) : callbacks'[q][i] = "abort"
  <2>1. callbacks[q] \in Seq({"head", "body", "end", "abort"})
    OBVIOUS
  <2>2. /\ Len(Append(callbacks[q], "abort")) = Len(callbacks[q]) + 1 /\ Len(callbacks[q]) \in Nat
        /\ \A i \in 1 .. Len(callbacks[q]) : Append(callbacks[q], "abort")[i] = callbacks[q][i]
        /\ Append(callbacks[q], "abort")[Len(callbacks[q]) + 1] = "abort"
    BY <2>1
  <2>3. \A i \in 1 .. Len(callbacks[q]) + 1 : i \in 1 .. Len(callbacks[q]) \/ i = Len(callbacks[q]) + 1
    BY <2>2
  <2> QED  BY <1>2, <2>2, <2>3
<1> QED  BY <1>1, <1>3 DEF Begun

LEMMA OwnBegun ==
    ASSUME TInv, NEW r \in Reqs, RequestStep(r), Begun(r) PROVE Begun(r)'
<1> USE DEF TInv, TypeOK, Awaiting, Using
<1>1. ASSUME UNCHANGED <<toServer, head, callbacks, task>>,
             phase'[r] \notin {"answered", "using", "reading", "leaving"}
                 \/ phase'[r] = phase[r] \/ phase[r] \in {"answered", "using", "reading", "leaving"}
      PROVE  Begun(r)'
  BY <1>1 DEF Begun
<1>2. CASE RouteFrame(r)
  BY <1>2 DEF RouteFrame, runnerVars, Begun
<1>3. ASSUME NEW m \in posted, m.req = r, RunPosted(m) PROVE Begun(r)'
  <2>1. UNCHANGED <<toServer, head, callbacks, task>>
        /\ (phase'[r] \in {"head", "failed", "left"} \/ phase'[r] = phase[r])
    BY <1>3 DEF RunPosted, Goto, replyVars, runnerVars
  <2> QED  BY <1>1, <2>1
<1>4. CASE RunCallback(r)
  <2>1. /\ UNCHANGED <<toServer, task, phase>> /\ callbacks'[r] = Tail(callbacks[r])
        /\ callbacks[r] \in Seq({"head", "body", "end", "abort"}) /\ callbacks[r] # <<>>
    BY <1>4 DEF RunCallback, tunnelVars, runnerVars
  <2>2. /\ Len(callbacks[r]) \in Nat \ {0} /\ Head(callbacks[r]) = callbacks[r][1]
        /\ Len(callbacks'[r]) = Len(callbacks[r]) - 1
        /\ \A i \in 1 .. Len(callbacks'[r]) :
              i + 1 \in 1 .. Len(callbacks[r]) /\ callbacks'[r][i] = callbacks[r][i + 1]
    BY <2>1
  <2>3. Head(callbacks[r]) = "abort" /\ head[r] # "set" => head'[r] # "set"
    BY <1>4 DEF RunCallback
  <2>4. 1 \in 1 .. Len(callbacks[r])
    BY <2>2
  <2> QED  BY <2>1, <2>2, <2>3, <2>4 DEF Begun
<1>5. CASE HeadReady(r) \/ Refuse(r) \/ Iterate(r) \/ Cancel(r) \/ Leave(r) \/ CancelLeaving(r)
  <2>1. UNCHANGED <<toServer, head, callbacks, task>>
    BY <1>5 DEF HeadReady, Refuse, Iterate, Cancel, Leave, CancelLeaving, tunnelVars, replyVars,
       runnerVars
  <2>2. \/ phase'[r] \in {"failed", "left"}
        \/ phase[r] \in {"answered", "using", "reading", "leaving"}
        \/ head[r] = "set"
    BY <1>5 DEF HeadReady, Refuse, Iterate, Cancel, Leave, CancelLeaving, Goto
  <2> QED  BY <1>1, <2>1, <2>2 DEF Begun
<1>6. CASE Take(r)
  BY <1>6 DEF Take, runnerVars, Begun
<1>7. CASE RunnerReads(r)
  <2>1. UNCHANGED <<toServer, head, callbacks, phase>> /\ (task'[r] = "none" => task[r] = "none")
    BY <1>7 DEF RunnerReads, callerVars, replyVars
  <2> QED  BY <2>1 DEF Begun
<1>8. CASE AppStep(r)
  <2>1. task'[r] # "none"
    BY <1>8 DEF AppStep, SendHead, SendChunk, SendEnd, AppCrashes
  <2> QED  BY <2>1 DEF Begun
<1>9. CASE Open(r)
  <2>1. UNCHANGED <<toServer, head, callbacks, task>> /\ phase'[r] = "sending"
    BY <1>9 DEF Open, Goto, replyVars, runnerVars
  <2> QED  BY <1>1, <2>1
<1> QED
  BY <1>2, <1>3, <1>4, <1>5, <1>6, <1>7, <1>8, <1>9 DEF RequestStep, ServerStep, CallerStep

LEMMA CancelOnItsWay ==
    ASSUME NEW s \in Seq({"request", "cancel"})
    PROVE  /\ \A f \in {"request", "cancel"} : HasCancel(s) \/ f = "cancel" => HasCancel(Append(s, f))
           /\ HasCancel(s) /\ Head(s) # "cancel" => HasCancel(Tail(s))
<1>1. ASSUME NEW f \in {"request", "cancel"}, HasCancel(s) \/ f = "cancel" PROVE HasCancel(Append(s, f))
  <2>1. /\ Len(s) \in Nat /\ Len(Append(s, f)) = Len(s) + 1
        /\ \A i \in 1 .. Len(s) : i \in 1 .. Len(s) + 1 /\ Append(s, f)[i] = s[i]
        /\ Append(s, f)[Len(s) + 1] = f /\ Len(s) + 1 \in 1 .. Len(s) + 1
    OBVIOUS
  <2> QED  BY <1>1, <2>1 DEF HasCancel
<1>2. ASSUME NEW i \in 1 .. Len(s), s[i] = "cancel", Head(s) # "cancel" PROVE HasCancel(Tail(s))
  <2>1. s # <<>> /\ Head(s) = s[1] /\ Len(s) \in Nat
    BY <1>2
  <2>2. i # 1
    BY <1>2, <2>1
  <2>3. i - 1 \in 1 .. Len(Tail(s)) /\ Tail(s)[i - 1] = s[i]
    BY <2>1, <2>2
  <2> QED  BY <1>2, <2>3 DEF HasCancel
<1> QED  BY <1>1, <1>2 DEF HasCancel

LEMMA ConnCancel ==
    ASSUME TInv, NEW c \in Conns, ConnStep(c), NEW q \in Reqs, CancelAhead(q) PROVE CancelAhead(q)'
<1> USE DEF TInv, TypeOK
<1>1. UNCHANGED <<conn, posted>> /\ (conn[q] \notin up => conn'[q] \notin up')
  BY DEF ConnStep, Register, Deregister, LinkDown, RunnerNotices, callerVars, replyVars
<1>2. CASE Register(c) \/ Deregister(c) \/ LinkDown(c)
  <2>1. UNCHANGED <<task, toRunner>>
    BY <1>2 DEF Register, Deregister, LinkDown, runnerVars
  <2> QED  BY <1>1, <2>1 DEF CancelAhead
<1>3. CASE RunnerNotices(c)
  <2>1. CASE conn[q] = c
    <3>1. task'[q] = IF task[q] \in Active THEN "cancelled" ELSE task[q]
      BY <1>3, <2>1 DEF RunnerNotices, Orphaned
    <3> QED  BY <3>1 DEF CancelAhead, Active
  <2>2. CASE conn[q] # c
    <3>1. task'[q] = task[q] /\ toRunner'[q] = toRunner[q]
      BY <1>3, <2>2 DEF RunnerNotices
    <3> QED  BY <1>1, <3>1 DEF CancelAhead
  <2> QED  BY <2>1, <2>2
<1> QED  BY <1>2, <1>3 DEF ConnStep

LEMMA OwnCancel ==
    ASSUME RInv, OneSocket, NEW r \in Reqs, RequestStep(r), CancelAhead(r) PROVE CancelAhead(r)'
<1> USE DEF RInv, TInv, TypeOK
<1>0. /\ up' = up /\ conn[r] # NoConn /\ task[r] # "none"
      /\ toRunner[r] \in Seq({"request", "cancel"})
  BY SocketsKept DEF CancelAhead, Fresh
<1>1. ASSUME UNCHANGED <<conn, task, toRunner>>, posted \subseteq posted' PROVE CancelAhead(r)'
  BY <1>0, <1>1 DEF CancelAhead
<1>2. ASSUME NEW m \in posted, m.req = r, RunPosted(m) PROVE CancelAhead(r)'
  <2>1. /\ posted' = posted \ {m} /\ UNCHANGED <<conn, task>>
        /\ toRunner'[r] = IF current = conn[r] THEN Append(toRunner[r], m.kind) ELSE toRunner[r]
        /\ m.kind \in {"request", "cancel"}
    BY Zenon, <1>2 DEF RunPosted, runnerVars
  <2>2. HasCancel(toRunner[r]) => HasCancel(toRunner'[r])
    BY <1>0, <2>1, CancelOnItsWay
  <2>3. CASE m.kind = "cancel"
    <3>1. CASE current = conn[r]
      <4>1. HasCancel(toRunner'[r])
        BY <1>0, <2>1, <2>3, <3>1, CancelOnItsWay
      <4> QED  BY <1>0, <2>1, <4>1 DEF CancelAhead
    <3>2. CASE current # conn[r]
      BY <1>0, <2>1, <3>2 DEF CancelAhead, OneSocket
    <3> QED  BY <3>1, <3>2
  <2>4. CASE m.kind # "cancel"
    <3>1. m # [req |-> r, kind |-> "cancel"]
      BY <2>4
    <3> QED  BY <1>0, <2>1, <2>2, <3>1 DEF CancelAhead
  <2> QED  BY <2>3, <2>4
<1>3. CASE RunnerReads(r)
  <2>1. /\ conn[r] \in up /\ toRunner[r] # <<>> /\ toRunner'[r] = Tail(toRunner[r])
        /\ UNCHANGED <<conn, posted>> /\ Head(toRunner[r]) \in {"request", "cancel"}
    BY <1>3 DEF RunnerReads, callerVars
  <2>2. Head(toRunner[r]) = "cancel"
    <3>1. NoRequest(toRunner[r])
      BY <1>0 DEF Once
    <3>2. 1 \in 1 .. Len(toRunner[r]) /\ Head(toRunner[r]) = toRunner[r][1]
      BY <1>0, <2>1
    <3> QED  BY <2>1, <3>1, <3>2 DEF NoRequest
  <2>3. task'[r] = IF task[r] \in Active THEN "cancelled" ELSE task[r]
    BY <1>3, <2>2 DEF RunnerReads
  <2> QED  BY <1>0, <2>3 DEF CancelAhead, Active
<1>4. CASE AppStep(r)
  <2>1. /\ UNCHANGED <<conn, posted, toRunner>> /\ task'[r] # "none"
        /\ task[r] \notin Active => task'[r] \notin Active
    BY <1>4 DEF AppStep, SendHead, SendChunk, SendEnd, AppCrashes, Sends, callerVars, Active
  <2> QED  BY <1>0, <2>1 DEF CancelAhead
<1>5. CASE RouteFrame(r) \/ CallerStep(r) \/ Refuse(r) \/ Iterate(r) \/ Cancel(r) \/ Leave(r)
           \/ CancelLeaving(r)
  <2>1. UNCHANGED <<conn, task, toRunner>> /\ posted \subseteq posted'
    BY <1>5 DEF RouteFrame, CallerStep, RunCallback, HeadReady, Take, Refuse, Iterate, Cancel, Leave,
       CancelLeaving, tunnelVars, runnerVars
  <2> QED  BY <1>1, <2>1
<1>6. CASE Open(r)
  BY <1>0, <1>6 DEF Open, Fresh
<1> QED
  BY <1>2, <1>3, <1>4, <1>5, <1>6 DEF RequestStep, ServerStep

LEMMA NextCancelKept == LeaveInv /\ [Next]_vars => CancelKept
<1> SUFFICES ASSUME LeaveInv, [Next]_vars, NEW q \in Reqs, CancelAhead(q) PROVE CancelAhead(q)'
  BY DEF CancelKept
<1>1. ASSUME NEW r \in Reqs, RequestStep(r), q # r PROVE CancelAhead(q)'
  <2>1. Alone(q) /\ UNCHANGED up
    BY <1>1, OthersAlone DEF LeaveInv, RInv
  <2>2. [req |-> q, kind |-> "cancel"] \in posted => [req |-> q, kind |-> "cancel"] \in posted'
    BY <1>1, PostedAlone DEF LeaveInv, RInv
  <2> QED  BY <2>1, <2>2 DEF CancelAhead, Alone, CallerAlone, TunnelAlone
<1>2. CASE UNCHANGED vars
  BY <1>2 DEF vars, tunnelVars, callerVars, runnerVars, CancelAhead
<1> QED  BY <1>1, <1>2, ConnCancel, OwnCancel, NextSteps DEF LeaveInv, RInv

\* aclose() posts the cancel of a request its runner has taken.
LEMMA EntersLeaving ==
    ASSUME RInv, NEW r \in Reqs, RequestStep(r), Begun(r), phase[r] # "leaving",
           phase'[r] = "leaving"
    PROVE  CancelAhead(r)'
<1> USE DEF RInv, TInv, TypeOK, Using, Awaiting
<1>1. ASSUME Leave(r) PROVE CancelAhead(r)'
  <2>1. task[r] # "none" /\ UNCHANGED task
    BY <1>1 DEF Leave, Begun, runnerVars
  <2>2. [req |-> r, kind |-> "cancel"] \in posted'
    BY <1>1 DEF Leave, Goto
  <2> QED  BY <2>1, <2>2 DEF CancelAhead
<1>2. ASSUME NEW m \in posted, RunPosted(m) PROVE FALSE
  BY <1>2 DEF RunPosted, Goto
<1>3. ~(RouteFrame(r) \/ CallerStep(r) \/ RunnerReads(r) \/ AppStep(r))
  BY DEF RouteFrame, CallerStep, RunCallback, HeadReady, Take, RunnerReads, AppStep, SendHead,
     SendChunk, SendEnd, AppCrashes, Sends, Goto, callerVars
<1>4. ~(Open(r) \/ Refuse(r) \/ Iterate(r) \/ Cancel(r) \/ CancelLeaving(r))
  BY DEF Open, Refuse, Iterate, Cancel, CancelLeaving, Goto
<1> QED  BY <1>1, <1>2, <1>3, <1>4 DEF RequestStep, ServerStep

LEMMA NextLeave == LeaveInv /\ [Next]_vars => LeaveInv'
<1> SUFFICES ASSUME LeaveInv, [Next]_vars PROVE LeaveInv'
  OBVIOUS
<1>1. RInv' /\ OneSocket'
  BY NextInPlace, NextOneSocket DEF LeaveInv, RInv
<1>2. ASSUME NEW q \in Reqs PROVE Begun(q)'
  <2>1. Begun(q) /\ TInv
    BY DEF LeaveInv, RInv
  <2>2. ASSUME NEW r \in Reqs, RequestStep(r), q # r PROVE Begun(q)'
    <3>1. Alone(q)
      BY <2>1, <2>2, OthersAlone
    <3> QED  BY <2>1, <3>1 DEF Alone, CallerAlone, TunnelAlone, Begun
  <2>3. CASE UNCHANGED vars
    BY <2>1, <2>3 DEF vars, tunnelVars, callerVars, replyVars, runnerVars, Begun
  <2> QED  BY <2>1, <2>2, <2>3, ConnBegun, OwnBegun, NextSteps
<1>3. ASSUME NEW q \in Reqs, phase'[q] = "leaving" PROVE CancelAhead(q)'
  <2>1. CASE phase[q] = "leaving"
    BY <2>1, NextCancelKept DEF LeaveInv, LeavingHeard, CancelKept
  <2>2. CASE phase[q] # "leaving"
    <3>1. ASSUME NEW c \in Conns, ConnStep(c) PROVE phase' = phase
      BY <3>1 DEF ConnStep, Register, Deregister, LinkDown, RunnerNotices, callerVars
    <3>2. ASSUME NEW r \in Reqs, RequestStep(r), q # r PROVE phase'[q] = phase[q]
      BY <3>2, OthersAlone DEF LeaveInv, RInv, Alone, CallerAlone
    <3>3. CASE UNCHANGED vars
      BY <1>3, <2>2, <3>3 DEF vars, callerVars
    <3> QED  BY <1>3, <2>2, <3>1, <3>2, <3>3, EntersLeaving, NextSteps DEF LeaveInv
  <2> QED  BY <2>1, <2>2
<1> QED  BY <1>1, <1>2, <1>3 DEF LeaveInv, LeavingHeard

\* From the moment aclose() leaves a response that was in use the runner is told to
\* stop, and nothing takes that back: the cancel frame is never overtaken by its own
\* request, and where it is refused the connection is gone.  It holds wherever a
\* cancellation lands in aclose() afterwards.  It is what LeavingStopsRunner asks, but
\* for the fairness that delivers the frame.
THEOREM LeavingIsHeard == Spec => []LeavingHeard /\ [][CancelKept]_vars
<1>1. Init => LeaveInv
  BY InitInPlace DEF Init, LeaveInv, OneSocket, LeavingHeard, Begun, Using
<1>2. LeaveInv => LeavingHeard
  BY DEF LeaveInv
<1> QED  BY <1>1, <1>2, NextLeave, NextCancelKept, PTL DEF Spec
=============================================================================
