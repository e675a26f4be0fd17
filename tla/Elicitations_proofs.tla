------------------------ MODULE Elicitations_proofs ------------------------
(***************************************************************************)
(* Proofs about Elicitations and the BlockNotifier it composes, for any    *)
(* number of posts, verdicts, handlers and retries: their types, that only *)
(* the owner of a wait's registry entries takes them out, that nobody is   *)
(* asked while a verdict is kept, that an unanswered prompt keeps its card *)
(* and that the parent is woken only while a card is up; and that there is *)
(* always somebody left who will clear a card, or handle a block.          *)
(***************************************************************************)
EXTENDS Elicitations, FiniteSetTheorems, TLAPS

\* Waits that may still ask for a deferred clear: each mirrors one at most.
Owing == {w \in Waits : wait[w].at # "ended"} \cup grace
ClearsCounted == clearing + Cardinality(Owing) <= answers + MaxPosts

\* A scheduled clear belongs to a wait that has ended.
GraceEnded == \A w \in grace : wait[w].at = "ended"

\* The typing invariant proper: what TypeOK says, but for the bound of clearing.
Shape ==
    /\ hook \in {"posting", "held"} \cup HookEnds
    /\ wait \in [Waits -> WaitRecord]
    /\ parked \in Waits \cup {0}
    /\ tombstone \in BOOLEAN
    /\ grace \subseteq Waits
    /\ card \subseteq Sessions
    /\ clearing \in Nat
    /\ answers \in 0..MaxAnswers
    /\ NotifierTypeOK

Counted == ClearsCounted /\ GraceEnded

-----------------------------------------------------------------------------
(* The notifier *)

LEMMA RequestTyped ==
    ASSUME NotifierTypeOK, NEW s \in Sessions, ObserveRequest(s)
    PROVE  NotifierTypeOK' /\ armed'
<1>1. CASE armed
  BY <1>1 DEF ObserveRequest, NotifierTypeOK, notifier
<1>2. CASE ~armed
  <2>1. /\ handler' \in [Handlers -> {"unused", "grace", "lookup", "waking", "backoff",
                                      "awaiting", "closing", "done"}]
        /\ armed' = TRUE /\ armedBy' = s /\ woken' = FALSE
        /\ UNCHANGED <<signal, signalled, tries>>
    BY <1>2 DEF ObserveRequest, NotifierTypeOK
  <2> QED  BY <2>1 DEF NotifierTypeOK
<1> QED  BY <1>1, <1>2 DEF NotifierTypeOK

LEMMA ResolvedTyped ==
    ASSUME NotifierTypeOK, ObserveResolved
    PROVE  NotifierTypeOK' /\ armed' = FALSE
BY DEF ObserveResolved, NotifierTypeOK, Sessions

LEMMA StepTyped ==
    ASSUME NotifierTypeOK, NEW h \in Handlers, HandlerStep(h)
    PROVE  NotifierTypeOK'
<1> USE NotifierAssumption DEF NotifierTypeOK, At, Ends
<1>1. CASE GraceEnds(h)
  BY <1>1 DEF GraceEnds
<1>2. CASE LookedUp(h)
  BY <1>2 DEF LookedUp
<1>3. CASE Attempt(h)
  BY <1>3 DEF Attempt
<1>4. CASE Woken(h)
  BY <1>4 DEF Woken
<1>5. CASE WakeFails(h)
  <2>1. CASE AnotherTry(h)
    <3>1. tries[h] + 1 \in 0..Retries
      BY <2>1 DEF AnotherTry
    <3> QED  BY <1>5, <2>1, <3>1 DEF WakeFails
  <2>2. CASE ~AnotherTry(h)
    <3>1. 0 \in 0..Retries /\ "child" \in Sessions
      BY DEF Sessions
    <3>2. /\ handler' = [handler EXCEPT ![h] = "done"] /\ tries' = [tries EXCEPT ![h] = 0]
          /\ signalled' = signalled \ {h} /\ signal' = 0 /\ armed' = FALSE
          /\ armedBy' = "child" /\ woken' = woken
      BY <1>5, <2>2 DEF WakeFails, ArmAfterFailure
    <3> QED  BY <3>1, <3>2
  <2> QED  BY <2>1, <2>2
<1>6. CASE Signalled(h)
  BY <1>6 DEF Signalled
<1>7. CASE NoticeEnds(h)
  BY <1>7 DEF NoticeEnds
<1> QED  BY <1>1, <1>2, <1>3, <1>4, <1>5, <1>6, <1>7 DEF HandlerStep

-----------------------------------------------------------------------------
(* The types *)

LEMMA InitShape == Init => Shape /\ Counted
<1> SUFFICES ASSUME Init PROVE Shape /\ Counted
  OBVIOUS
<1>1. NotifierTypeOK
  <2>1. 0 \in 0..Retries
    BY NotifierAssumption
  <2>2. NotifierInit
    BY DEF Init
  <2>3. /\ handler \in [Handlers -> {"unused", "grace", "lookup", "waking", "backoff",
                                    "awaiting", "closing", "done"}]
        /\ tries \in [Handlers -> 0..Retries]
    BY <2>1, <2>2 DEF NotifierInit
  <2>4. /\ armed \in BOOLEAN /\ armedBy \in Sessions /\ woken \in BOOLEAN
        /\ signal \in Handlers \cup {0} /\ signalled \subseteq Handlers
    BY <2>2 DEF NotifierInit, Sessions
  <2> QED  BY <2>3, <2>4 DEF NotifierTypeOK
<1>2. Unposted \in WaitRecord
  BY DEF Unposted, WaitRecord
<1>3. Shape
  <2>1. 0 \in 0..MaxAnswers
    BY PostsAssumption
  <2>2. wait \in [Waits -> WaitRecord]
    BY <1>2 DEF Init
  <2> QED  BY <1>1, <2>1, <2>2 DEF Init, Shape
<1>4. Owing = 1..MaxPosts
  BY DEF Init, Owing, Unposted, Waits
<1>5. Cardinality(1..MaxPosts) = MaxPosts
  BY PostsAssumption, FS_Interval
<1>6. ClearsCounted
  BY <1>4, <1>5, PostsAssumption DEF Init, ClearsCounted
<1>7. GraceEnded
  BY DEF Init, GraceEnded
<1> QED  BY <1>3, <1>6, <1>7 DEF Counted

\* One wait becomes another record.
LEMMA Rewritten ==
    ASSUME Shape, NEW w \in Waits, NEW r \in WaitRecord, wait' = [wait EXCEPT ![w] = r]
    PROVE  wait' \in [Waits -> WaitRecord]
BY DEF Shape

\* A wait that changes fields but stays the record it is.
LEMMA WaitTyped ==
    ASSUME Shape, NEW w \in Waits
    PROVE  /\ wait[w] \in WaitRecord
           /\ Unwound(w, "mirrorClear") \in WaitRecord
           /\ Unwound(w, "ended") \in WaitRecord
BY ZenonT(30) DEF Shape, WaitRecord, Unwound

LEMMA HookShape ==
    ASSUME Shape,
           \/ GiveUp \/ AnsweredInTerminal
           \/ \E w \in Waits : Post(w) \/ Sever(w) \/ Reply(w)
    PROVE  Shape'
<1> USE DEF Shape, WaitRecord, HookEnds, NotifierTypeOK, notifier, server
<1>1. CASE GiveUp
  BY <1>1 DEF GiveUp
<1>2. CASE AnsweredInTerminal
  <2>1. \A w \in Waits : [wait[w] EXCEPT !.open = FALSE] \in WaitRecord
    BY ZenonT(30)
  <2>2. wait' \in [Waits -> WaitRecord]
    BY <1>2, <2>1 DEF AnsweredInTerminal
  <2> QED  BY <1>2, <2>2 DEF AnsweredInTerminal
<1>3. ASSUME NEW w \in Waits, Post(w) PROVE Shape'
  BY <1>3 DEF Post
<1>4. ASSUME NEW w \in Waits, Sever(w) PROVE Shape'
  <2>1. [wait[w] EXCEPT !.open = FALSE] \in WaitRecord
    BY ZenonT(30)
  <2>2. wait' = [wait EXCEPT ![w] = [wait[w] EXCEPT !.open = FALSE]]
    BY <1>4 DEF Sever
  <2>3. wait' \in [Waits -> WaitRecord]
    BY <2>1, <2>2, Rewritten
  <2> QED  BY <1>4, <2>3 DEF Sever
<1>5. ASSUME NEW w \in Waits, Reply(w) PROVE Shape'
  <2>1. wait' \in [Waits -> WaitRecord]
    <3>1. wait' = [wait EXCEPT ![w] = [wait[w] EXCEPT !.open = FALSE]]
      BY <1>5 DEF Reply
    <3>2. [wait[w] EXCEPT !.open = FALSE] \in WaitRecord
      BY ZenonT(30)
    <3> QED  BY <3>1, <3>2, Rewritten
  <2>2. hook' \in HookEnds
    BY <1>5 DEF Reply
  <2> QED  BY <1>5, <2>1, <2>2 DEF Reply
<1> QED  BY <1>1, <1>2, <1>3, <1>4, <1>5

LEMMA WaitShape ==
    ASSUME Shape, NEW w \in Waits, WaitStep(w) \/ TimesOut(w)
    PROVE  Shape'
<1>0. "child" \in Sessions /\ "parent" \in Sessions /\ NotifierTypeOK
  BY DEF Sessions, Shape
<1>1. ASSUME UNCHANGED notifier PROVE NotifierTypeOK'
  BY <1>0, <1>1 DEF NotifierTypeOK, notifier
<1>2. CASE AutoApproved(w)
  <2>1. wait' \in [Waits -> WaitRecord]
    <3>1. wait' = [wait EXCEPT ![w] = [wait[w] EXCEPT !.at = "ended", !.taken = TRUE]]
      BY <1>2 DEF AutoApproved, Shape
    <3>2. [wait[w] EXCEPT !.at = "ended", !.taken = TRUE] \in WaitRecord
      BY ZenonT(30) DEF Shape, WaitRecord
    <3> QED  BY <3>1, <3>2, Rewritten
  <2> QED  BY <1>1, <1>2, <2>1 DEF AutoApproved, Shape
<1>3. CASE TakeTombstone(w)
  <2>1. wait' \in [Waits -> WaitRecord]
    <3>1. wait' = [wait EXCEPT ![w] = [wait[w] EXCEPT !.at = "ended", !.taken = TRUE]]
      BY <1>3 DEF TakeTombstone, Shape
    <3>2. [wait[w] EXCEPT !.at = "ended", !.taken = TRUE] \in WaitRecord
      BY DEF Shape, WaitRecord
    <3> QED  BY <3>1, <3>2, Rewritten
  <2> QED  BY <1>1, <1>3, <2>1 DEF TakeTombstone, Shape
<1>4. CASE Park(w)
  <2>1. wait' \in [Waits -> WaitRecord]
    <3>1. wait' = [wait EXCEPT ![w] = [wait[w] EXCEPT !.at = "mirroring", !.published = TRUE]]
      BY <1>4 DEF Park, Shape
    <3>2. [wait[w] EXCEPT !.at = "mirroring", !.published = TRUE] \in WaitRecord
      BY ZenonT(30) DEF Shape, WaitRecord
    <3> QED  BY <3>1, <3>2, Rewritten
  <2>2. NotifierTypeOK' /\ card' \subseteq Sessions
    BY <1>0, <1>4, RequestTyped DEF Park, PublishRequest, Shape
  <2> QED  BY <1>4, <2>1, <2>2 DEF Park, Shape
<1>5. CASE MirrorRequest(w)
  <2>1. wait' \in [Waits -> WaitRecord]
    BY <1>5 DEF MirrorRequest, Shape, WaitRecord
  <2>2. NotifierTypeOK' /\ card' \subseteq Sessions
    BY <1>0, <1>5, RequestTyped DEF MirrorRequest, PublishRequest, Shape
  <2> QED  BY <1>5, <2>1, <2>2 DEF MirrorRequest, Shape
<1>6. CASE EndOf(w)
  <2>1. wait' \in [Waits -> WaitRecord]
    <3>1. wait' = [wait EXCEPT ![w] = [wait[w] EXCEPT !.at = "reaping", !.taken = wait[w].future]]
      BY <1>6 DEF EndOf, Shape
    <3>2. [wait[w] EXCEPT !.at = "reaping", !.taken = wait[w].future] \in WaitRecord
      BY ZenonT(30) DEF Shape, WaitRecord
    <3> QED  BY <3>1, <3>2, Rewritten
  <2> QED  BY <1>1, <1>6, <2>1 DEF EndOf, Shape
<1>7. CASE Unpark(w)
  <2>1. CASE Settled(w)
    <3>1. wait' \in [Waits -> WaitRecord]
      BY <1>7, <2>1, WaitTyped DEF Unpark, Shape
    <3>2. NotifierTypeOK' /\ card' \subseteq Sessions
      BY <1>0, <1>7, <2>1, ResolvedTyped DEF Unpark, PublishResolved, Shape
    <3> QED  BY <1>7, <2>1, <3>1, <3>2 DEF Unpark, Shape
  <2>2. CASE ~Settled(w)
    <3>1. wait' \in [Waits -> WaitRecord]
      BY <1>7, <2>2, WaitTyped DEF Unpark, Shape
    <3> QED  BY <1>1, <1>7, <2>2, <3>1 DEF Unpark, Shape
  <2> QED  BY <2>1, <2>2
<1>8. CASE MirrorClear(w)
  <2>1. wait' \in [Waits -> WaitRecord]
    BY <1>8 DEF MirrorClear, Shape, WaitRecord
  <2>2. NotifierTypeOK' /\ card' \subseteq Sessions
    BY <1>0, <1>8, ResolvedTyped DEF MirrorClear, PublishResolved, Shape
  <2> QED  BY <1>8, <2>1, <2>2 DEF MirrorClear, Shape
<1>9. CASE GraceOver(w)
  <2>1. CASE ClearDue
    <3>1. NotifierTypeOK' /\ card' \subseteq Sessions
      BY <1>0, <1>9, <2>1, ResolvedTyped DEF GraceOver, PublishResolved, Shape
    <3> QED  BY <1>9, <2>1, <3>1 DEF GraceOver, Shape
  <2>2. CASE ~ClearDue
    BY <1>1, <1>9, <2>2 DEF GraceOver, Shape
  <2> QED  BY <2>1, <2>2
<1> QED
  BY <1>2, <1>3, <1>4, <1>5, <1>6, <1>7, <1>8, <1>9 DEF WaitStep, WaitEnds, TimesOut

LEMMA AnswerShape ==
    ASSUME Shape, Answer \/ MirrorResolved \/ ToolResult
    PROVE  Shape'
<1>0. NotifierTypeOK
  BY DEF Shape
<1>1. CASE Answer
  <2>1. NotifierTypeOK' /\ card' \subseteq Sessions
    BY <1>0, <1>1, ResolvedTyped DEF Answer, PublishResolved, Shape
  <2>2. wait' \in [Waits -> WaitRecord] /\ tombstone' \in BOOLEAN
    <3>1. CASE parked = 0
      BY <1>1, <3>1 DEF Answer, Shape
    <3>2. CASE parked # 0
      <4>1. parked \in Waits /\ wait[parked] \in WaitRecord /\ tombstone' = tombstone
        BY <1>1, <3>2 DEF Answer, Shape
      <4>2. wait' = [wait EXCEPT ![parked].future = TRUE, ![parked].elsewhere = TRUE]
        BY <1>1, <3>2 DEF Answer
      <4>3. wait' \in [Waits -> WaitRecord]
        BY <4>1, <4>2 DEF Shape, WaitRecord
      <4> QED  BY <4>1, <4>3 DEF Shape
    <3> QED  BY <3>1, <3>2
  <2>3. answers' \in 0..MaxAnswers /\ clearing' \in Nat
    BY <1>1, PostsAssumption DEF Answer, Shape
  <2> QED  BY <1>1, <2>1, <2>2, <2>3 DEF Answer, Shape
<1>2. CASE MirrorResolved
  <2>1. NotifierTypeOK' /\ card' \subseteq Sessions
    BY <1>0, <1>2, ResolvedTyped DEF MirrorResolved, PublishResolved, Shape
  <2>2. clearing' \in Nat
    BY <1>2 DEF MirrorResolved, Shape
  <2> QED  BY <1>2, <2>1, <2>2 DEF MirrorResolved, Shape
<1>3. CASE ToolResult
  <2>1. wait' \in [Waits -> WaitRecord]
    <3>1. parked \in Waits
      BY <1>3 DEF ToolResult, Shape
    <3>2. wait' = [wait EXCEPT ![parked] = [wait[parked] EXCEPT !.elsewhere = TRUE]]
      BY <1>3 DEF ToolResult
    <3>3. [wait[parked] EXCEPT !.elsewhere = TRUE] \in WaitRecord
      BY ZenonT(30), <3>1 DEF Shape, WaitRecord
    <3> QED  BY <3>1, <3>2, <3>3, Rewritten
  <2> QED  BY <1>0, <1>3, <2>1 DEF ToolResult, Shape, NotifierTypeOK, notifier
<1> QED  BY <1>1, <1>2, <1>3

LEMMA NextShape == Shape /\ [Next]_vars => Shape'
<1> SUFFICES ASSUME Shape, [Next]_vars PROVE Shape'
  OBVIOUS
<1>1. ASSUME NEW h \in Handlers, NotifierStep(h) PROVE Shape'
  BY <1>1, StepTyped DEF NotifierStep, Shape, server
<1>2. CASE UNCHANGED vars
  BY <1>2 DEF Shape, NotifierTypeOK, vars, server, notifier
<1> QED  BY <1>1, <1>2, HookShape, WaitShape, AnswerShape DEF Next
-----------------------------------------------------------------------------
(* The clears that are under way *)

\* A wait that has ended stays ended, and a clear is scheduled by a wait that ends.
Ages ==
    /\ \A v \in Waits : wait[v].at = "ended" => wait'[v].at = "ended"
    /\ \A v \in grace' : wait'[v].at = "ended" /\ v \in Owing

LEMMA QuietAges ==
    ASSUME Shape, GraceEnded, UNCHANGED <<wait, grace>>
    PROVE  Ages
BY DEF Shape, GraceEnded, Ages, Owing

\* The step of wait w, from a state it has not ended in, to another.
LEMMA MovedAges ==
    ASSUME Shape, GraceEnded, NEW w \in Waits, NEW r, wait' = [wait EXCEPT ![w] = r],
           wait[w].at # "ended" \/ r.at = "ended",
           grace' = grace \/ (grace' = grace \cup {w} /\ r.at = "ended" /\ wait[w].at # "ended")
    PROVE  Ages
<1>1. wait'[w] = r /\ \A v \in Waits \ {w} : wait'[v] = wait[v]
  BY DEF Shape
<1> QED  BY <1>1 DEF Shape, GraceEnded, Ages, Owing

LEMMA NextAges == Shape /\ GraceEnded /\ [Next]_vars => Ages
<1> SUFFICES ASSUME Shape, GraceEnded, [Next]_vars PROVE Ages
  OBVIOUS
<1> USE QuietAges
<1>1. ASSUME NEW w \in Waits, NEW r, wait' = [wait EXCEPT ![w] = r], grace' = grace,
             wait[w].at # "ended" \/ r.at = "ended"
      PROVE  Ages
  BY <1>1, MovedAges
<1>2. ASSUME NEW w \in Waits, wait' = [wait EXCEPT ![w].open = FALSE], grace' = grace PROVE Ages
  <2>1. \A v \in Waits : wait'[v].at = wait[v].at
    BY <1>2 DEF Shape, WaitRecord
  <2> QED  BY <1>2, <2>1 DEF Shape, GraceEnded, Ages, Owing
<1>3. ASSUME \A v \in Waits : wait'[v].at = wait[v].at, grace' \subseteq grace PROVE Ages
  BY <1>3 DEF Shape, GraceEnded, Ages, Owing
<1>4. ASSUME NEW w \in Waits, NEW at, wait[w].at # "ended", grace' = grace,
             wait'[w].at = at, \A v \in Waits \ {w} : wait'[v] = wait[v]
      PROVE  Ages
  BY <1>4 DEF Shape, GraceEnded, Ages, Owing
<1>5. CASE GiveUp
  BY <1>5 DEF GiveUp, server
<1>6. CASE AnsweredInTerminal
  <2>1. \A v \in Waits : wait'[v].at = wait[v].at
    BY <1>6 DEF AnsweredInTerminal, Shape, WaitRecord
  <2> QED  BY <1>3, <1>6, <2>1 DEF AnsweredInTerminal
<1>7. ASSUME NEW w \in Waits, Post(w) PROVE Ages
  BY <1>4, <1>7 DEF Post, Shape, WaitRecord
<1>8. ASSUME NEW w \in Waits, Sever(w) \/ Reply(w) PROVE Ages
  BY <1>2, <1>8 DEF Sever, Reply
<1>9. ASSUME NEW w \in Waits, \/ AutoApproved(w) \/ TakeTombstone(w) \/ Park(w)
                             \/ MirrorRequest(w) \/ EndOf(w) \/ MirrorClear(w)
      PROVE  Ages
  <2>1. wait[w].at # "ended" /\ grace' = grace
    BY <1>9 DEF AutoApproved, TakeTombstone, Park, MirrorRequest, EndOf, MirrorClear
  <2>2. \A v \in Waits \ {w} : wait'[v] = wait[v]
    BY <1>9 DEF AutoApproved, TakeTombstone, Park, MirrorRequest, EndOf, MirrorClear, Shape
  <2> QED  BY <1>4, <2>1, <2>2
<1>10. ASSUME NEW w \in Waits, Unpark(w) PROVE Ages
  <2>1. CASE Settled(w)
    BY <1>1, <1>10, <2>1 DEF Unpark
  <2>2. CASE ~Settled(w)
    <3>1. Unwound(w, "ended").at = "ended"
      BY DEF Unwound, Shape, WaitRecord
    <3> QED  BY <1>10, <2>2, <3>1, MovedAges DEF Unpark
  <2> QED  BY <2>1, <2>2
<1>11. ASSUME NEW w \in Waits, GraceOver(w) PROVE Ages
  BY <1>3, <1>11 DEF GraceOver
<1>12. CASE Answer
  <2>1. \A v \in Waits : wait'[v].at = wait[v].at
    BY <1>12 DEF Answer, Shape, WaitRecord
  <2> QED  BY <1>3, <1>12, <2>1 DEF Answer
<1>13. CASE ToolResult
  <2>1. \A v \in Waits : wait'[v].at = wait[v].at
    BY <1>13 DEF ToolResult, Shape, WaitRecord
  <2> QED  BY <1>3, <1>13, <2>1 DEF ToolResult
<1>14. CASE MirrorResolved
  BY <1>14 DEF MirrorResolved
<1>15. ASSUME NEW h \in Handlers, NotifierStep(h) PROVE Ages
  BY <1>15 DEF NotifierStep, server
<1>16. CASE UNCHANGED vars
  BY <1>16 DEF vars, server
<1> QED
  BY <1>5, <1>6, <1>7, <1>8, <1>9, <1>10, <1>11, <1>12, <1>13, <1>14, <1>15, <1>16
     DEF Next, WaitStep, WaitEnds, TimesOut

LEMMA OwingFinite == Shape => IsFiniteSet(Owing) /\ Cardinality(Owing) \in Nat
<1> SUFFICES ASSUME Shape PROVE IsFiniteSet(Owing) /\ Cardinality(Owing) \in Nat
  OBVIOUS
<1>1. IsFiniteSet(Waits)
  BY PostsAssumption, FS_Interval DEF Waits
<1>2. Owing \subseteq Waits
  BY DEF Owing, Shape
<1> QED  BY <1>1, <1>2, FS_Subset, FS_CardinalityType

\* A step adds a clear for an answer, or takes a scheduled one out for it.
Accounted ==
    \/ clearing' - clearing <= answers' - answers
    \/ /\ clearing' <= clearing + 1 /\ answers' = answers
       /\ \E w \in grace : w \notin Owing'

LEMMA NextAccounted == Shape /\ GraceEnded /\ [Next]_vars => Accounted
<1> SUFFICES ASSUME Shape, GraceEnded, [Next]_vars PROVE Accounted
  OBVIOUS
<1>0. clearing \in Nat /\ answers \in Nat
  BY PostsAssumption DEF Shape
<1>1. ASSUME UNCHANGED <<clearing, answers>> PROVE Accounted
  BY <1>0, <1>1 DEF Accounted
<1>2. ASSUME NEW w \in Waits, GraceOver(w) PROVE Accounted
  <2>1. w \in grace /\ w \notin Owing'
    BY <1>2 DEF GraceOver, GraceEnded, Owing
  <2>2. clearing' <= clearing + 1 /\ answers' = answers
    BY <1>0, <1>2 DEF GraceOver
  <2> QED  BY <2>1, <2>2 DEF Accounted
<1>3. CASE Answer
  BY <1>0, <1>3 DEF Answer, Accounted
<1>4. CASE MirrorResolved
  BY <1>0, <1>4 DEF MirrorResolved, Accounted
<1>5. CASE GiveUp \/ AnsweredInTerminal \/ ToolResult
  BY <1>1, <1>5 DEF GiveUp, AnsweredInTerminal, ToolResult, server
<1>6. ASSUME NEW w \in Waits, Post(w) \/ Sever(w) \/ Reply(w) PROVE Accounted
  BY <1>1, <1>6 DEF Post, Sever, Reply
<1>7. ASSUME NEW w \in Waits,
             \/ AutoApproved(w) \/ TakeTombstone(w) \/ Park(w) \/ MirrorRequest(w)
             \/ EndOf(w) \/ Unpark(w) \/ MirrorClear(w)
      PROVE  Accounted
  BY <1>1, <1>7 DEF AutoApproved, TakeTombstone, Park, MirrorRequest, EndOf, Unpark, MirrorClear
<1>8. ASSUME NEW h \in Handlers, NotifierStep(h) PROVE Accounted
  BY <1>1, <1>8 DEF NotifierStep, server
<1>9. CASE UNCHANGED vars
  BY <1>1, <1>9 DEF vars, server
<1> QED
  BY <1>2, <1>3, <1>4, <1>5, <1>6, <1>7, <1>8, <1>9 DEF Next, WaitStep, WaitEnds, TimesOut

\* c clears, n waits owing, a answers and the posts, before and after a step.
LEMMA Balance ==
    ASSUME NEW c \in Nat, NEW d \in Nat, NEW a \in Nat, NEW b \in Nat, NEW n \in Nat,
           NEW k \in Nat, NEW m \in Nat, c + n <= a + m,
           \/ d - c <= b - a /\ k <= n
           \/ d <= c + 1 /\ b = a /\ k <= n - 1
    PROVE  d + k <= b + m
OBVIOUS

LEMMA NextCounted == Shape /\ Counted /\ [Next]_vars => Counted'
<1> SUFFICES ASSUME Shape, Counted, [Next]_vars PROVE Counted'
  OBVIOUS
<1>1. Ages /\ Accounted /\ Shape'
  BY NextAges, NextAccounted, NextShape DEF Counted
<1>2. GraceEnded'
  BY <1>1 DEF Ages, GraceEnded
<1>3. Owing' \subseteq Owing
  BY <1>1 DEF Ages, Owing
<1>4. PICK n, k : n = Cardinality(Owing) /\ k = Cardinality(Owing)'
  OBVIOUS
<1>5. /\ IsFiniteSet(Owing) /\ n \in Nat /\ k \in Nat /\ k <= n
  <2>1. IsFiniteSet(Owing) /\ Cardinality(Owing) \in Nat
    BY OwingFinite
  <2>2. IsFiniteSet(Owing') /\ Cardinality(Owing') <= Cardinality(Owing)
    BY <1>3, <2>1, FS_Subset
  <2>3. Cardinality(Owing') \in Nat
    BY <2>2, FS_CardinalityType
  <2> QED  BY <1>4, <2>1, <2>2, <2>3
<1>6. /\ clearing \in Nat /\ answers \in Nat /\ clearing' \in Nat /\ answers' \in Nat
      /\ MaxPosts \in Nat /\ clearing + n <= answers + MaxPosts
  BY <1>1, <1>4, PostsAssumption DEF Shape, Counted, ClearsCounted
<1>7. CASE clearing' - clearing <= answers' - answers
  <2>1. PICK d, b : d = clearing' /\ b = answers'
    OBVIOUS
  <2>2. d \in Nat /\ b \in Nat /\ d - clearing <= b - answers
    BY <1>6, <1>7, <2>1
  <2>3. d + k <= b + MaxPosts
    BY <1>5, <1>6, <2>2, Balance
  <2> QED  BY <1>2, <1>4, <2>1, <2>3 DEF Counted, ClearsCounted
<1>8. CASE clearing' <= clearing + 1 /\ answers' = answers /\ \E w \in grace : w \notin Owing'
  <2>1. PICK w \in grace : w \notin Owing'
    BY <1>8
  <2>2. w \in Owing /\ Owing' \subseteq Owing \ {w}
    BY <1>3, <2>1 DEF Owing
  <2>3. Cardinality(Owing \ {w}) = n - 1 /\ IsFiniteSet(Owing \ {w})
    BY <1>4, <1>5, <2>2, FS_RemoveElement
  <2>4. k <= n - 1
    BY <1>4, <2>2, <2>3, FS_Subset
  <2>5. clearing' + k <= answers' + MaxPosts
    BY <1>5, <1>6, <1>8, <2>4, Balance
  <2> QED  BY <1>2, <1>4, <2>5 DEF Counted, ClearsCounted
<1> QED  BY <1>1, <1>7, <1>8 DEF Accounted

LEMMA ShapeTypes == Shape /\ Counted => TypeOK
<1> SUFFICES ASSUME Shape, Counted PROVE clearing \in 0..(MaxAnswers + MaxPosts)
  BY DEF Shape, TypeOK
<1>1. /\ clearing \in Nat /\ answers \in Nat /\ answers <= MaxAnswers
      /\ MaxAnswers \in Nat /\ MaxPosts \in Nat
  BY PostsAssumption DEF Shape
<1>2. PICK n \in Nat : clearing + n <= answers + MaxPosts
  BY OwingFinite DEF Counted, ClearsCounted
<1> QED  BY <1>1, <1>2

Core == Shape /\ Counted

LEMMA AlwaysCore == Spec => []Core
<1>1. Core /\ [Next]_vars => Core'
  BY NextShape, NextCounted DEF Core
<1> QED  BY InitShape, <1>1, PTL DEF Core, Spec

\* The hook, the waits, the registries, the cards and the notifier stay well typed
\* for any number of posts, verdicts and handlers, and no more mirrored clears are
\* ever under way than there were verdicts and severed waits.
THEOREM TypeCorrect == Spec => []TypeOK
<1>1. Core => TypeOK
  BY ShapeTypes DEF Core
<1> QED  BY AlwaysCore, <1>1, PTL
-----------------------------------------------------------------------------
(* Safety *)

LEMMA KeptInductive ==
    Shape /\ NotAskedWhileAnswered /\ [Next]_vars => NotAskedWhileAnswered'
<1> SUFFICES ASSUME Shape, NotAskedWhileAnswered, [Next]_vars PROVE NotAskedWhileAnswered'
  OBVIOUS
<1> USE DEF NotAskedWhileAnswered
<1>1. ASSUME UNCHANGED <<tombstone, parked>>, "child" \in card' => "child" \in card
      PROVE  NotAskedWhileAnswered'
  BY <1>1
<1>2. ASSUME NEW w \in Waits, TakeTombstone(w) PROVE NotAskedWhileAnswered'
  BY <1>2 DEF TakeTombstone
<1>3. ASSUME NEW w \in Waits, Park(w) PROVE NotAskedWhileAnswered'
  BY <1>3 DEF Park, Kept
<1>4. ASSUME NEW w \in Waits, Unpark(w) PROVE NotAskedWhileAnswered'
  <2>1. tombstone' = tombstone /\ parked' \in {parked, 0}
    BY <1>4 DEF Unpark
  <2>2. "child" \in card' => "child" \in card
    BY <1>4 DEF Unpark, PublishResolved
  <2> QED  BY <2>1, <2>2
<1>5. CASE Answer
  BY <1>5 DEF Answer, PublishResolved
<1>6. ASSUME NEW w \in Waits, \/ MirrorRequest(w) \/ MirrorClear(w) \/ GraceOver(w)
                             \/ AutoApproved(w) \/ EndOf(w)
      PROVE  NotAskedWhileAnswered'
  <2>1. UNCHANGED <<tombstone, parked>>
    BY <1>6 DEF MirrorRequest, MirrorClear, GraceOver, AutoApproved, EndOf
  <2>2. card' \subseteq card \cup {"parent"}
    BY <1>6
       DEF MirrorRequest, MirrorClear, GraceOver, AutoApproved, EndOf, PublishRequest,
           PublishResolved
  <2> QED  BY <1>1, <2>1, <2>2
<1>7. CASE MirrorResolved
  BY <1>1, <1>7 DEF MirrorResolved, PublishResolved
<1>8. CASE ToolResult \/ GiveUp \/ AnsweredInTerminal
  BY <1>1, <1>8 DEF ToolResult, GiveUp, AnsweredInTerminal, server
<1>9. ASSUME NEW w \in Waits, Post(w) \/ Sever(w) \/ Reply(w) PROVE NotAskedWhileAnswered'
  BY <1>1, <1>9 DEF Post, Sever, Reply
<1>10. ASSUME NEW h \in Handlers, NotifierStep(h) PROVE NotAskedWhileAnswered'
  BY <1>1, <1>10 DEF NotifierStep, server
<1>11. CASE UNCHANGED vars
  BY <1>1, <1>11 DEF vars, server
<1> QED
  BY <1>2, <1>3, <1>4, <1>5, <1>6, <1>7, <1>8, <1>9, <1>10, <1>11
     DEF Next, WaitStep, WaitEnds, TimesOut

LEMMA AlwaysKept == Spec => [](Core /\ NotAskedWhileAnswered)
<1>1. Init => NotAskedWhileAnswered
  BY DEF Init, NotAskedWhileAnswered
<1> QED  BY AlwaysCore, <1>1, KeptInductive, PTL DEF Core, Spec

\* Nobody is asked for an approval whose verdict was given between two posts and is
\* kept for the next one, for any number of posts, severed waits and verdicts.
THEOREM VerdictSilencesPrompt == Spec => []NotAskedWhileAnswered
BY AlwaysKept, PTL

LEMMA OwnerStep ==
    Core /\ NotAskedWhileAnswered /\ [Next]_vars
        => [\A w \in Waits :
              (parked = w /\ parked' = 0) => wait'[w].at \notin {"mirroring", "waiting"}]_vars
<1> SUFFICES ASSUME Core, NotAskedWhileAnswered, [Next]_vars,
                    NEW w \in Waits, parked = w, parked' = 0
             PROVE  wait'[w].at \notin {"mirroring", "waiting"}
  OBVIOUS
<1>0. Shape /\ parked # 0 /\ parked' # parked
  BY PostsAssumption DEF Core, Waits
<1>1. ASSUME NEW v \in Waits, TakeTombstone(v) PROVE FALSE
  BY <1>0, <1>1 DEF TakeTombstone, Kept, NotAskedWhileAnswered
<1>2. ASSUME NEW v \in Waits, Park(v) PROVE FALSE
  BY <1>2, PostsAssumption DEF Park, Waits
<1>3. ASSUME NEW v \in Waits, Unpark(v) PROVE wait'[w].at \notin {"mirroring", "waiting"}
  <2>1. v = w
    BY <1>0, <1>3 DEF Unpark, Own
  <2>2. wait' = [wait EXCEPT ![w] = Unwound(w, "mirrorClear")]
          \/ wait' = [wait EXCEPT ![w] = Unwound(w, "ended")]
    BY <1>3, <2>1 DEF Unpark
  <2>3. wait'[w] = Unwound(w, "mirrorClear") \/ wait'[w] = Unwound(w, "ended")
    BY <1>0, <2>2 DEF Shape
  <2>4. /\ Unwound(w, "mirrorClear").at = "mirrorClear"
        /\ Unwound(w, "ended").at = "ended"
    BY <1>0 DEF Unwound, Shape, WaitRecord
  <2> QED  BY <2>3, <2>4
<1>4. ASSUME parked' = parked PROVE FALSE
  BY <1>0, <1>4
<1>5. ASSUME NEW v \in Waits, \/ MirrorRequest(v) \/ MirrorClear(v) \/ GraceOver(v)
                             \/ AutoApproved(v) \/ EndOf(v) \/ Post(v) \/ Sever(v) \/ Reply(v)
      PROVE  FALSE
  BY <1>4, <1>5 DEF MirrorRequest, MirrorClear, GraceOver, AutoApproved, EndOf, Post, Sever, Reply
<1>6. CASE Answer \/ MirrorResolved \/ ToolResult \/ GiveUp \/ AnsweredInTerminal
  BY <1>4, <1>6 DEF Answer, MirrorResolved, ToolResult, GiveUp, AnsweredInTerminal, server
<1>7. ASSUME NEW h \in Handlers, NotifierStep(h) PROVE FALSE
  BY <1>4, <1>7 DEF NotifierStep, server
<1>8. CASE UNCHANGED vars
  BY <1>4, <1>8 DEF vars, server
<1> QED
  BY <1>1, <1>2, <1>3, <1>5, <1>6, <1>7, <1>8 DEF Next, WaitStep, WaitEnds, TimesOut

\* A wait that is still waiting stays the one an answer reaches until another post
\* parks, however many waits of the prompt unwind around it.
THEOREM OwnerAloneUnparks == Spec => OnlyOwnerUnparks
BY AlwaysKept, OwnerStep, PTL DEF Spec, OnlyOwnerUnparks

\* A harness that was answered in its terminal holds no poll any more.
PollsCut == hook = "killed" => \A w \in Waits : ~wait[w].open

\* Nobody has answered yet; a wait has nothing to settle on, and shows its card if
\* an answer would reach it.
NoAnswer == answers = 0 /\ hook # "killed"
Waiting(w) == wait[w].at \in {"mirroring", "waiting"}
Shown(w) == parked = w /\ Waiting(w) => "child" \in card
Unsettled(w) ==
    /\ ~wait[w].future /\ ~wait[w].elsewhere
    /\ wait[w].taken => wait[w].at = "ended"

AllShown == ~tombstone /\ \A w \in Waits : Unsettled(w) /\ Shown(w)
Unanswered == NoAnswer => AllShown

LEMMA CutInductive == Shape /\ PollsCut /\ [Next]_vars => PollsCut'
<1> SUFFICES ASSUME Shape, PollsCut, [Next]_vars PROVE PollsCut'
  OBVIOUS
<1>0. wait \in [Waits -> WaitRecord]
  BY DEF Shape
<1> USE DEF PollsCut
<1>1. ASSUME hook' = hook, \A w \in Waits : wait'[w].open => wait[w].open PROVE PollsCut'
  BY <1>1
<1>2. ASSUME NEW w \in Waits, Post(w) \/ Sever(w) \/ Reply(w) PROVE PollsCut'
  BY <1>0, <1>2 DEF Post, Sever, Reply
<1>3. CASE AnsweredInTerminal
  BY <1>0, <1>3 DEF AnsweredInTerminal, WaitRecord
<1>4. CASE GiveUp
  BY <1>4 DEF GiveUp
<1>5. ASSUME NEW w \in Waits, \/ AutoApproved(w) \/ TakeTombstone(w) \/ Park(w)
                             \/ MirrorRequest(w) \/ EndOf(w) \/ MirrorClear(w)
      PROVE  PollsCut'
  <2>1. \A v \in Waits : wait'[v].open = wait[v].open
    BY <1>0, <1>5
       DEF AutoApproved, TakeTombstone, Park, MirrorRequest, EndOf, MirrorClear, WaitRecord
  <2> QED
    BY <1>1, <1>5, <2>1 DEF AutoApproved, TakeTombstone, Park, MirrorRequest, EndOf, MirrorClear
<1>6. ASSUME NEW w \in Waits, Unpark(w) PROVE PollsCut'
  <2>1. \A v \in Waits : wait'[v].open = wait[v].open
    <3>1. /\ Unwound(w, "mirrorClear").open = wait[w].open
          /\ Unwound(w, "ended").open = wait[w].open
      BY <1>0 DEF Unwound, WaitRecord
    <3>2. /\ wait'[w] = Unwound(w, "mirrorClear") \/ wait'[w] = Unwound(w, "ended")
          /\ \A v \in Waits \ {w} : wait'[v] = wait[v]
      BY <1>0, <1>6 DEF Unpark
    <3> QED  BY <3>1, <3>2
  <2> QED  BY <1>1, <1>6, <2>1 DEF Unpark
<1>7. ASSUME NEW w \in Waits, GraceOver(w) PROVE PollsCut'
  BY <1>1, <1>7 DEF GraceOver
<1>8. CASE Answer \/ ToolResult
  <2>1. \A v \in Waits : wait'[v].open = wait[v].open
    BY <1>0, <1>8 DEF Answer, ToolResult, WaitRecord
  <2> QED  BY <1>1, <1>8, <2>1 DEF Answer, ToolResult
<1>9. CASE MirrorResolved
  BY <1>1, <1>9 DEF MirrorResolved
<1>10. ASSUME NEW h \in Handlers, NotifierStep(h) PROVE PollsCut'
  BY <1>1, <1>10 DEF NotifierStep, server
<1>11. CASE UNCHANGED vars
  BY <1>1, <1>11 DEF vars, server
<1> QED
  BY <1>2, <1>3, <1>4, <1>5, <1>6, <1>7, <1>8, <1>9, <1>10, <1>11
     DEF Next, WaitStep, WaitEnds, TimesOut

LEMMA UnansweredInductive == Shape /\ PollsCut /\ Unanswered /\ [Next]_vars => Unanswered'
<1> SUFFICES ASSUME Shape, PollsCut, Unanswered, [Next]_vars, NoAnswer' PROVE AllShown'
  BY DEF Unanswered
<1>0. answers \in Nat /\ wait \in [Waits -> WaitRecord] /\ 0 \notin Waits
  BY PostsAssumption DEF Shape, Waits
\* Whoever has answered stays so: an answer counts, and no poll follows a terminal's.
<1>1. NoAnswer
  <2>1. answers = 0
    <3>1. answers' = answers \/ answers' = answers + 1
      BY ZenonT(30) DEF Next, vars, Answer, GiveUp, AnsweredInTerminal, MirrorResolved,
             ToolResult, Post, Sever, Reply, WaitStep, WaitEnds, TimesOut, AutoApproved,
             TakeTombstone, Park, MirrorRequest, EndOf, Unpark, MirrorClear, GraceOver, NotifierStep
    <3> QED  BY <1>0, <3>1 DEF NoAnswer
  <2>2. ASSUME hook = "killed" PROVE FALSE
    <3>1. hook' # "killed" /\ \A w \in Waits : ~wait[w].open
      BY <2>2 DEF NoAnswer, PollsCut
    <3> QED
      BY ZenonT(30), <2>2, <3>1
         DEF Next, vars, Answer, GiveUp, AnsweredInTerminal, MirrorResolved, ToolResult,
             Post, Sever, Reply, WaitStep, WaitEnds, TimesOut, AutoApproved, TakeTombstone, Park,
             MirrorRequest, EndOf, Unpark, MirrorClear, GraceOver, NotifierStep
  <2> QED  BY <2>1, <2>2 DEF NoAnswer
<1>2. ~tombstone /\ \A w \in Waits : Unsettled(w) /\ Shown(w)
  BY <1>1 DEF Unanswered, AllShown
<1> USE DEF AllShown, Unsettled, Shown, Waiting
<1>3. ASSUME UNCHANGED <<wait, tombstone, parked>>, "child" \in card => "child" \in card' PROVE AllShown'
  BY <1>2, <1>3
\* A step of wait w leaves the others, and what they show, as they are.
<1>4. ASSUME NEW w \in Waits, \A v \in Waits \ {w} : wait'[v] = wait[v], ~tombstone',
             parked' \in {parked, w, 0}, "child" \in card => "child" \in card',
             Unsettled(w)' /\ Shown(w)'
      PROVE  AllShown'
  <2>1. ASSUME NEW v \in Waits \ {w} PROVE Unsettled(v)' /\ Shown(v)'
    BY <1>0, <1>2, <1>4, <2>1
  <2> QED  BY <1>4, <2>1
<1>5. ASSUME NEW w \in Waits, Post(w) \/ Sever(w) \/ Reply(w) PROVE AllShown'
  <2>1. /\ UNCHANGED <<tombstone, parked, card>> /\ \A v \in Waits \ {w} : wait'[v] = wait[v]
        /\ wait'[w].future = wait[w].future /\ wait'[w].elsewhere = wait[w].elsewhere
        /\ wait'[w].taken = wait[w].taken
        /\ wait'[w].at = wait[w].at \/ (wait[w].at = "none" /\ wait'[w].at = "checking")
    BY <1>0, <1>5 DEF Post, Sever, Reply, WaitRecord
  <2>2. Unsettled(w)' /\ Shown(w)'
    BY <1>2, <2>1
  <2> QED  BY <1>2, <1>4, <2>1, <2>2
<1>6. ASSUME NEW w \in Waits, AutoApproved(w) PROVE AllShown'
  <2>1. /\ wait'[w] = [wait[w] EXCEPT !.at = "ended", !.taken = TRUE]
        /\ \A v \in Waits \ {w} : wait'[v] = wait[v]
    BY <1>0, <1>6 DEF AutoApproved, WaitRecord
  <2>2. Unsettled(w)' /\ Shown(w)'
    BY <1>0, <1>2, <2>1 DEF WaitRecord
  <2> QED  BY <1>2, <1>4, <1>6, <2>1, <2>2 DEF AutoApproved
<1>7. ASSUME NEW w \in Waits, TakeTombstone(w) PROVE AllShown'
  BY <1>2, <1>7 DEF TakeTombstone, Kept
<1>8. ASSUME NEW w \in Waits, Park(w) PROVE AllShown'
  <2>1. /\ wait'[w] = [wait[w] EXCEPT !.at = "mirroring", !.published = TRUE]
        /\ \A v \in Waits \ {w} : wait'[v] = wait[v]
    BY <1>0, <1>8 DEF Park, WaitRecord
  <2>2. "child" \in card' /\ wait[w].at = "checking"
    BY <1>8 DEF Park, PublishRequest
  <2>3. Unsettled(w)' /\ Shown(w)'
    BY <1>0, <1>2, <2>1, <2>2 DEF WaitRecord
  <2> QED  BY <1>2, <1>4, <1>8, <2>1, <2>2, <2>3 DEF Park
<1>9. ASSUME NEW w \in Waits, MirrorRequest(w) PROVE AllShown'
  <2>1. /\ wait'[w] = [wait[w] EXCEPT !.at = "waiting"] /\ wait[w].at = "mirroring"
        /\ \A v \in Waits \ {w} : wait'[v] = wait[v]
    BY <1>0, <1>9 DEF MirrorRequest, WaitRecord
  <2>2. card \subseteq card' /\ parked' = parked
    BY <1>9 DEF MirrorRequest, PublishRequest
  <2>3. Unsettled(w)' /\ Shown(w)'
    BY <1>0, <1>2, <2>1, <2>2 DEF WaitRecord
  <2> QED  BY <1>2, <1>4, <1>9, <2>1, <2>2, <2>3 DEF MirrorRequest
<1>10. ASSUME NEW w \in Waits, EndOf(w) PROVE AllShown'
  <2>1. /\ wait'[w] = [wait[w] EXCEPT !.at = "reaping", !.taken = wait[w].future]
        /\ \A v \in Waits \ {w} : wait'[v] = wait[v]
    BY <1>0, <1>10 DEF EndOf, WaitRecord
  <2>2. Unsettled(w)' /\ Shown(w)'
    BY <1>0, <1>2, <2>1 DEF WaitRecord
  <2> QED  BY <1>2, <1>4, <1>10, <2>1, <2>2 DEF EndOf
<1>11. ASSUME NEW w \in Waits, Unpark(w) PROVE AllShown'
  <2>1. ~Settled(w)
    BY <1>2, <1>11 DEF Settled, Unpark
  <2>2. wait'[w] = Unwound(w, "ended") /\ \A v \in Waits \ {w} : wait'[v] = wait[v]
    BY <1>0, <1>11, <2>1 DEF Unpark
  <2>3. parked' \in {parked, 0} /\ UNCHANGED <<card, tombstone>>
    BY <1>11, <2>1 DEF Unpark
  <2>4. Unsettled(w)' /\ Shown(w)'
    BY <1>0, <2>2 DEF Unwound, WaitRecord
  <2> QED  BY <1>2, <1>4, <2>2, <2>3, <2>4
<1>12. ASSUME NEW w \in Waits, MirrorClear(w) PROVE AllShown'
  <2>1. /\ wait'[w] = [wait[w] EXCEPT !.at = "ended"]
        /\ \A v \in Waits \ {w} : wait'[v] = wait[v]
    BY <1>0, <1>12 DEF MirrorClear, WaitRecord
  <2>2. "child" \in card => "child" \in card'
    BY <1>12 DEF MirrorClear, PublishResolved
  <2>3. Unsettled(w)' /\ Shown(w)'
    BY <1>0, <1>2, <2>1 DEF WaitRecord
  <2> QED  BY <1>2, <1>4, <1>12, <2>1, <2>2, <2>3 DEF MirrorClear
<1>13. ASSUME NEW w \in Waits, GraceOver(w) PROVE AllShown'
  <2>1. CASE ClearDue
    BY <1>0, <1>2, <1>13, <2>1 DEF GraceOver, ClearDue, Reparked
  <2>2. CASE ~ClearDue
    BY <1>3, <1>13, <2>2 DEF GraceOver
  <2> QED  BY <2>1, <2>2
<1>14. CASE Answer
  BY <1>0, <1>1, <1>14 DEF Answer, NoAnswer
<1>15. CASE MirrorResolved
  BY <1>3, <1>15 DEF MirrorResolved, PublishResolved
<1>16. CASE ToolResult \/ AnsweredInTerminal
  BY <1>16 DEF ToolResult, AnsweredInTerminal, NoAnswer
<1>17. CASE GiveUp
  BY <1>3, <1>17 DEF GiveUp, server
<1>18. ASSUME NEW h \in Handlers, NotifierStep(h) PROVE AllShown'
  BY <1>3, <1>18 DEF NotifierStep, server
<1>19. CASE UNCHANGED vars
  BY <1>3, <1>19 DEF vars, server
<1> HIDE DEF AllShown, Unsettled, Shown, Waiting
<1> QED
  BY <1>5, <1>6, <1>7, <1>8, <1>9, <1>10, <1>11, <1>12, <1>13, <1>14, <1>15, <1>16, <1>17, <1>18,
     <1>19
     DEF Next, WaitStep, WaitEnds, TimesOut

\* As long as nobody has answered, a prompt that is parked shows its card, whatever
\* severed waits of earlier posts, for any number of them, have still to clear.
THEOREM PromptStaysVisible == Spec => []UnansweredKeepsItsCard
<1>1. Init => PollsCut /\ Unanswered
  BY DEF Init, PollsCut, Unanswered, AllShown, Unsettled, Shown, Waiting, Unposted
<1>2. Core /\ PollsCut /\ Unanswered /\ [Next]_vars => PollsCut' /\ Unanswered'
  BY CutInductive, UnansweredInductive DEF Core
<1>3. Unanswered => UnansweredKeepsItsCard
  BY DEF Unanswered, AllShown, NoAnswer, Shown, Waiting, UnansweredKeepsItsCard
<1> QED  BY AlwaysCore, <1>1, <1>2, <1>3, PTL DEF Spec
-----------------------------------------------------------------------------
(* The parent's wakes *)

\* The id is armed only while some session shows the card.
ArmShown == armed => card # {}

\* What a step of the server does to the arm, the cards and the handlers.
ServerStep ==
    \/ GiveUp \/ AnsweredInTerminal \/ Answer \/ MirrorResolved \/ ToolResult
    \/ \E w \in Waits : Post(w) \/ Sever(w) \/ Reply(w) \/ WaitStep(w) \/ TimesOut(w)

LEMMA ServerObserved ==
    ASSUME ServerStep
    PROVE  \/ UNCHANGED <<card, notifier>>
           \/ \E s \in Sessions : PublishRequest(s)
           \/ \E s \in Sessions : PublishResolved(s)
<1>0. "child" \in Sessions /\ "parent" \in Sessions
  BY DEF Sessions
<1>1. CASE GiveUp \/ AnsweredInTerminal \/ ToolResult
  BY <1>1 DEF GiveUp, AnsweredInTerminal, ToolResult, server
<1>2. CASE Answer \/ MirrorResolved
  BY <1>0, <1>2 DEF Answer, MirrorResolved
<1>3. ASSUME NEW w \in Waits, Post(w) \/ Sever(w) \/ Reply(w)
      PROVE  UNCHANGED <<card, notifier>>
  BY <1>3 DEF Post, Sever, Reply
<1>4. ASSUME NEW w \in Waits, AutoApproved(w) \/ TakeTombstone(w) \/ EndOf(w)
      PROVE  UNCHANGED <<card, notifier>>
  BY <1>4 DEF AutoApproved, TakeTombstone, EndOf
<1>5. ASSUME NEW w \in Waits, Park(w) \/ MirrorRequest(w)
      PROVE  \E s \in Sessions : PublishRequest(s)
  BY <1>0, <1>5 DEF Park, MirrorRequest
<1>6. ASSUME NEW w \in Waits, Unpark(w) \/ MirrorClear(w) \/ GraceOver(w)
      PROVE  \/ UNCHANGED <<card, notifier>>
             \/ \E s \in Sessions : PublishResolved(s)
  BY <1>0, <1>6 DEF Unpark, MirrorClear, GraceOver
<1> QED
  BY <1>1, <1>2, <1>3, <1>4, <1>5, <1>6 DEF ServerStep, WaitStep, WaitEnds, TimesOut

LEMMA NextIsServerOrHandler ==
    Next => ServerStep \/ \E h \in Handlers : NotifierStep(h)
BY DEF Next, ServerStep

LEMMA ArmInductive == ArmShown /\ [Next]_vars => ArmShown'
<1> SUFFICES ASSUME ArmShown, [Next]_vars PROVE ArmShown'
  OBVIOUS
<1>1. ASSUME UNCHANGED <<card, notifier>> PROVE ArmShown'
  BY <1>1 DEF ArmShown, notifier
<1>2. ASSUME NEW s \in Sessions, PublishRequest(s) PROVE ArmShown'
  BY <1>2 DEF ArmShown, PublishRequest
<1>3. ASSUME NEW s \in Sessions, PublishResolved(s) PROVE ArmShown'
  BY <1>3 DEF ArmShown, PublishResolved, ObserveResolved
<1>4. ASSUME NEW h \in Handlers, NotifierStep(h) PROVE ArmShown'
  <2>1. card' = card /\ (armed' = armed \/ armed' = FALSE)
    BY <1>4
       DEF NotifierStep, server, HandlerStep, GraceEnds, LookedUp, Attempt, Woken, WakeFails,
           ArmAfterFailure, Signalled, NoticeEnds
  <2> QED  BY <2>1 DEF ArmShown
<1>5. CASE UNCHANGED vars
  BY <1>1, <1>5 DEF vars, server
<1> QED  BY <1>1, <1>2, <1>3, <1>4, <1>5, ServerObserved, NextIsServerOrHandler

LEMMA WakeStep ==
    Core /\ ArmShown /\ [Next]_vars
        => [\A h \in Handlers : (handler[h] # "waking" /\ handler'[h] = "waking") => card # {}]_vars
<1> SUFFICES ASSUME Core, ArmShown, [Next]_vars,
                    NEW h \in Handlers, handler[h] # "waking", handler'[h] = "waking"
             PROVE  card # {}
  OBVIOUS
<1>0. \E S : handler \in [Handlers -> S]
  BY DEF Core, Shape, NotifierTypeOK
<1>1. ASSUME UNCHANGED notifier PROVE FALSE
  BY <1>1 DEF notifier
<1>2. ASSUME NEW s \in Sessions, PublishRequest(s) PROVE FALSE
  <2>1. handler' = handler \/ handler' = [handler EXCEPT ![NextHandler] = "grace"]
    BY <1>2 DEF PublishRequest, ObserveRequest, notifier
  <2>2. handler'[h] = handler[h] \/ handler'[h] = "grace"
    BY <1>0, <2>1
  <2> QED  BY <2>2
<1>3. ASSUME NEW s \in Sessions, PublishResolved(s) PROVE FALSE
  BY <1>3 DEF PublishResolved, ObserveResolved
<1>4. ASSUME NEW g \in Handlers, HandlerStep(g) PROVE armed
  <2>1. g = h
    BY <1>0, <1>4
       DEF HandlerStep, GraceEnds, LookedUp, Attempt, Woken, WakeFails, Signalled, NoticeEnds,
           At, Ends
  <2> QED
    BY <1>0, <1>4, <2>1
       DEF HandlerStep, GraceEnds, LookedUp, Attempt, StillBlocked, Woken, WakeFails, Signalled,
           NoticeEnds, At, Ends
<1>5. CASE UNCHANGED vars
  BY <1>1, <1>5 DEF vars
<1> QED
  BY <1>1, <1>2, <1>3, <1>4, <1>5, ServerObserved, NextIsServerOrHandler DEF ArmShown, NotifierStep

\* The parent is never woken for a prompt that shows nowhere any more, for any number
\* of handlers, posts and retries: every attempt to deliver a block notice begins
\* while a card is up, though the handler looks at the arm only and never at a card.
THEOREM NoWakeWithoutCard == Spec => WakesOnlyForACard
<1>1. Init => ArmShown
  BY DEF Init, NotifierInit, ArmShown
<1> QED  BY AlwaysCore, <1>1, ArmInductive, WakeStep, PTL DEF Spec, WakesOnlyForACard

-----------------------------------------------------------------------------
(* The cards of a prompt *)

\* A wait that will yet clear its own card, or schedule the clear of it.
AtWork == {"mirroring", "waiting", "reaping"}
SomeoneAtWork == \E w \in Waits : wait[w].at \in AtWork

\* Whoever is parked is at work, and each card that is up has somebody to clear it:
\* a wait, a deferred clear or, for the ancestor's, a thread under way.
CardOwed ==
    /\ parked # 0 => wait[parked].at \in AtWork
    /\ "child" \in card => SomeoneAtWork \/ grace # {}
    /\ "parent" \in card =>
         \/ SomeoneAtWork \/ grace # {} \/ clearing > 0
         \/ \E w \in Waits : wait[w].at = "mirrorClear"

\* The hook holds one poll at a time, and none once it has ended.
OnePoll == \A v, w \in Waits : wait[v].open => hook = "held" /\ (wait[w].open => v = w)

LEMMA OwedInductive == Shape /\ CardOwed /\ [Next]_vars => CardOwed'
<1> SUFFICES ASSUME Shape, CardOwed, [Next]_vars PROVE CardOwed'
  OBVIOUS
<1>0. /\ wait \in [Waits -> WaitRecord] /\ 0 \notin Waits /\ parked \in Waits \cup {0}
      /\ clearing \in Nat
  BY PostsAssumption DEF Shape, Waits
<1> USE DEF CardOwed, SomeoneAtWork, AtWork
\* Nobody stops work, and the cards stay as they are.
<1>1. ASSUME UNCHANGED <<card, grace, clearing>>, parked' \in {parked, 0},
             \A v \in Waits : wait[v].at \in AtWork => wait'[v].at \in AtWork,
             \A v \in Waits : wait[v].at = "mirrorClear" => wait'[v].at = "mirrorClear"
      PROVE  CardOwed'
  <2>1. parked' # 0 => wait'[parked'].at \in AtWork
    BY <1>0, <1>1
  <2>2. SomeoneAtWork => SomeoneAtWork'
    BY <1>1
  <2>3. (\E v \in Waits : wait[v].at = "mirrorClear") => \E v \in Waits : wait'[v].at = "mirrorClear"
    BY <1>1
  <2> HIDE DEF SomeoneAtWork
  <2> QED  BY <1>1, <2>1, <2>2, <2>3
<1>2. ASSUME UNCHANGED <<card, grace, clearing, parked, wait>> PROVE CardOwed'
  BY <1>1, <1>2
<1>3. ASSUME NEW w \in Waits, Post(w) \/ Sever(w) \/ Reply(w) \/ AutoApproved(w)
                             \/ TakeTombstone(w) \/ EndOf(w)
      PROVE  CardOwed'
  <2>1. \A v \in Waits : \/ wait'[v].at = wait[v].at
                         \/ wait[v].at \in {"none", "checking"}
                         \/ wait[v].at = "waiting" /\ wait'[v].at = "reaping"
    BY <1>0, <1>3 DEF Post, Sever, Reply, AutoApproved, TakeTombstone, EndOf, WaitRecord
  <2>2. UNCHANGED <<card, grace, clearing>> /\ parked' \in {parked, 0}
    BY <1>3 DEF Post, Sever, Reply, AutoApproved, TakeTombstone, EndOf
  <2> QED  BY <1>1, <2>1, <2>2
<1>4. ASSUME NEW w \in Waits, Park(w) PROVE CardOwed'
  <2>1. wait'[w].at = "mirroring" /\ parked' = w
    BY <1>0, <1>4 DEF Park, WaitRecord
  <2> QED  BY <2>1
<1>5. ASSUME NEW w \in Waits, MirrorRequest(w) PROVE CardOwed'
  <2>1. /\ wait'[w].at = "waiting" /\ parked' = parked
        /\ \A v \in Waits \ {w} : wait'[v] = wait[v]
    BY <1>0, <1>5 DEF MirrorRequest, WaitRecord
  <2> QED  BY <1>0, <2>1
<1>6. ASSUME NEW w \in Waits, Unpark(w) PROVE CardOwed'
  <2>1. /\ parked' = 0 \/ (parked' = parked /\ parked # w)
        /\ \A v \in Waits \ {w} : wait'[v] = wait[v]
    BY <1>0, <1>6 DEF Unpark, Own
  <2>2. parked' # 0 => wait'[parked'].at \in AtWork
    BY <1>0, <2>1
  <2>3. CASE Settled(w)
    <3>1. card' = card \ {"child"}
      BY <1>6, <2>3 DEF Unpark, PublishResolved
    <3>2. wait'[w].at = "mirrorClear"
      <4>1. wait'[w] = Unwound(w, "mirrorClear")
        BY <1>0, <1>6, <2>3 DEF Unpark
      <4>2. Unwound(w, "mirrorClear").at = "mirrorClear"
        BY <1>0 DEF Unwound, WaitRecord
      <4> QED  BY <4>1, <4>2
    <3> QED  BY <2>2, <3>1, <3>2
  <2>4. CASE ~Settled(w)
    BY <1>6, <2>2, <2>4 DEF Unpark
  <2> QED  BY <2>3, <2>4
<1>7. ASSUME NEW w \in Waits, MirrorClear(w) PROVE CardOwed'
  <2>1. /\ wait[w].at = "mirrorClear" /\ UNCHANGED <<parked, grace>>
        /\ \A v \in Waits \ {w} : wait'[v] = wait[v]
    BY <1>0, <1>7 DEF MirrorClear
  <2>2. card' = card \ {"parent"}
    BY <1>7 DEF MirrorClear, PublishResolved
  <2> QED  BY <1>0, <2>1, <2>2
<1>8. ASSUME NEW w \in Waits, GraceOver(w) PROVE CardOwed'
  <2>1. CASE ClearDue
    <3>1. card' = card \ {"child"} /\ clearing' = clearing + 1 /\ UNCHANGED <<wait, parked>>
      BY <1>8, <2>1 DEF GraceOver, PublishResolved
    <3> QED  BY <1>0, <3>1
  <2>2. CASE ~ClearDue
    <3>1. parked # 0 /\ UNCHANGED <<wait, parked>>
      BY <1>8, <2>2 DEF GraceOver, ClearDue, Reparked
    <3> QED  BY <1>0, <3>1
  <2> QED  BY <2>1, <2>2
<1>9. CASE Answer \/ ToolResult \/ AnsweredInTerminal
  <2>1. \A v \in Waits : wait'[v].at = wait[v].at
    BY <1>0, <1>9 DEF Answer, ToolResult, AnsweredInTerminal, WaitRecord
  <2>2. CASE Answer
    <3>1. card' = card \ {"child"} /\ clearing' = clearing + 1 /\ parked' = parked
      BY <2>2 DEF Answer, PublishResolved
    <3> QED  BY <1>0, <2>1, <3>1
  <2>3. CASE ToolResult \/ AnsweredInTerminal
    BY <1>1, <2>1, <2>3 DEF ToolResult, AnsweredInTerminal
  <2> QED  BY <1>9, <2>2, <2>3
<1>10. CASE MirrorResolved
  BY <1>0, <1>10 DEF MirrorResolved, PublishResolved
<1>11. CASE GiveUp
  BY <1>2, <1>11 DEF GiveUp, server
<1>12. ASSUME NEW h \in Handlers, NotifierStep(h) PROVE CardOwed'
  BY <1>2, <1>12 DEF NotifierStep, server
<1>13. CASE UNCHANGED vars
  BY <1>2, <1>13 DEF vars, server
<1> HIDE DEF CardOwed, SomeoneAtWork, AtWork
<1> QED
  BY <1>3, <1>4, <1>5, <1>6, <1>7, <1>8, <1>9, <1>10, <1>11, <1>12, <1>13
     DEF Next, WaitStep, WaitEnds, TimesOut

LEMMA OnePollInductive == Shape /\ OnePoll /\ [Next]_vars => OnePoll'
<1> SUFFICES ASSUME Shape, OnePoll, [Next]_vars PROVE OnePoll'
  OBVIOUS
<1>0. wait \in [Waits -> WaitRecord]
  BY DEF Shape
<1> USE DEF OnePoll
<1>1. ASSUME hook' = hook, \A w \in Waits : wait'[w].open = wait[w].open PROVE OnePoll'
  BY <1>1
<1>2. ASSUME NEW w \in Waits, Post(w) PROVE OnePoll'
  <2>1. /\ hook' = "held" /\ \A v \in Waits : ~wait[v].open
        /\ \A v \in Waits \ {w} : wait'[v] = wait[v]
    BY <1>0, <1>2 DEF Post
  <2> QED  BY <2>1
<1>3. ASSUME NEW w \in Waits, Sever(w) \/ Reply(w) PROVE OnePoll'
  <2>1. \A v \in Waits \ {w} : wait'[v] = wait[v] /\ ~wait[v].open
    BY <1>0, <1>3 DEF Sever, Reply
  <2>2. ~wait'[w].open
    BY <1>0, <1>3 DEF Sever, Reply, WaitRecord
  <2> QED  BY <2>1, <2>2
<1>4. CASE AnsweredInTerminal
  BY <1>0, <1>4 DEF AnsweredInTerminal, WaitRecord
<1>5. CASE GiveUp
  BY <1>5 DEF GiveUp, server
<1>6. ASSUME NEW w \in Waits, \/ AutoApproved(w) \/ TakeTombstone(w) \/ Park(w)
                             \/ MirrorRequest(w) \/ EndOf(w) \/ MirrorClear(w)
      PROVE  OnePoll'
  <2>1. \A v \in Waits : wait'[v].open = wait[v].open
    BY <1>0, <1>6
       DEF AutoApproved, TakeTombstone, Park, MirrorRequest, EndOf, MirrorClear, WaitRecord
  <2> QED
    BY <1>1, <1>6, <2>1 DEF AutoApproved, TakeTombstone, Park, MirrorRequest, EndOf, MirrorClear
<1>7. ASSUME NEW w \in Waits, Unpark(w) PROVE OnePoll'
  <2>1. /\ Unwound(w, "mirrorClear").open = wait[w].open
        /\ Unwound(w, "ended").open = wait[w].open
    BY <1>0 DEF Unwound, WaitRecord
  <2>2. /\ wait'[w] = Unwound(w, "mirrorClear") \/ wait'[w] = Unwound(w, "ended")
        /\ \A v \in Waits \ {w} : wait'[v] = wait[v]
    BY <1>0, <1>7 DEF Unpark
  <2> QED  BY <1>1, <1>7, <2>1, <2>2 DEF Unpark
<1>8. ASSUME NEW w \in Waits, GraceOver(w) PROVE OnePoll'
  BY <1>1, <1>8 DEF GraceOver
<1>9. CASE Answer \/ ToolResult
  <2>1. \A v \in Waits : wait'[v].open = wait[v].open
    BY <1>0, <1>9 DEF Answer, ToolResult, WaitRecord
  <2> QED  BY <1>1, <1>9, <2>1 DEF Answer, ToolResult
<1>10. CASE MirrorResolved
  BY <1>1, <1>10 DEF MirrorResolved
<1>11. ASSUME NEW h \in Handlers, NotifierStep(h) PROVE OnePoll'
  BY <1>1, <1>11 DEF NotifierStep, server
<1>12. CASE UNCHANGED vars
  BY <1>1, <1>12 DEF vars, server
<1> QED
  BY <1>2, <1>3, <1>4, <1>5, <1>6, <1>7, <1>8, <1>9, <1>10, <1>11, <1>12
     DEF Next, WaitStep, WaitEnds, TimesOut

\* While a card is up somebody is to clear it: a wait that has not unwound, a
\* deferred clear or a mirroring thread; and a wait whose hook has ended, or posts
\* anew, has lost its poll, which ends it.
ClearAhead ==
    /\ card # {} =>
         \/ grace # {} \/ clearing > 0
         \/ \E w \in Waits : wait[w].at \in AtWork \cup {"mirrorClear"}
    /\ hook # "held" => \A w \in Waits : ~wait[w].open

\* No interleaving of posts, verdicts, timeouts and severed polls leaves a card up
\* that nothing in the server is going to clear: what CardsClear asks, but for the
\* fairness that makes those tasks run.
THEOREM NoCardIsOrphaned == Spec => []ClearAhead
<1>1. Init => CardOwed /\ OnePoll
  BY DEF Init, CardOwed, OnePoll, Unposted
<1>2. Core /\ CardOwed /\ OnePoll /\ [Next]_vars => CardOwed' /\ OnePoll'
  BY OwedInductive, OnePollInductive DEF Core
<1>3. Core /\ CardOwed /\ OnePoll => ClearAhead
  BY DEF Core, Shape, Sessions, CardOwed, SomeoneAtWork, OnePoll, ClearAhead
<1> QED  BY AlwaysCore, <1>1, <1>2, <1>3, PTL DEF Spec

-----------------------------------------------------------------------------
(* The handler of a block *)

\* Waits that have put the card up, and handlers that have started: in their order,
\* and no more of them than there were requests of the sub-agent's session.
Published == {w \in Waits : wait[w].published}
Started == {h \in Handlers : handler[h] # "unused"}
StartedInOrder ==
    /\ \E k \in 0..Cardinality(Published) : Started = 1..k
    /\ \A w \in Waits : wait[w].at \in {"none", "checking"} => ~wait[w].published

\* A block its own session armed and the parent has not heard of has a handler that
\* will bring it there or release it.
BlockHeld ==
    (armed /\ armedBy = "child" /\ ~woken)
        => \E h \in Handlers : handler[h] \in {"grace", "lookup", "waking", "backoff"}

\* A wait is published once, when it parks.
LEMMA NextPublishes ==
    ASSUME Shape, StartedInOrder, [Next]_vars
    PROVE  \/ \E w \in Waits : Park(w)
           \/ \A w \in Waits :
                 /\ wait'[w].published = wait[w].published
                 /\ wait'[w].at \in {"none", "checking"} => wait[w].at \in {"none", "checking"}
<1>0. wait \in [Waits -> WaitRecord] /\ parked \in Waits \cup {0}
  BY DEF Shape
<1> DEFINE Same == \A w \in Waits :
               /\ wait'[w].published = wait[w].published
               /\ wait'[w].at \in {"none", "checking"} => wait[w].at \in {"none", "checking"}
<1>1. ASSUME wait' = wait PROVE Same
  BY <1>1
<1>2. ASSUME NEW w \in Waits, \/ Post(w) \/ Sever(w) \/ Reply(w) \/ AutoApproved(w)
                             \/ TakeTombstone(w) \/ MirrorRequest(w) \/ EndOf(w) \/ MirrorClear(w)
      PROVE  Same
  <2>1. \A v \in Waits \ {w} : wait'[v] = wait[v]
    BY <1>0, <1>2
       DEF Post, Sever, Reply, AutoApproved, TakeTombstone, MirrorRequest, EndOf, MirrorClear
  <2>2. /\ wait'[w].published = wait[w].published
        /\ wait'[w].at \in {"none", "checking"} => wait[w].at \in {"none", "checking"}
    BY <1>0, <1>2
       DEF Post, Sever, Reply, AutoApproved, TakeTombstone, MirrorRequest, EndOf, MirrorClear,
           WaitRecord
  <2> QED  BY <2>1, <2>2
<1>3. ASSUME NEW w \in Waits, Unpark(w) PROVE Same
  <2>1. \A a \in {"mirrorClear", "ended"} :
            Unwound(w, a).published = wait[w].published /\ Unwound(w, a).at = a
    BY <1>0 DEF Unwound, WaitRecord
  <2>2. /\ wait'[w] = Unwound(w, "mirrorClear") \/ wait'[w] = Unwound(w, "ended")
        /\ \A v \in Waits \ {w} : wait'[v] = wait[v]
    BY <1>0, <1>3 DEF Unpark
  <2> QED  BY <2>1, <2>2
<1>4. ASSUME NEW w \in Waits, GraceOver(w) PROVE Same
  BY <1>1, <1>4 DEF GraceOver
<1>5. ASSUME Answer \/ ToolResult \/ AnsweredInTerminal PROVE Same
  BY <1>0, <1>5 DEF Answer, ToolResult, AnsweredInTerminal, WaitRecord
<1>6. ASSUME MirrorResolved \/ GiveUp PROVE Same
  BY <1>1, <1>6 DEF MirrorResolved, GiveUp, server
<1>7. ASSUME NEW h \in Handlers, NotifierStep(h) PROVE Same
  BY <1>1, <1>7 DEF NotifierStep, server
<1>8. ASSUME UNCHANGED vars PROVE Same
  BY <1>1, <1>8 DEF vars, server
<1> HIDE DEF Same
<1>9. ASSUME \A w \in Waits : ~Park(w) PROVE Same
  <2>1. \A w \in Waits : WaitStep(w) \/ TimesOut(w) => Same
    BY <1>2, <1>3, <1>4, <1>9 DEF WaitStep, WaitEnds, TimesOut
  <2>2. \A w \in Waits : Post(w) \/ Sever(w) \/ Reply(w) => Same
    BY <1>2
  <2> QED  BY <1>5, <1>6, <1>7, <1>8, <2>1, <2>2 DEF Next
<1> QED  BY <1>9 DEF Same

\* A post that has not parked leaves room for one more published wait.
LEMMA Uncounted ==
    ASSUME NEW w \in Waits, ~wait[w].published
    PROVE  IsFiniteSet(Published) /\ Cardinality(Published) \in 0..(MaxPosts - 1)
<1>1. IsFiniteSet(Waits) /\ Cardinality(Waits) = MaxPosts
  BY PostsAssumption, FS_Interval DEF Waits
<1>2. IsFiniteSet(Waits \ {w}) /\ Cardinality(Waits \ {w}) = MaxPosts - 1
  BY <1>1, FS_RemoveElement
<1>3. Published \subseteq Waits \ {w}
  BY DEF Published
<1>4. IsFiniteSet(Published) /\ Cardinality(Published) <= MaxPosts - 1
  BY <1>2, <1>3, FS_Subset
<1>5. Cardinality(Published) \in Nat
  BY <1>4, FS_CardinalityType
<1> QED  BY <1>4, <1>5, PostsAssumption

LEMMA HandlersFinite == Cardinality(Handlers) \in Nat
BY NotifierAssumption, FS_CardinalityType

\* Handlers are started in their order: the next one follows those that have started.
LEMMA NextInOrder ==
    ASSUME NEW k \in Nat, Started = 1..k, k + 1 \in Handlers
    PROVE  NextHandler = k + 1
<1>1. Handlers = 1..Cardinality(Handlers)
  BY NotifierAssumption
<1>2. Cardinality(Handlers) \in Nat
  BY HandlersFinite
<1> DEFINE First(h) == handler[h] = "unused" /\ \A g \in Handlers : g < h => handler[g] # "unused"
<1>3. \A h \in Handlers : handler[h] # "unused" <=> h \in 1..k
  BY DEF Started
<1>4. \A h \in Handlers : First(h) => h = k + 1
  <2>1. SUFFICES ASSUME NEW h \in Handlers, First(h) PROVE h = k + 1
    OBVIOUS
  <2>2. h \in Nat /\ h >= 1 /\ h > k
    BY <1>1, <1>2, <1>3, <2>1
  <2>3. ~(k + 1 < h)
    BY <1>3, <2>1
  <2> QED  BY <2>2, <2>3
<1>5. First(k + 1)
  <2>1. handler[k + 1] = "unused"
    BY <1>3
  <2>2. ASSUME NEW g \in Handlers, g < k + 1 PROVE handler[g] # "unused"
    <3>1. g \in 1..k
      BY <1>1, <1>2, <2>2
    <3> QED  BY <1>3, <3>1
  <2> QED  BY <2>1, <2>2
<1> HIDE DEF First
<1>6. NextHandler = CHOOSE h \in Handlers : First(h)
  BY DEF NextHandler, First
<1> QED  BY <1>4, <1>5, <1>6

\* A request of the sub-agent's session finds a handler to start.
LEMMA RequestStarts ==
    ASSUME Shape, StartedInOrder, NEW w \in Waits, Park(w)
    PROVE  /\ \/ UNCHANGED notifier /\ armed
              \/ /\ handler' = [handler EXCEPT ![NextHandler] = "grace"]
                 /\ NextHandler \in Handlers
           /\ StartedInOrder'
<1>0. wait \in [Waits -> WaitRecord] /\ wait[w].at = "checking" /\ ~wait[w].published
  BY DEF Shape, Park, StartedInOrder
<1>1. PICK k \in 0..Cardinality(Published) : Started = 1..k
  BY DEF StartedInOrder
<1>2. IsFiniteSet(Published) /\ Cardinality(Published) \in 0..(MaxPosts - 1)
  BY <1>0, Uncounted
<1>3. k \in Nat /\ k <= MaxPosts - 1
  BY <1>1, <1>2, PostsAssumption
<1>4. k + 1 \in Handlers
  <2>1. Cardinality(Handlers) \in Nat
    BY HandlersFinite
  <2>2. k + 1 \in 1..Cardinality(Handlers)
    BY <1>3, <2>1, PostsAssumption
  <2> QED  BY <2>2, NotifierAssumption
<1>5. NextHandler = k + 1
  BY <1>1, <1>3, <1>4, NextInOrder
<1>6. /\ wait'[w].published /\ wait'[w].at = "mirroring"
      /\ \A v \in Waits \ {w} : wait'[v] = wait[v]
  BY <1>0 DEF Park, WaitRecord
<1>7. Cardinality(Published)' = Cardinality(Published) + 1
  <2>1. Published' = Published \cup {w} /\ w \notin Published
    BY <1>0, <1>6 DEF Published
  <2> QED  BY <1>2, <2>1, FS_AddElement
<1>8. \A v \in Waits : wait'[v].at \in {"none", "checking"} => ~wait'[v].published
  BY <1>6 DEF StartedInOrder
<1>9. CASE armed
  <2>1. UNCHANGED notifier /\ Started' = Started
    BY <1>9 DEF Park, PublishRequest, ObserveRequest, notifier, Started
  <2>2. k \in 0..Cardinality(Published)'
    BY <1>1, <1>2, <1>7, PostsAssumption
  <2> QED  BY <1>1, <1>8, <1>9, <2>1, <2>2 DEF StartedInOrder
<1>10. CASE ~armed
  <2>1. handler' = [handler EXCEPT ![NextHandler] = "grace"]
    BY <1>10 DEF Park, PublishRequest, ObserveRequest
  <2>2. Started' = Started \cup {k + 1}
    <3>1. \A h \in Handlers : handler'[h] = IF h = k + 1 THEN "grace" ELSE handler[h]
      BY <1>5, <2>1 DEF Shape, NotifierTypeOK
    <3> QED  BY <1>4, <3>1 DEF Started
  <2>3. Started' = 1..(k + 1)
    BY <1>1, <1>3, <2>2
  <2>4. k + 1 \in 0..Cardinality(Published)'
    BY <1>1, <1>2, <1>7, PostsAssumption
  <2> QED  BY <1>4, <1>5, <1>8, <2>1, <2>3, <2>4 DEF StartedInOrder
<1> QED  BY <1>9, <1>10

\* What the steps that start no handler do to the handlers.
LEMMA NextStarts ==
    ASSUME Shape, [Next]_vars
    PROVE  \/ \E w \in Waits : Park(w)
           \/ \E s \in Sessions : s # "child" /\ ObserveRequest(s)
           \/ ObserveResolved
           \/ UNCHANGED notifier
           \/ \E h \in Handlers : HandlerStep(h)
<1> SUFFICES ASSUME \A w \in Waits : ~Park(w)
             PROVE  \/ \E s \in Sessions : s # "child" /\ ObserveRequest(s)
                    \/ ObserveResolved \/ UNCHANGED notifier
                    \/ \E h \in Handlers : HandlerStep(h)
  OBVIOUS
<1>1. CASE Answer \/ MirrorResolved
  BY <1>1 DEF Answer, MirrorResolved, PublishResolved
<1>2. CASE GiveUp \/ AnsweredInTerminal \/ ToolResult
  BY <1>2 DEF GiveUp, AnsweredInTerminal, ToolResult
<1>3. ASSUME NEW w \in Waits, \/ Post(w) \/ Sever(w) \/ Reply(w) \/ AutoApproved(w)
                             \/ TakeTombstone(w) \/ EndOf(w)
      PROVE  UNCHANGED notifier
  BY <1>3 DEF Post, Sever, Reply, AutoApproved, TakeTombstone, EndOf
<1>4. ASSUME NEW w \in Waits, MirrorRequest(w)
      PROVE  \E s \in Sessions : s # "child" /\ ObserveRequest(s)
  BY <1>4 DEF MirrorRequest, PublishRequest, Sessions
<1>5. ASSUME NEW w \in Waits, Unpark(w) \/ MirrorClear(w) \/ GraceOver(w)
      PROVE  ObserveResolved \/ UNCHANGED notifier
  BY <1>5 DEF Unpark, MirrorClear, GraceOver, PublishResolved
<1>6. ASSUME NEW h \in Handlers, NotifierStep(h) PROVE HandlerStep(h)
  BY <1>6 DEF NotifierStep
<1>7. CASE UNCHANGED vars
  BY <1>7 DEF vars
<1> QED
  BY <1>1, <1>2, <1>3, <1>4, <1>5, <1>6, <1>7 DEF Next, WaitStep, WaitEnds, TimesOut

\* A handler that has started is never again one that has not, and a step of one
\* leaves the others where they are.
LEMMA HandlerMoves ==
    ASSUME Shape, NEW h \in Handlers, HandlerStep(h)
    PROVE  /\ handler[h] # "unused" /\ handler'[h] # "unused"
           /\ \A g \in Handlers \ {h} : handler'[g] = handler[g]
           /\ \/ ~armed' \/ woken'
              \/ /\ UNCHANGED <<armed, armedBy, woken>>
                 /\ \/ handler'[h] \in {"grace", "lookup", "waking", "backoff"}
                    \/ handler[h] \notin {"grace", "lookup", "waking", "backoff"}
<1>0. \E S : handler \in [Handlers -> S]
  BY DEF Shape, NotifierTypeOK
<1> USE DEF At, Ends
<1>1. CASE GraceEnds(h)
  BY <1>0, <1>1 DEF GraceEnds
<1>2. CASE LookedUp(h)
  BY <1>0, <1>2 DEF LookedUp
<1>3. CASE Attempt(h)
  BY <1>0, <1>3 DEF Attempt, StillBlocked
<1>4. CASE Woken(h)
  <2>1. handler[h] = "waking" /\ woken' /\ handler' = [handler EXCEPT ![h] = "awaiting"]
    BY <1>4 DEF Woken
  <2> QED  BY <1>0, <2>1
<1>5. CASE WakeFails(h)
  BY <1>0, <1>5 DEF WakeFails, ArmAfterFailure
<1>6. CASE Signalled(h)
  BY <1>0, <1>6 DEF Signalled
<1>7. CASE NoticeEnds(h)
  BY <1>0, <1>7 DEF NoticeEnds
<1> QED  BY <1>1, <1>2, <1>3, <1>4, <1>5, <1>6, <1>7 DEF HandlerStep

LEMMA OrderInductive == Shape /\ StartedInOrder /\ [Next]_vars => StartedInOrder'
<1> SUFFICES ASSUME Shape, StartedInOrder, [Next]_vars, \A w \in Waits : ~Park(w)
             PROVE  StartedInOrder'
  BY RequestStarts
<1>0. \E S : handler \in [Handlers -> S]
  BY DEF Shape, NotifierTypeOK
<1>1. Published' = Published /\ \A w \in Waits :
          wait'[w].at \in {"none", "checking"} => ~wait'[w].published
  BY NextPublishes DEF StartedInOrder, Published
<1>2. \A h \in Handlers : handler'[h] = "unused" <=> handler[h] = "unused"
  <2>1. ASSUME NEW h \in Handlers, HandlerStep(h)
        PROVE  \A g \in Handlers : handler'[g] = "unused" <=> handler[g] = "unused"
    BY <2>1, HandlerMoves
  <2>2. ASSUME NEW s \in Sessions, s # "child", ObserveRequest(s) PROVE handler' = handler
    BY <2>2 DEF ObserveRequest, notifier
  <2>3. ASSUME ObserveResolved \/ UNCHANGED notifier PROVE handler' = handler
    BY <2>3 DEF ObserveResolved, notifier
  <2> QED  BY <2>1, <2>2, <2>3, NextStarts
<1>3. Started' = Started
  BY <1>2 DEF Started
<1> QED  BY <1>1, <1>3 DEF StartedInOrder

LEMMA HeldInductive ==
    Shape /\ StartedInOrder /\ BlockHeld /\ [Next]_vars => BlockHeld'
<1> SUFFICES ASSUME Shape, StartedInOrder, BlockHeld, [Next]_vars PROVE BlockHeld'
  OBVIOUS
<1>0. \E S : handler \in [Handlers -> S]
  BY DEF Shape, NotifierTypeOK
<1> USE DEF BlockHeld
<1>1. ASSUME NEW w \in Waits, Park(w) PROVE BlockHeld'
  <2>1. CASE UNCHANGED notifier
    BY <2>1 DEF notifier
  <2>2. CASE handler' = [handler EXCEPT ![NextHandler] = "grace"] /\ NextHandler \in Handlers
    BY <1>0, <2>2
  <2> QED  BY <1>1, <2>1, <2>2, RequestStarts
<1>2. ASSUME NEW s \in Sessions, s # "child", ObserveRequest(s) PROVE BlockHeld'
  BY <1>2 DEF ObserveRequest, notifier
<1>3. CASE ObserveResolved
  BY <1>3 DEF ObserveResolved
<1>4. CASE UNCHANGED notifier
  BY <1>4 DEF notifier
<1>5. ASSUME NEW h \in Handlers, HandlerStep(h) PROVE BlockHeld'
  BY <1>5, HandlerMoves
<1> QED  BY <1>1, <1>2, <1>3, <1>4, <1>5, NextStarts

\* Whatever other handlers, verdicts and deferred clears arm and release the id
\* meanwhile, a block that the sub-agent's session armed and the parent has not been
\* told of has a handler under way, which delivers it or releases it: what
\* BlockIsHandled asks, but for the fairness that makes the handler run.
THEOREM BlockHasHandler == Spec => []BlockHeld
<1>1. Init => StartedInOrder /\ BlockHeld
  <2>1. ASSUME Init PROVE StartedInOrder
    <3>1. Published = {} /\ Started = {}
      BY <2>1 DEF Init, NotifierInit, Published, Started, Unposted
    <3>2. Cardinality({}) = 0 /\ 1..0 = {}
      BY FS_EmptySet
    <3>3. \E k \in 0..Cardinality(Published) : Started = 1..k
      BY <3>1, <3>2
    <3> QED  BY <2>1, <3>3 DEF Init, StartedInOrder, Unposted
  <2> QED  BY <2>1 DEF Init, NotifierInit, BlockHeld
<1>2. Core /\ StartedInOrder /\ BlockHeld /\ [Next]_vars => StartedInOrder' /\ BlockHeld'
  BY OrderInductive, HeldInductive DEF Core
<1> QED  BY AlwaysCore, <1>1, <1>2, PTL DEF Spec
=============================================================================
