------------------------- MODULE SessionTurns_proofs -------------------------
(***************************************************************************)
(* Proofs about SessionTurns, for any number of messages, interrupts and   *)
(* failures: its types, that the slot holds the turn under way, that no    *)
(* message is stranded or lost, that the flag of an interrupt is fresh,    *)
(* that a finished turn takes no injection and that neither the gate nor a *)
(* turn waits for something that cannot come.                              *)
(***************************************************************************)
EXTENDS SessionTurns, SequenceTheorems, TLAPS

-----------------------------------------------------------------------------
(* The types *)

Events == [kind : {"created", "consumed", "end", "rejected"}, msg : Msgs \cup {None}]

\* A turn leaves its slot well typed, whoever asks for it and however it ends.
LEMMA EndTyped ==
    ASSUME TypeOK, NEW t, NEW how \in {"ended", "broken"}, End(t, how)
    PROVE  /\ turn' \in [Turns -> Unfinished \cup {"unused", "ended", "broken"}]
           /\ slot' \in Turns \cup {None}
           /\ live' \in BOOLEAN
           /\ interrupted' \in BOOLEAN
           /\ conts' \in Nat
           /\ stream' \in [Turns -> Seq(Events)]
           /\ line' = line /\ post' = post /\ buf' = buf /\ history' = history
<1> USE DEF End, TypeOK, queueVars, None
<1>1. turn' \in [Turns -> Unfinished \cup {"unused", "ended", "broken"}]
  OBVIOUS
<1>2. stream' \in [Turns -> Seq(Events)]
  <2>1. stream \in [Turns -> Seq(Events)]
    BY DEF Events
  <2>2. <<>> \in Seq(Events)
    OBVIOUS
  <2> QED  BY <2>1, <2>2
<1>3. interrupted' \in BOOLEAN /\ live' \in BOOLEAN
  BY DEF FlagAfterEnd
<1>4. conts' \in Nat
  BY DEF NextConts
<1>5. slot' \in Turns \cup {None}
  OBVIOUS
<1>6. line' = line /\ post' = post /\ buf' = buf /\ history' = history
  OBVIOUS
<1> QED  BY <1>1, <1>2, <1>3, <1>4, <1>5, <1>6

LEMMA StatusTyped ==
    ASSUME TypeOK, NEW failed \in BOOLEAN
    PROVE  EndStatus(failed) \in {"idle", "running", "failed"}
BY DEF TypeOK, EndStatus

LEMMA EmitTyped ==
    ASSUME TypeOK, NEW c, NEW event \in Events, Emit(c, event)
    PROVE  stream' \in [Turns -> Seq(Events)]
<1>1. stream \in [Turns -> Seq(Events)]
  BY DEF TypeOK, Events
<1>2. CASE c \in Turns /\ turn[c] = "streaming"
  <2>1. stream' = [stream EXCEPT ![c] = Append(@, event)]
    BY <1>2 DEF Emit
  <2>2. Append(stream[c], event) \in Seq(Events)
    BY <1>1, <1>2
  <2> QED  BY <1>1, <2>1, <2>2
<1>3. CASE ~(c \in Turns /\ turn[c] = "streaming")
  BY <1>1, <1>3 DEF Emit
<1> QED  BY <1>2, <1>3

LEMMA EventTyped ==
    ASSUME NEW kind \in {"created", "consumed", "end", "rejected"}
    PROVE  Event(kind) \in Events
BY DEF Event, Events

\* What a request puts before the model are messages of the request.
LEMMA PromptTyped ==
    ASSUME TypeOK, NEW msgs \in Seq(Msgs), msgs # <<>>, Prompt(msgs)
    PROVE  context' \in SUBSET Msgs
<1>1. \A i \in DOMAIN msgs : msgs[i] \in Msgs
  OBVIOUS
<1>2. Ran(msgs) \subseteq Msgs
  BY <1>1 DEF Ran
<1>3. msgs[Len(msgs)] \in Msgs
  OBVIOUS
<1> QED  BY <1>2, <1>3 DEF Prompt, TypeOK
\* A turn starts for messages that are in the history.
Begun == (\E t \in Turns : turn[t] # "unused") => history # <<>>

\* A message that is being forwarded holds the gate.
GateHeld == \A m \in Msgs : post[m] \in {"forward", "reading"} => Serving(m)

\* An interrupt at work is aimed at a turn.
Aimed == \A s \in Stops : stop[s].pc \in {"forward", "cancel"} => stop[s].target # None

\* A turn whose request may arrive late was cancelled.
Late == \A t \in lateTurns : turn[t] = "broken"

Typed == TypeOK /\ Begun /\ GateHeld /\ Aimed /\ Late

\* The start of a turn, as a step sees it.
LEMMA StartTyped ==
    ASSUME TypeOK, Start
    PROVE  /\ slot' \in Turns
           /\ turn' \in [Turns -> Unfinished \cup {"unused", "ended", "broken"}]
           /\ status' = "running"
           /\ UNCHANGED <<live, interrupted>>
           /\ \A u \in Turns : turn[u] = "broken" => turn'[u] = "broken"
BY DEF Start, TypeOK, Unfinished

\* The holder of the gate leaves it, and nobody else was forwarding.
LEMMA GateLeft ==
    ASSUME TypeOK, GateHeld, NEW h \in Msgs \cup {Cont}, Serving(h), line' = Advanced,
           \A m \in Msgs \ {h} : post'[m] = post[m],
           h \in Msgs => post'[h] \notin {"forward", "reading"}
    PROVE  /\ line' \in Seq(Msgs \cup {Cont})
           /\ GateHeld'
<1>1. line' \in Seq(Msgs \cup {Cont})
  BY DEF Serving, Advanced, TypeOK
<1>2. ASSUME NEW m \in Msgs, post'[m] \in {"forward", "reading"} PROVE FALSE
  <2>1. m # h /\ post[m] \in {"forward", "reading"}
    BY <1>2
  <2> QED  BY <2>1 DEF GateHeld, Serving
<1> QED  BY <1>1, <1>2 DEF GateHeld

\* A ticket is taken at the end of the line.
LEMMA TicketTaken ==
    ASSUME TypeOK, GateHeld, NEW h \in Msgs \cup {Cont}, line' = Append(line, h),
           \A m \in Msgs : post'[m] \in {"forward", "reading"} => post'[m] = post[m]
    PROVE  /\ line' \in Seq(Msgs \cup {Cont})
           /\ GateHeld'
<1>1. line' \in Seq(Msgs \cup {Cont})
  BY DEF TypeOK
<1>2. line # <<>> => Head(line') = Head(line) /\ line' # <<>>
  BY DEF TypeOK
<1> QED  BY <1>1, <1>2 DEF GateHeld, Serving

LEMMA GrownTyped ==
    ASSUME NEW s \in Seq(Msgs), NEW r \in Seq(Msgs), NEW m \in Msgs
    PROVE  /\ Append(s, m) \in Seq(Msgs) /\ Append(s, m) # <<>>
           /\ s \o r \in Seq(Msgs) /\ (r # <<>> => s \o r # <<>>)
<1>1. Append(s, m) \in Seq(Msgs) /\ Len(Append(s, m)) = Len(s) + 1
  OBVIOUS
<1>2. s \o r \in Seq(Msgs) /\ Len(s \o r) = Len(s) + Len(r)
  OBVIOUS
<1>3. r # <<>> => Len(r) > 0
  OBVIOUS
<1>4. Len(s) \in Nat /\ Len(r) \in Nat /\ Len(<<>>) = 0
  OBVIOUS
<1> QED  BY <1>1, <1>2, <1>3, <1>4

LEMMA GateTyped ==
    ASSUME Typed,
           \/ \E m \in Msgs : Arrive(m) \/ StartTurn(m) \/ Buffer(m)
           \/ ContTicket \/ ContServe
    PROVE  Typed'
<1> USE DEF Typed, TypeOK, Begun, Aimed, Late, gateVars, queueVars, turnVars, stopVars, wireVars,
            harnessVars
<1>1. ASSUME NEW m \in Msgs, Arrive(m) PROVE Typed'
  <2>1. post' \in [Msgs -> {"new", "line", "forward", "reading", "done"}]
    BY <1>1 DEF Arrive, Answer
  <2>2. line' \in Seq(Msgs \cup {Cont}) /\ GateHeld'
    BY <1>1, TicketTaken DEF Arrive, Answer
  <2> QED  BY ZenonT(30), <1>1, <2>1, <2>2 DEF Arrive
<1>2. ASSUME NEW m \in Msgs, StartTurn(m) PROVE Typed'
  <2>1. history' \in Seq(Msgs) /\ history' # <<>>
    BY <1>2, GrownTyped DEF StartTurn
  <2>2. post' \in [Msgs -> {"new", "line", "forward", "reading", "done"}]
    BY <1>2 DEF StartTurn, Answer
  <2>3. line' \in Seq(Msgs \cup {Cont}) /\ GateHeld'
    BY <1>2, GateLeft DEF StartTurn, Answer
  <2>4. Start
    BY <1>2 DEF StartTurn
  <2> QED  BY <1>2, <2>1, <2>2, <2>3, <2>4, StartTyped DEF StartTurn
<1>3. ASSUME NEW m \in Msgs, Buffer(m) PROVE Typed'
  <2>1. buf' \in Seq(Msgs)
    BY <1>3 DEF Buffer, Buffered
  <2>2. PICK forwarded \in {FALSE, live} :
            IF forwarded THEN Answer(m, "forward") /\ UNCHANGED line
                         ELSE Answer(m, "done") /\ line' = Advanced
    BY <1>3 DEF Buffer
  <2>3. post' \in [Msgs -> {"new", "line", "forward", "reading", "done"}]
    BY <2>2 DEF Answer
  <2>4. Serving(m) /\ m \in Msgs \cup {Cont}
    BY <1>3 DEF Buffer
  <2>5. line' \in Seq(Msgs \cup {Cont}) /\ GateHeld'
    <3>1. CASE forwarded
      BY <2>2, <2>4, <3>1 DEF Answer, GateHeld, Serving
    <3>2. CASE ~forwarded
      <4>1. Answer(m, "done") /\ line' = Advanced
        BY <2>2, <3>2
      <4>2. post'[m] = "done" /\ \A n \in Msgs \ {m} : post'[n] = post[n]
        BY <4>1 DEF Answer
      <4> QED  BY <2>4, <4>1, <4>2, GateLeft
    <3> QED  BY <3>1, <3>2
  <2> QED  BY <1>3, <2>1, <2>3, <2>5 DEF Buffer
<1>4. ASSUME ContTicket PROVE Typed'
  <2>1. conts' \in Nat
    BY <1>4 DEF ContTicket
  <2>2. line' = Append(line, Cont) /\ post' = post
    BY <1>4 DEF ContTicket
  <2>3. line' \in Seq(Msgs \cup {Cont})
    BY <2>2
  <2>4. GateHeld'
    BY <2>2, TicketTaken
  <2> QED  BY ZenonT(30), <1>4, <2>1, <2>2, <2>3, <2>4 DEF ContTicket
<1>5. ASSUME ContServe PROVE Typed'
  <2>1. Cont \notin Msgs
    BY ConstantsAssumption DEF Cont, Msgs
  <2>2. line' \in Seq(Msgs \cup {Cont}) /\ GateHeld'
    BY <1>5, <2>1, GateLeft DEF ContServe
  <2>3. CASE SlotFree /\ buf # <<>>
    <3>1. history' \in Seq(Msgs) /\ history' # <<>> /\ buf' = <<>> /\ Start
      <4>1. history' = history \o buf /\ buf' = <<>> /\ Start
        BY <1>5, <2>3 DEF ContServe
      <4>2. buf[1] \in Msgs
        BY <2>3
      <4> QED  BY <2>3, <4>1, <4>2, GrownTyped
    <3>2. buf' \in Seq(Msgs)
      BY <3>1
    <3> QED  BY <1>5, <2>2, <3>1, <3>2, StartTyped DEF ContServe
  <2>4. CASE ~(SlotFree /\ buf # <<>>)
    BY ZenonT(30), <1>5, <2>2, <2>4 DEF ContServe
  <2> QED  BY <2>3, <2>4
<1> QED  BY <1>1, <1>2, <1>3, <1>4, <1>5

\* A new context, for messages that there are.
LEMMA NewContextTyped ==
    ASSUME TypeOK, NEW c \in Ctxs, NEW msgs \in Seq(Msgs), msgs # <<>>, NewContext(c, msgs)
    PROVE  /\ ctx' \in [Ctxs -> {"none", "running", "returned", "over", "gone"}]
           /\ active' \in Ctxs
           /\ context' \in SUBSET Msgs
           /\ UNCHANGED <<cancelled, inject>>
BY PromptTyped DEF NewContext, TypeOK

LEMMA CtxsOfBoth ==
    /\ \A t \in Turns : t \in Ctxs
    /\ \A m \in Msgs : OwnCtx(m) \in Ctxs /\ OwnCtx(m) \notin Turns
BY ConstantsAssumption DEF Turns, Msgs, Ctxs, OwnCtx

\* An injection goes to the active context.
LEMMA InjectTyped ==
    ASSUME TypeOK, Injectable, NEW m \in Msgs,
           inject' = [inject EXCEPT ![active] = Append(@, m)]
    PROVE  inject' \in [Ctxs -> Seq(Msgs)]
<1>1. active \in Ctxs
  BY DEF Injectable, TypeOK
<1>2. Append(inject[active], m) \in Seq(Msgs)
  BY <1>1 DEF TypeOK
<1> QED  BY <1>2 DEF TypeOK

LEMMA SingletonMsg ==
    ASSUME NEW m \in Msgs
    PROVE  <<m>> \in Seq(Msgs) /\ <<m>> # <<>>
OBVIOUS

LEMMA ForwardTyped ==
    ASSUME Typed,
           \E m \in Msgs : \/ ForwardLands(m) \/ ForwardFails(m) \/ ForwardReturns(m)
                           \/ LateForward(m)
    PROVE  Typed'
<1> USE DEF Typed, TypeOK, Begun, Aimed, Late, gateVars, queueVars, turnVars, stopVars, wireVars,
            harnessVars
<1>1. ASSUME NEW m \in Msgs, post[m] \in {"forward", "reading"}, Answer(m, "done"),
             line' = Advanced
      PROVE  /\ post' \in [Msgs -> {"new", "line", "forward", "reading", "done"}]
             /\ line' \in Seq(Msgs \cup {Cont})
             /\ GateHeld'
  <2>1. post' \in [Msgs -> {"new", "line", "forward", "reading", "done"}]
    BY <1>1 DEF Answer
  <2>2. Serving(m)
    BY <1>1 DEF GateHeld
  <2>3. post'[m] = "done" /\ \A n \in Msgs \ {m} : post'[n] = post[n]
    BY <1>1 DEF Answer
  <2> QED  BY <1>1, <2>1, <2>2, <2>3, GateLeft
<1>2. ASSUME NEW m \in Msgs, ForwardLands(m) PROVE Typed'
  <2>1. CASE Injectable
    <3>1. inject' \in [Ctxs -> Seq(Msgs)]
      BY <1>2, <2>1, InjectTyped DEF ForwardLands
    <3> QED  BY ZenonT(30), <1>1, <1>2, <2>1, <3>1 DEF ForwardLands
  <2>2. CASE ~Injectable
    <3>1. NewContext(OwnCtx(m), <<m>>) /\ Answer(m, "reading") /\ UNCHANGED line
      BY <1>2, <2>2 DEF ForwardLands
    <3>2. /\ post' \in [Msgs -> {"new", "line", "forward", "reading", "done"}]
          /\ GateHeld'
      BY <1>2, <3>1 DEF ForwardLands, Answer, GateHeld, Serving
    <3> QED  BY ZenonT(30), <1>2, <3>1, <3>2, NewContextTyped, CtxsOfBoth, SingletonMsg DEF ForwardLands
  <2> QED  BY <2>1, <2>2
<1>3. ASSUME NEW m \in Msgs, ForwardFails(m) PROVE Typed'
  <2>1. faults' \in 0 .. MaxFaults
    BY <1>3, ConstantsAssumption DEF ForwardFails, Fault
  <2> QED  BY ZenonT(30), <1>1, <1>3, <2>1 DEF ForwardFails
<1>4. ASSUME NEW m \in Msgs, ForwardReturns(m) PROVE Typed'
  BY ZenonT(30), <1>1, <1>4 DEF ForwardReturns
<1>5. ASSUME NEW m \in Msgs, LateForward(m) PROVE Typed'
  <2>1. GateHeld'
    BY <1>5 DEF LateForward, GateHeld, Serving
  <2>2. CASE UNCHANGED harnessVars
    BY ZenonT(30), <1>5, <2>1, <2>2 DEF LateForward
  <2>3. CASE /\ Injectable
             /\ inject' = [inject EXCEPT ![active] = Append(@, m)]
             /\ UNCHANGED <<ctx, cancelled, active, context>>
    BY ZenonT(30), <1>5, <2>1, <2>3, InjectTyped DEF LateForward
  <2>4. CASE ~Injectable /\ NewContext(OwnCtx(m), <<m>>)
    BY ZenonT(30), <1>5, <2>1, <2>4, NewContextTyped, CtxsOfBoth, SingletonMsg DEF LateForward
  <2> QED  BY <1>5, <2>2, <2>3, <2>4 DEF LateForward
<1> QED  BY <1>2, <1>3, <1>4, <1>5
-----------------------------------------------------------------------------
(* ... of the scaffold and of the ends of turns *)

\* The gate and the interrupts look at variables of their own.
LEMMA GateUntouched ==
    ASSUME GateHeld, Aimed, UNCHANGED <<line, post, stop>>
    PROVE  GateHeld' /\ Aimed'
BY DEF GateHeld, Serving, Aimed

LEMMA ScaffoldTyped ==
    ASSUME Typed,
           \/ \E t \in Turns : HarnessTakes(t) \/ LateTurn(t)
           \/ \E c \in Ctxs : Consume(c) \/ RunReturns(c) \/ EmitTerminal(c) \/ Teardown(c)
    PROVE  Typed'
<1> USE DEF Typed, TypeOK, Begun, Late, gateVars, queueVars, turnVars, stopVars, wireVars, harnessVars
<1>1. ASSUME NEW t \in Turns, HarnessTakes(t) PROVE Typed'
  <2>1. GateHeld' /\ Aimed'
    BY <1>1, GateUntouched DEF HarnessTakes
  <2>2. turn' \in [Turns -> Unfinished \cup {"unused", "ended", "broken"}] /\ history # <<>>
    BY <1>1 DEF HarnessTakes, Unfinished
  <2>3. ASSUME NEW e \in Events, stream' = [stream EXCEPT ![t] = <<e>>]
        PROVE  stream' \in [Turns -> Seq(Events)]
    <3>1. <<e>> \in Seq(Events)
      BY <2>3
    <3>2. stream \in [Turns -> Seq(Events)]
      BY DEF Events
    <3> QED  BY <2>3, <3>1, <3>2
  <2>4. CASE Injectable
    <3>1. stream' \in [Turns -> Seq(Events)]
      BY <1>1, <2>3, <2>4, EventTyped DEF HarnessTakes
    <3> QED  BY ZenonT(30), <1>1, <2>1, <2>2, <2>4, <3>1 DEF HarnessTakes, Events
  <2>5. CASE ~Injectable
    <3>1. stream' \in [Turns -> Seq(Events)]
      BY <1>1, <2>3, <2>5, EventTyped DEF HarnessTakes
    <3>2. NewContext(t, history)
      BY <1>1, <2>5 DEF HarnessTakes
    <3> QED  BY <1>1, <2>1, <2>2, <3>1, <3>2, NewContextTyped, CtxsOfBoth DEF HarnessTakes, Events
  <2> QED  BY <2>4, <2>5
<1>2. ASSUME NEW t \in Turns, LateTurn(t) PROVE Typed'
  <2>1. GateHeld' /\ Aimed'
    BY <1>2, GateUntouched DEF LateTurn
  <2>2. CASE UNCHANGED harnessVars
    BY <1>2, <2>1, <2>2 DEF LateTurn
  <2>3. CASE ~Injectable /\ NewContext(t, history) /\ history # <<>>
    BY <1>2, <2>1, <2>3, NewContextTyped, CtxsOfBoth DEF LateTurn
  <2> QED  BY <1>2, <2>2, <2>3 DEF LateTurn
<1>3. ASSUME NEW c \in Ctxs, Consume(c) PROVE Typed'
  <2>1. GateHeld' /\ Aimed'
    BY <1>3, GateUntouched DEF Consume
  <2>2. Head(inject[c]) \in Msgs /\ Tail(inject[c]) \in Seq(Msgs)
    BY <1>3 DEF Consume
  <2>3. inject' \in [Ctxs -> Seq(Msgs)]
    BY <1>3, <2>2 DEF Consume
  <2>4. CASE context = {}
    BY ZenonT(30), <1>3, <2>1, <2>3, <2>4 DEF Consume
  <2>5. CASE context # {}
    <3>1. /\ context' = context \cup {Head(inject[c])}
          /\ Emit(c, [kind |-> "consumed", msg |-> Head(inject[c])])
      BY <1>3, <2>5 DEF Consume
    <3>2. stream' \in [Turns -> Seq(Events)]
      BY <2>2, <3>1, EmitTyped DEF Events
    <3> QED  BY ZenonT(30), <1>3, <2>1, <2>2, <2>3, <3>1, <3>2 DEF Consume, Events
  <2> QED  BY <2>4, <2>5
<1>4. ASSUME NEW c \in Ctxs, RunReturns(c) PROVE Typed'
  <2>1. GateHeld' /\ Aimed'
    BY <1>4, GateUntouched DEF RunReturns
  <2>2. inject' \in [Ctxs -> Seq(Msgs)]
    BY <1>4 DEF RunReturns
  <2>3. context' \in SUBSET Msgs
    <3>1. inject[c] # <<>> => Head(inject[c]) \in Msgs
      OBVIOUS
    <3> QED  BY <1>4, <3>1 DEF RunReturns
  <2> QED  BY <1>4, <2>1, <2>2, <2>3 DEF RunReturns
<1>5. ASSUME NEW c \in Ctxs, EmitTerminal(c) PROVE Typed'
  <2>1. GateHeld' /\ Aimed'
    BY <1>5, GateUntouched DEF EmitTerminal
  <2>2. stream' \in [Turns -> Seq(Events)]
    BY <1>5, EmitTyped, EventTyped DEF EmitTerminal
  <2>3. active' \in Ctxs \cup {None}
    BY <1>5 DEF EmitTerminal, Unset
  <2> QED  BY <1>5, <2>1, <2>2, <2>3 DEF EmitTerminal, Events
<1>6. ASSUME NEW c \in Ctxs, Teardown(c) PROVE Typed'
  <2>1. GateHeld' /\ Aimed'
    BY <1>6, GateUntouched DEF Teardown
  <2>2. inject' \in [Ctxs -> Seq(Msgs)]
    BY <1>6 DEF Teardown
  <2> QED  BY <1>6, <2>1, <2>2 DEF Teardown
<1> QED  BY <1>1, <1>2, <1>3, <1>4, <1>5, <1>6

\* The places behind the one that is taken out move up by one.
LEMMA Shifted ==
    ASSUME NEW i \in Nat, NEW k \in Nat, NEW n \in Nat, NEW h \in Nat, k > i, k <= n
    PROVE  /\ k - i \in 1 .. n - i
           /\ h + (k - i) \in 1 .. h + (n - i)
           /\ i + (k - i) = k
OBVIOUS

\* The buffer without one of its messages keeps the others.
LEMMA WithoutRemoves ==
    ASSUME buf \in Seq(Msgs), NEW m \in Ran(buf)
    PROVE  /\ m \in Msgs
           /\ Without(m) \in Seq(Msgs)
           /\ \A n \in Ran(buf) \ {m} : n \in Ran(Without(m))
<1>1. PICK i \in DOMAIN buf :
          Without(m) = SubSeq(buf, 1, i - 1) \o SubSeq(buf, i + 1, Len(buf)) /\ buf[i] = m
  <2>1. \E i \in DOMAIN buf : buf[i] = m
    BY DEF Ran
  <2> QED  BY <2>1 DEF Without
<1>2. DOMAIN buf = 1 .. Len(buf) /\ Len(buf) \in Nat
  OBVIOUS
<1>3. PICK a, b : a = SubSeq(buf, 1, i - 1) /\ b = SubSeq(buf, i + 1, Len(buf))
  OBVIOUS
<1>4. a \in Seq(Msgs) /\ Len(a) = i - 1 /\ \A j \in 1 .. i - 1 : a[j] = buf[j]
  <2>1. \A j \in 1 .. i - 1 : buf[j] \in Msgs
    BY <1>2
  <2>2. 1 \in Int /\ i - 1 \in Int
    BY <1>2
  <2>3. /\ a \in Seq(Msgs)
        /\ Len(a) = IF 1 <= i - 1 THEN i - 1 - 1 + 1 ELSE 0
        /\ \A j \in 1 .. i - 1 - 1 + 1 : a[j] = buf[1 + j - 1]
    BY <1>3, <2>1, <2>2, SubSeqProperties
  <2> QED  BY <1>2, <2>3
<1>5. b \in Seq(Msgs) /\ Len(b) = Len(buf) - i /\ \A j \in 1 .. Len(buf) - i : b[j] = buf[i + j]
  <2>1. \A j \in i + 1 .. Len(buf) : buf[j] \in Msgs
    BY <1>2
  <2>2. i + 1 \in Int /\ Len(buf) \in Int
    BY <1>2
  <2>3. /\ b \in Seq(Msgs)
        /\ Len(b) = IF i + 1 <= Len(buf) THEN Len(buf) - (i + 1) + 1 ELSE 0
        /\ \A j \in 1 .. Len(buf) - (i + 1) + 1 : b[j] = buf[i + 1 + j - 1]
    BY SMTT(30), <1>3, <2>1, <2>2, SubSeqProperties
  <2>4. i \in 1 .. Len(buf) /\ Len(buf) \in Nat
    BY <1>2
  <2>5. Len(b) = Len(buf) - i
    BY SMTT(30), <2>3, <2>4
  <2>6. ASSUME NEW j \in 1 .. Len(buf) - i PROVE b[j] = buf[i + j]
    <3>1. j \in 1 .. Len(buf) - (i + 1) + 1 /\ i + 1 + j - 1 = i + j
      BY SMTT(30), <2>4
    <3> QED  BY <2>3, <3>1
  <2> QED  BY <2>3, <2>5, <2>6
<1>6. /\ Without(m) \in Seq(Msgs) /\ Len(Without(m)) = Len(a) + Len(b)
      /\ \A j \in 1 .. Len(a) : Without(m)[j] = a[j]
      /\ \A j \in 1 .. Len(b) : Without(m)[Len(a) + j] = b[j]
  <2>1. Without(m) = a \o b
    BY <1>1, <1>3
  <2>2. /\ a \o b \in Seq(Msgs) /\ Len(a \o b) = Len(a) + Len(b)
        /\ \A j \in 1 .. Len(a) + Len(b) :
              (a \o b)[j] = IF j <= Len(a) THEN a[j] ELSE b[j - Len(a)]
    BY <1>4, <1>5, ConcatProperties
  <2>3. Len(a) \in Nat /\ Len(b) \in Nat
    BY <1>4, <1>5
  <2>4. ASSUME NEW j \in 1 .. Len(b)
        PROVE  /\ Len(a) + j \in 1 .. Len(a) + Len(b)
               /\ ~(Len(a) + j <= Len(a)) /\ Len(a) + j - Len(a) = j
    BY <2>3
  <2>5. \A j \in 1 .. Len(a) : j \in 1 .. Len(a) + Len(b) /\ j <= Len(a)
    BY <2>3
  <2> QED  BY <2>1, <2>2, <2>4, <2>5
<1>7. ASSUME NEW n \in Ran(buf) \ {m} PROVE n \in Ran(Without(m))
  <2>1. PICK k \in 1 .. Len(buf) : buf[k] = n /\ k # i
    BY <1>1, <1>2, <1>7 DEF Ran
  <2>2. DOMAIN Without(m) = 1 .. Len(Without(m))
    BY <1>6
  <2>3. CASE k < i
    <3>1. k \in 1 .. Len(a) /\ k \in 1 .. Len(Without(m))
      BY SMTT(30), <1>1, <1>2, <1>4, <1>5, <1>6, <2>1, <2>3
    <3>2. Without(m)[k] = n
      BY <1>4, <1>6, <2>1, <3>1
    <3> QED  BY <2>2, <3>1, <3>2 DEF Ran
  <2>4. CASE k > i
    <3>1. /\ k - i \in 1 .. Len(b) /\ Len(a) + (k - i) \in 1 .. Len(Without(m))
          /\ i + (k - i) = k
      <4>1. /\ i \in Nat /\ k \in Nat /\ Len(buf) \in Nat /\ k <= Len(buf)
            /\ Len(a) \in Nat /\ Len(b) = Len(buf) - i
        BY <1>1, <1>2, <1>4, <1>5, <2>1
      <4>2. Len(Without(m)) = Len(a) + Len(b)
        BY <1>6
      <4>3. /\ k - i \in 1 .. Len(buf) - i
            /\ Len(a) + (k - i) \in 1 .. Len(a) + (Len(buf) - i)
            /\ i + (k - i) = k
        BY <2>4, <4>1, Shifted
      <4> QED  BY <4>1, <4>2, <4>3
    <3>2. Without(m)[Len(a) + (k - i)] = n
      BY <1>5, <1>6, <2>1, <3>1, <1>4, <1>2
    <3> QED  BY <2>2, <3>1, <3>2 DEF Ran
  <2> QED  BY <1>1, <1>2, <2>1, <2>3, <2>4
<1>8. m \in Msgs
  BY <1>1, <1>2
<1> QED  BY <1>6, <1>7, <1>8

\* The end of turn t, when its turn is under way or is broken off.
LEMMA EndKeeps ==
    ASSUME Typed, NEW t \in Turns, NEW how \in {"ended", "broken"}, End(t, how),
           turn[t] \in Unfinished, status' \in {"idle", "running", "failed"},
           UNCHANGED harnessVars, lateMsgs' = lateMsgs, faults' \in 0 .. MaxFaults
    PROVE  /\ Begun' /\ GateHeld'
           /\ stop' = stop /\ lateTurns' = lateTurns => Typed'
<1>1. Begun'
  BY EndTyped DEF Typed, TypeOK, Begun, Unfinished, End
<1>2. GateHeld'
  BY EndTyped DEF Typed, GateHeld, Serving
<1>3. ASSUME stop' = stop, lateTurns' = lateTurns PROVE Typed'
  <2>1. Aimed'
    BY <1>3 DEF Typed, Aimed
  <2>2. Late'
    BY <1>3 DEF Typed, TypeOK, Late, End, Unfinished
  <2>3. TypeOK'
    BY ZenonT(30), <1>3, EndTyped DEF Typed, TypeOK, harnessVars, Events
  <2> QED  BY <1>1, <1>2, <2>1, <2>2, <2>3 DEF Typed
<1> QED  BY <1>1, <1>2, <1>3

LEMMA EndsTyped ==
    ASSUME Typed,
           \E t \in Turns : \/ SetupFails(t) \/ StreamBreaks(t) \/ ReadCreated(t)
                            \/ ReadConsumed(t) \/ ReadEnd(t) \/ ReadRejected(t)
    PROVE  Typed'
<1> USE DEF Typed
<1>0. TypeOK /\ faults \in 0 .. MaxFaults
  BY DEF TypeOK
<1>1. ASSUME Fault PROVE faults' \in 0 .. MaxFaults
  BY <1>0, <1>1, ConstantsAssumption DEF Fault
<1>2. ASSUME NEW t \in Turns, SetupFails(t) PROVE Typed'
  BY <1>0, <1>1, <1>2, EndKeeps, StatusTyped DEF SetupFails, Unfinished
<1>3. ASSUME NEW t \in Turns, StreamBreaks(t) PROVE Typed'
  BY <1>0, <1>1, <1>3, EndKeeps, StatusTyped DEF StreamBreaks, Unfinished
<1>4. ASSUME NEW t \in Turns, ReadRejected(t) PROVE Typed'
  BY <1>0, <1>4, EndKeeps, StatusTyped DEF ReadRejected, Unreceived, stopVars, Unfinished
<1>5. ASSUME NEW t \in Turns, ReadEnd(t) PROVE Typed'
  BY <1>0, <1>1, <1>5, EndKeeps, StatusTyped DEF ReadEnd, Unreceived, Unfinished
<1>6. ASSUME NEW t \in Turns, Unreceived(t), Read(t)
      PROVE  stream' \in [Turns -> Seq(Events)]
  <2>1. stream[t] \in Seq(Events) /\ stream[t] # <<>>
    BY <1>0, <1>6 DEF Unreceived, TypeOK, Events
  <2>2. Tail(stream[t]) \in Seq(Events)
    BY <2>1
  <2> QED  BY <1>0, <1>6, <2>2 DEF Read, TypeOK, Events
<1>7. ASSUME NEW t \in Turns, ReadCreated(t) PROVE Typed'
  <2>1. GateHeld' /\ Aimed'
    BY <1>7, GateUntouched DEF ReadCreated, gateVars, stopVars
  <2> QED
    BY <1>6, <1>7, <2>1
       DEF ReadCreated, TypeOK, Begun, Late, gateVars, queueVars, stopVars, harnessVars, Events
<1>8. ASSUME NEW t \in Turns, ReadConsumed(t) PROVE Typed'
  <2>1. GateHeld' /\ Aimed'
    BY <1>8, GateUntouched DEF ReadConsumed, gateVars, stopVars
  <2>2. /\ buf' \in Seq(Msgs) /\ history' \in Seq(Msgs)
        /\ history # <<>> => history' # <<>>
    <3>1. buf \in Seq(Msgs) /\ history \in Seq(Msgs)
      BY <1>0 DEF TypeOK
    <3>2. PICK m : IF m \in Ran(buf)
                   THEN buf' = Without(m) /\ history' = Append(history, m)
                   ELSE UNCHANGED queueVars
      BY <1>8 DEF ReadConsumed
    <3>3. CASE m \in Ran(buf)
      BY <3>1, <3>2, <3>3, WithoutRemoves, GrownTyped
    <3>4. CASE m \notin Ran(buf)
      BY <3>1, <3>2, <3>4 DEF queueVars
    <3> QED  BY <3>3, <3>4
  <2> QED
    BY <1>6, <1>8, <2>1, <2>2
       DEF ReadConsumed, TypeOK, Begun, Late, gateVars, turnVars, stopVars, harnessVars, Events
<1> QED  BY <1>2, <1>3, <1>4, <1>5, <1>7, <1>8

-----------------------------------------------------------------------------
(* ... and of the interrupts, with the slot *)

\* The slot holds the turn under way.
Core == Typed /\ SlotHoldsTheTurn

LEMMA StopsTyped ==
    ASSUME Core,
           \E s \in Stops : Interrupt(s) \/ InterruptLands(s) \/ InterruptFails(s) \/ CancelTurn(s)
    PROVE  Typed'
<1> USE DEF Core, Typed
<1>0. TypeOK /\ faults \in 0 .. MaxFaults
  BY DEF TypeOK
<1>1. ASSUME NEW s \in Stops, Interrupt(s) PROVE Typed'
  BY <1>1 DEF Interrupt, TypeOK, Begun, GateHeld, Serving, Aimed, Late, gateVars, queueVars,
              wireVars, harnessVars
<1>2. ASSUME NEW s \in Stops, InterruptLands(s) PROVE Typed'
  <2>1. /\ stop' \in [Stops -> [pc : {"idle", "forward", "cancel", "done"},
                              target : Turns \cup {None}]]
        /\ Aimed'
    BY ZenonT(30), <1>2 DEF InterruptLands, Goto, TypeOK, Aimed
  <2>2. /\ cancelled' \in SUBSET Ctxs /\ active' \in Ctxs \cup {None}
        /\ context' \in SUBSET Msgs /\ UNCHANGED <<ctx, inject>>
    BY <1>2 DEF InterruptLands, TypeOK, harnessVars
  <2> QED
    BY <1>2, <2>1, <2>2
       DEF InterruptLands, TypeOK, Begun, GateHeld, Serving, Late, gateVars, queueVars, turnVars,
           wireVars
<1>3. ASSUME NEW s \in Stops, InterruptFails(s) PROVE Typed'
  <2>1. faults' \in 0 .. MaxFaults
    BY <1>0, <1>3, ConstantsAssumption DEF InterruptFails, Fault
  <2> QED
    BY ZenonT(30), <1>3, <2>1
       DEF InterruptFails, Goto, TypeOK, Begun, GateHeld, Serving, Aimed, Late, gateVars,
           queueVars, turnVars, wireVars, harnessVars
<1>4. ASSUME NEW s \in Stops, CancelTurn(s) PROVE Typed'
  <2>1. /\ stop' \in [Stops -> [pc : {"idle", "forward", "cancel", "done"},
                              target : Turns \cup {None}]]
        /\ Aimed'
    BY <1>4 DEF CancelTurn, TypeOK, Aimed
  <2>2. CASE slot = stop[s].target
    <3>1. slot \in Turns /\ turn[slot] \in Unfinished
      BY <1>0, <1>4, <2>2 DEF CancelTurn, Aimed, TypeOK, SlotHoldsTheTurn
    <3>2. End(slot, "broken")
      BY <1>4, <2>2 DEF CancelTurn
    <3>3. status' \in {"idle", "running", "failed"}
      BY <1>0, <1>4, <2>2, <3>1, StatusTyped DEF CancelTurn
    <3>4. lateTurns' \in SUBSET Turns /\ Late'
      <4>1. lateTurns' = lateTurns \/ lateTurns' = lateTurns \cup {slot}
        BY <1>4, <2>2 DEF CancelTurn
      <4> QED  BY <3>1, <3>2, <4>1 DEF TypeOK, Late, End
    <3>5. Begun' /\ GateHeld'
      BY <1>0, <1>4, <3>1, <3>2, <3>3, EndKeeps DEF CancelTurn
    <3> QED
      BY ZenonT(30), <1>4, <2>1, <3>2, <3>3, <3>4, <3>5, EndTyped DEF CancelTurn, TypeOK, harnessVars, Events
  <2>3. CASE slot # stop[s].target
    <3>1. UNCHANGED <<gateVars, queueVars, turnVars, faults, wireVars, harnessVars>>
      BY <1>4, <2>3 DEF CancelTurn, wireVars
    <3> QED
      BY <2>1, <3>1
         DEF TypeOK, Begun, GateHeld, Serving, Late, gateVars, queueVars, turnVars, wireVars,
             harnessVars
  <2> QED  BY <2>2, <2>3
<1> QED  BY <1>1, <1>2, <1>3, <1>4
\* Each way a turn starts, ends or goes on leaves the slot with the turn.
LEMMA StartHolds ==
    ASSUME Typed, slot = None, Start, SlotHoldsTheTurn
    PROVE  SlotHoldsTheTurn'
<1>1. PICK t \in Turns : slot' = t /\ turn' = [turn EXCEPT ![t] = "setup"]
  BY DEF Start
<1>2. None \notin Turns
  BY ConstantsAssumption DEF None, Turns
<1> QED  BY <1>1, <1>2 DEF SlotHoldsTheTurn, Typed, TypeOK, Unfinished

LEMMA EndHolds ==
    ASSUME Typed, NEW t \in Turns, NEW how \in {"ended", "broken"}, End(t, how),
           turn[t] \in Unfinished, SlotHoldsTheTurn
    PROVE  SlotHoldsTheTurn' /\ slot = t
<1>1. None \notin Turns
  BY ConstantsAssumption DEF None, Turns
<1>2. slot = t
  BY DEF SlotHoldsTheTurn
<1>3. turn' = [turn EXCEPT ![t] = how] /\ slot' = None
  BY DEF End
<1> QED  BY <1>1, <1>2, <1>3 DEF SlotHoldsTheTurn, Typed, TypeOK, Unfinished

LEMMA TurnKept ==
    ASSUME SlotHoldsTheTurn, slot' = slot, turn' = turn
    PROVE  SlotHoldsTheTurn'
BY DEF SlotHoldsTheTurn

\* The steps of the scaffold and the wire that leave the slot alone.
Aside ==
    \/ ContTicket
    \/ \E m \in Msgs : \/ Arrive(m) \/ Buffer(m) \/ ForwardLands(m) \/ ForwardFails(m)
                       \/ ForwardReturns(m) \/ LateForward(m)
    \/ \E t \in Turns : LateTurn(t) \/ ReadCreated(t) \/ ReadConsumed(t)
    \/ \E c \in Ctxs : Consume(c) \/ RunReturns(c) \/ EmitTerminal(c) \/ Teardown(c)
    \/ \E s \in Stops : Interrupt(s) \/ InterruptLands(s) \/ InterruptFails(s)

LEMMA AsideKeepsTurns == Aside => slot' = slot /\ turn' = turn
BY DEF Aside, ContTicket, Arrive, Buffer, ForwardLands, ForwardFails, ForwardReturns, LateForward,
       LateTurn, ReadCreated, ReadConsumed, Consume, RunReturns, EmitTerminal, Teardown, Interrupt,
       InterruptLands, InterruptFails, turnVars

\* The steps that end turn t.
Ends(t) == SetupFails(t) \/ StreamBreaks(t) \/ ReadRejected(t) \/ ReadEnd(t)

LEMMA EndsEnd ==
    ASSUME NEW t \in Turns, Ends(t)
    PROVE  turn[t] \in Unfinished /\ \E how \in {"ended", "broken"} : End(t, how)
BY DEF Ends, SetupFails, StreamBreaks, ReadRejected, ReadEnd, Unreceived, Unfinished

\* A cancellation ends the turn it is aimed at, or nothing.
LEMMA CancelEnds ==
    ASSUME Core, NEW s \in Stops, CancelTurn(s)
    PROVE  \/ /\ slot = stop[s].target
              /\ slot \in Turns /\ turn[slot] \in Unfinished /\ End(slot, "broken")
           \/ /\ slot # stop[s].target
              /\ UNCHANGED <<gateVars, queueVars, turnVars, faults, wireVars, harnessVars>>
<1>1. CASE slot = stop[s].target
  <2>1. slot # None /\ slot \in Turns
    BY <1>1 DEF CancelTurn, Core, Typed, Aimed, TypeOK
  <2> QED  BY <1>1, <2>1 DEF CancelTurn, Core, SlotHoldsTheTurn
<1>2. CASE slot # stop[s].target
  BY <1>2 DEF CancelTurn, wireVars
<1> QED  BY <1>1, <1>2

LEMMA InitCore == Init => Core
<1> SUFFICES ASSUME Init PROVE Core
  OBVIOUS
<1>1. TypeOK
  <2>1. <<>> \in Seq(Msgs) /\ <<>> \in Seq(Msgs \cup {Cont}) /\ <<>> \in Seq(Events)
    OBVIOUS
  <2>2. 0 \in 0 .. MaxFaults
    BY ConstantsAssumption
  <2> QED  BY <2>1, <2>2 DEF Init, TypeOK, Events
<1>2. Begun /\ GateHeld /\ Aimed /\ Late
  BY DEF Init, Begun, GateHeld, Aimed, Late
<1>3. None \notin Turns
  BY ConstantsAssumption DEF None, Turns
<1>4. SlotHoldsTheTurn
  BY <1>3 DEF Init, SlotHoldsTheTurn, Unfinished
<1> QED  BY <1>1, <1>2, <1>4 DEF Core, Typed

LEMMA NextTyped == Core /\ [Next]_vars => Typed'
<1> SUFFICES ASSUME Core, [Next]_vars PROVE Typed'
  OBVIOUS
<1>1. CASE Next
  BY <1>1, GateTyped, ForwardTyped, ScaffoldTyped, EndsTyped, StopsTyped
     DEF Next, Gate, Forwarding, Running, Harness, Stopping, Core
<1>2. CASE UNCHANGED vars
  BY <1>2 DEF Core, Typed, TypeOK, Begun, GateHeld, Serving, Aimed, Late, vars, gateVars, queueVars,
              turnVars, stopVars, wireVars, harnessVars
<1> QED  BY <1>1, <1>2

LEMMA NextHolds == Core /\ [Next]_vars => SlotHoldsTheTurn'
<1> SUFFICES ASSUME Core, [Next]_vars PROVE SlotHoldsTheTurn'
  OBVIOUS
<1> USE DEF Core
<1>1. ASSUME NEW m \in Msgs, StartTurn(m) PROVE SlotHoldsTheTurn'
  BY <1>1, StartHolds DEF StartTurn
<1>2. CASE ContServe
  <2>1. CASE SlotFree /\ buf # <<>>
    BY <1>2, <2>1, StartHolds DEF ContServe, SlotFree
  <2>2. CASE ~(SlotFree /\ buf # <<>>)
    BY <1>2, <2>2, TurnKept DEF ContServe, turnVars
  <2> QED  BY <2>1, <2>2
<1>3. ASSUME NEW t \in Turns, HarnessTakes(t) PROVE SlotHoldsTheTurn'
  BY <1>3 DEF HarnessTakes, SlotHoldsTheTurn, Typed, TypeOK, Unfinished
<1>4. ASSUME NEW t \in Turns, Ends(t) PROVE SlotHoldsTheTurn'
  BY <1>4, EndsEnd, EndHolds
<1>5. ASSUME NEW s \in Stops, CancelTurn(s) PROVE SlotHoldsTheTurn'
  BY <1>5, CancelEnds, EndHolds, TurnKept DEF turnVars
<1>6. CASE Aside
  BY <1>6, AsideKeepsTurns, TurnKept
<1>7. CASE UNCHANGED vars
  BY <1>7, TurnKept DEF vars, turnVars
<1> QED
  BY <1>1, <1>2, <1>3, <1>4, <1>5, <1>6, <1>7
     DEF Next, Gate, Forwarding, Running, Harness, Stopping, Aside, Ends

LEMMA AlwaysCore == Spec => []Core
<1>1. Core /\ [Next]_vars => Core'
  BY NextTyped, NextHolds DEF Core
<1> QED  BY InitCore, <1>1, PTL DEF Spec

\* The state of the gate, the runner's turn, the wire and the harness stays well
\* typed: the turns that start are there to start, what is injected and consumed
\* are messages, the gate's line never runs empty under the forward that holds it,
\* and a cancellation always has its turn.
THEOREM TypeCorrect == Spec => []TypeOK
BY AlwaysCore, PTL DEF Core, Typed

\* One turn at most is under way, and the slot holds it: neither a continuation nor
\* a late cancellation starts or clears a turn behind another's back, for any number
\* of messages and interrupts.
THEOREM OneTurnAtATime == Spec => []SlotHoldsTheTurn
BY AlwaysCore, PTL DEF Core
-----------------------------------------------------------------------------
(* No message is stranded or lost *)

LEMMA RanAppend ==
    ASSUME NEW S, NEW s \in Seq(S), NEW x \in S
    PROVE  Ran(Append(s, x)) = Ran(s) \cup {x}
<1>1. /\ DOMAIN s = 1 .. Len(s) /\ DOMAIN Append(s, x) = 1 .. Len(s) + 1 /\ Len(s) \in Nat
      /\ Append(s, x)[Len(s) + 1] = x /\ \A i \in 1 .. Len(s) : Append(s, x)[i] = s[i]
  OBVIOUS
<1>2. 1 .. Len(s) + 1 = (1 .. Len(s)) \cup {Len(s) + 1}
  BY <1>1
<1> QED  BY <1>1, <1>2 DEF Ran

LEMMA RanConcat ==
    ASSUME NEW S, NEW s \in Seq(S), NEW r \in Seq(S)
    PROVE  Ran(s) \subseteq Ran(s \o r) /\ Ran(r) \subseteq Ran(s \o r)
<1>1. /\ s \o r \in Seq(S) /\ Len(s \o r) = Len(s) + Len(r)
      /\ \A i \in 1 .. Len(s) + Len(r) : (s \o r)[i] = IF i <= Len(s) THEN s[i] ELSE r[i - Len(s)]
  BY ConcatProperties
<1>2. /\ DOMAIN s = 1 .. Len(s) /\ DOMAIN r = 1 .. Len(r) /\ Len(s) \in Nat /\ Len(r) \in Nat
      /\ DOMAIN (s \o r) = 1 .. Len(s) + Len(r)
  BY <1>1
<1>3. ASSUME NEW i \in 1 .. Len(s) PROVE s[i] \in Ran(s \o r)
  <2>1. i \in 1 .. Len(s) + Len(r) /\ i <= Len(s)
    BY <1>2
  <2> QED  BY <1>1, <1>2, <2>1 DEF Ran
<1>4. ASSUME NEW i \in 1 .. Len(r) PROVE r[i] \in Ran(s \o r)
  <2>1. /\ Len(s) + i \in 1 .. Len(s) + Len(r) /\ ~(Len(s) + i <= Len(s))
        /\ Len(s) + i - Len(s) = i
    BY <1>2
  <2> QED  BY <1>1, <1>2, <2>1 DEF Ran
<1> QED  BY <1>2, <1>3, <1>4 DEF Ran

\* What waits behind the head of the line goes on waiting.
LEMMA RanTail ==
    ASSUME NEW S, NEW s \in Seq(S), s # <<>>, NEW x \in Ran(s), x # Head(s)
    PROVE  x \in Ran(Tail(s))
<1>1. DOMAIN s = 1 .. Len(s) /\ Len(s) \in Nat /\ Head(s) = s[1]
  OBVIOUS
<1>2. PICK i \in 1 .. Len(s) : s[i] = x
  BY <1>1 DEF Ran
<1>3. i - 1 \in 1 .. Len(s) - 1 /\ i - 1 + 1 = i
  BY <1>1, <1>2
<1>4. /\ Tail(s) \in Seq(S) /\ Len(Tail(s)) = Len(s) - 1
      /\ \A j \in 1 .. Len(Tail(s)) : Tail(s)[j] = s[j + 1]
  BY HeadTailProperties
<1>5. DOMAIN Tail(s) = 1 .. Len(s) - 1 /\ Tail(s)[i - 1] = x
  BY <1>2, <1>3, <1>4
<1> QED  BY <1>3, <1>5 DEF Ran

\* Whoever holds the gate moves on past itself, never past a continuation.
LEMMA ContWaits ==
    ASSUME Typed, NEW h \in Msgs, Serving(h), Cont \in Ran(line)
    PROVE  Cont \in Ran(Advanced)
<1>1. Cont # h
  BY ConstantsAssumption DEF Cont, Msgs
<1> QED  BY <1>1, RanTail DEF Serving, Advanced, Typed, TypeOK

LEMMA NextNotStranded == Core /\ NothingStranded /\ [Next]_vars => NothingStranded'
<1> SUFFICES ASSUME Core, NothingStranded, [Next]_vars PROVE NothingStranded'
  OBVIOUS
<1>0. Typed /\ SlotHoldsTheTurn /\ conts \in Nat /\ line \in Seq(Msgs \cup {Cont})
  BY DEF Core, Typed, TypeOK
<1>1. None \notin Turns
  BY ConstantsAssumption DEF None, Turns
<1>2. ASSUME Start PROVE slot' # None
  BY <1>1, <1>2 DEF Start
<1>3. ASSUME UNCHANGED <<buf, slot, conts, line>> PROVE NothingStranded'
  BY <1>3 DEF NothingStranded
<1>4. ASSUME NEW m \in Msgs, Serving(m), line' \in {line, Advanced},
             UNCHANGED <<buf, slot, conts>>
      PROVE  NothingStranded'
  BY <1>0, <1>4, ContWaits DEF NothingStranded
<1>5. ASSUME NEW m \in Msgs, Arrive(m) PROVE NothingStranded'
  <2>1. Ran(line') = Ran(line) \cup {m}
    BY <1>0, <1>5, RanAppend DEF Arrive
  <2> QED  BY <1>5, <2>1 DEF Arrive, NothingStranded, queueVars, turnVars
<1>6. ASSUME NEW m \in Msgs, StartTurn(m) PROVE NothingStranded'
  BY <1>2, <1>6 DEF StartTurn, NothingStranded
<1>7. ASSUME NEW m \in Msgs, Buffer(m) PROVE NothingStranded'
  BY <1>7 DEF Buffer, NothingStranded, turnVars
<1>8. CASE ContTicket
  <2>1. Cont \in Ran(line')
    BY <1>0, <1>8, RanAppend DEF ContTicket
  <2> QED  BY <2>1 DEF NothingStranded
<1>9. CASE ContServe
  <2>1. CASE SlotFree /\ buf # <<>>
    BY <1>2, <1>9, <2>1 DEF ContServe, NothingStranded
  <2>2. CASE ~(SlotFree /\ buf # <<>>)
    BY <1>9, <2>2 DEF ContServe, NothingStranded, SlotFree, queueVars, turnVars
  <2> QED  BY <2>1, <2>2
<1>10. ASSUME NEW m \in Msgs, ForwardLands(m) \/ ForwardFails(m) \/ ForwardReturns(m)
       PROVE  NothingStranded'
  <2>1. Serving(m)
    BY <1>0, <1>10 DEF Typed, GateHeld, ForwardLands, ForwardFails, ForwardReturns
  <2>2. line' \in {line, Advanced} /\ UNCHANGED <<buf, slot, conts>>
    BY <1>10 DEF ForwardLands, ForwardFails, ForwardReturns, queueVars, turnVars
  <2> QED  BY <1>4, <2>1, <2>2
<1>11. ASSUME NEW t \in Turns, ReadConsumed(t) PROVE NothingStranded'
  <2>1. slot = t /\ slot' = slot
    BY <1>0, <1>11 DEF ReadConsumed, Unreceived, SlotHoldsTheTurn, Unfinished, turnVars
  <2> QED  BY <1>1, <2>1 DEF NothingStranded
<1>12. ASSUME NEW t, NEW how, End(t, how) PROVE NothingStranded'
  BY <1>0, <1>12 DEF End, NextConts, NothingStranded
<1>13. ASSUME NEW t \in Turns, Ends(t) PROVE NothingStranded'
  BY <1>12, <1>13, EndsEnd
<1>14. ASSUME NEW s \in Stops, CancelTurn(s) PROVE NothingStranded'
  BY <1>3, <1>12, <1>14, CancelEnds DEF gateVars, queueVars, turnVars
<1>15. ASSUME NEW m \in Msgs, LateForward(m) PROVE NothingStranded'
  BY <1>3, <1>15 DEF LateForward, gateVars, queueVars, turnVars
<1>16. ASSUME NEW t \in Turns, HarnessTakes(t) \/ LateTurn(t) \/ ReadCreated(t)
       PROVE  NothingStranded'
  BY <1>3, <1>16 DEF HarnessTakes, LateTurn, ReadCreated, gateVars, queueVars, turnVars
<1>17. ASSUME NEW c \in Ctxs, Consume(c) \/ RunReturns(c) \/ EmitTerminal(c) \/ Teardown(c)
       PROVE  NothingStranded'
  BY <1>3, <1>17
     DEF Consume, RunReturns, EmitTerminal, Teardown, gateVars, queueVars, turnVars
<1>18. ASSUME NEW s \in Stops, Interrupt(s) \/ InterruptLands(s) \/ InterruptFails(s)
       PROVE  NothingStranded'
  BY <1>3, <1>18 DEF Interrupt, InterruptLands, InterruptFails, gateVars, queueVars, turnVars
<1>19. CASE UNCHANGED vars
  BY <1>3, <1>19 DEF vars, gateVars, queueVars, turnVars
<1> QED
  BY <1>5, <1>6, <1>7, <1>8, <1>9, <1>10, <1>11, <1>13, <1>14, <1>15, <1>16, <1>17, <1>18, <1>19
     DEF Next, Gate, Forwarding, Running, Harness, Stopping, Ends

\* A buffered message never waits for a turn that will not come, for any number of
\* messages, interrupts and failures: whatever ends a turn owes a continuation, and
\* the continuation that finds the slot taken leaves the buffer to a turn's end.
THEOREM NobodyStranded == Spec => []NothingStranded
<1>1. Init => NothingStranded
  BY DEF Init, NothingStranded
<1> QED  BY AlwaysCore, <1>1, NextNotStranded, PTL DEF Spec

\* A message the gate has taken up is in the buffer or in the history.
Kept ==
    \A m \in Msgs : post[m] \in {"forward", "reading", "done"} => m \in Ran(buf) \cup Ran(history)

LEMMA NextKept == Core /\ Kept /\ [Next]_vars => Kept'
<1> SUFFICES ASSUME Core, Kept, [Next]_vars PROVE Kept'
  OBVIOUS
<1>0. Typed /\ buf \in Seq(Msgs) /\ history \in Seq(Msgs)
  BY DEF Core, Typed, TypeOK
<1>1. ASSUME \A m \in Msgs : post'[m] \in {"forward", "reading", "done"} =>
                 post[m] \in {"forward", "reading", "done"},
             Ran(buf) \cup Ran(history) \subseteq Ran(buf') \cup Ran(history')
      PROVE  Kept'
  BY <1>1 DEF Kept
<1>2. ASSUME UNCHANGED queueVars
      PROVE  Ran(buf) \cup Ran(history) \subseteq Ran(buf') \cup Ran(history')
  BY <1>2 DEF queueVars
<1>3. ASSUME NEW m \in Msgs, NEW pc, Answer(m, pc)
      PROVE  \A n \in Msgs \ {m} : post'[n] = post[n]
  BY <1>0, <1>3 DEF Answer, Typed, TypeOK
<1>4. ASSUME NEW m \in Msgs, Arrive(m) PROVE Kept'
  <2>1. post'[m] = "line"
    BY <1>0, <1>4 DEF Arrive, Answer, Typed, TypeOK
  <2> QED  BY <1>1, <1>2, <1>3, <1>4, <2>1 DEF Arrive
<1>5. ASSUME NEW m \in Msgs, StartTurn(m) PROVE Kept'
  <2>1. Ran(history') = Ran(history) \cup {m} /\ buf' = buf
    BY <1>0, <1>5, RanAppend DEF StartTurn
  <2>2. \A n \in Msgs \ {m} : post'[n] = post[n]
    BY <1>3, <1>5 DEF StartTurn
  <2> QED  BY <2>1, <2>2 DEF Kept
<1>6. ASSUME NEW m \in Msgs, Buffer(m) PROVE Kept'
  <2>1. Ran(buf') = Ran(buf) \cup {m} /\ history' = history
    BY <1>0, <1>6, RanAppend DEF Buffer, Buffered
  <2>2. \A n \in Msgs \ {m} : post'[n] = post[n]
    BY <1>3, <1>6 DEF Buffer
  <2> QED  BY <2>1, <2>2 DEF Kept
<1>7. CASE ContServe
  <2>1. CASE SlotFree /\ buf # <<>>
    <3>1. history' = history \o buf /\ post' = post
      BY <1>7, <2>1 DEF ContServe
    <3>2. Ran(buf) \cup Ran(history) \subseteq Ran(history')
      BY <1>0, <3>1, RanConcat
    <3> QED  BY <1>1, <3>1, <3>2
  <2>2. CASE ~(SlotFree /\ buf # <<>>)
    BY <1>1, <1>2, <1>7, <2>2 DEF ContServe
  <2> QED  BY <2>1, <2>2
<1>8. ASSUME NEW m \in Msgs, ForwardLands(m) \/ ForwardFails(m) \/ ForwardReturns(m)
      PROVE  Kept'
  <2>1. post[m] \in {"forward", "reading"} /\ UNCHANGED queueVars
    BY <1>8 DEF ForwardLands, ForwardFails, ForwardReturns
  <2>2. \A n \in Msgs \ {m} : post'[n] = post[n]
    BY <1>3, <1>8 DEF ForwardLands, ForwardFails, ForwardReturns
  <2> QED  BY <1>1, <1>2, <2>1, <2>2
<1>9. ASSUME NEW t \in Turns, ReadConsumed(t) PROVE Kept'
  <2>1. post' = post
    BY <1>9 DEF ReadConsumed, gateVars
  <2>2. PICK m : IF m \in Ran(buf)
                 THEN buf' = Without(m) /\ history' = Append(history, m)
                 ELSE UNCHANGED queueVars
    BY <1>9 DEF ReadConsumed
  <2>3. CASE m \in Ran(buf)
    <3>1. m \in Msgs /\ \A n \in Ran(buf) \ {m} : n \in Ran(buf')
      BY <1>0, <2>2, <2>3, WithoutRemoves
    <3>2. Ran(Append(history, m)) = Ran(history) \cup {m}
      BY <1>0, <3>1, RanAppend
    <3>3. Ran(history') = Ran(history) \cup {m}
      BY <2>2, <2>3, <3>2
    <3> QED  BY <1>1, <2>1, <3>1, <3>3
  <2>4. CASE m \notin Ran(buf)
    BY <1>1, <1>2, <2>1, <2>2, <2>4
  <2> QED  BY <2>3, <2>4
<1>10. ASSUME UNCHANGED <<post, buf, history>> PROVE Kept'
  BY <1>10 DEF Kept
<1>11. ASSUME NEW t \in Turns, Ends(t) PROVE Kept'
  BY <1>10, <1>11, EndsEnd DEF End, queueVars
<1>12. ASSUME NEW s \in Stops, CancelTurn(s) PROVE Kept'
  BY <1>10, <1>12, CancelEnds DEF End, gateVars, queueVars
<1>13. ASSUME NEW m \in Msgs, LateForward(m) PROVE Kept'
  BY <1>10, <1>13 DEF LateForward, gateVars, queueVars
<1>14. CASE ContTicket
  BY <1>10, <1>14 DEF ContTicket, queueVars
<1>15. ASSUME NEW t \in Turns, HarnessTakes(t) \/ LateTurn(t) \/ ReadCreated(t) PROVE Kept'
  BY <1>10, <1>15 DEF HarnessTakes, LateTurn, ReadCreated, gateVars, queueVars
<1>16. ASSUME NEW c \in Ctxs, Consume(c) \/ RunReturns(c) \/ EmitTerminal(c) \/ Teardown(c)
       PROVE  Kept'
  BY <1>10, <1>16 DEF Consume, RunReturns, EmitTerminal, Teardown, gateVars, queueVars
<1>17. ASSUME NEW s \in Stops, Interrupt(s) \/ InterruptLands(s) \/ InterruptFails(s) PROVE Kept'
  BY <1>10, <1>17 DEF Interrupt, InterruptLands, InterruptFails, gateVars, queueVars
<1>18. CASE UNCHANGED vars
  BY <1>10, <1>18 DEF vars, gateVars, queueVars
<1> QED
  BY <1>4, <1>5, <1>6, <1>7, <1>8, <1>9, <1>11, <1>12, <1>13, <1>14, <1>15, <1>16, <1>17, <1>18
     DEF Next, Gate, Forwarding, Running, Harness, Stopping, Ends

\* The runner never loses a message it has answered, for any number of messages,
\* interrupts and failures: the message is in the buffer or in the history, whatever
\* became of its forward and of the turn it was forwarded into.
THEOREM AnsweredIsKept == Spec => []NoMessageLost
<1>1. Init => Kept
  BY DEF Init, Kept
<1>2. Kept => NoMessageLost
  BY DEF Kept, NoMessageLost
<1> QED  BY AlwaysCore, <1>1, <1>2, NextKept, PTL DEF Spec
-----------------------------------------------------------------------------
(* The flag of an interrupt *)

LEMMA NextFlagFresh == Core /\ InterruptFlagFresh /\ [Next]_vars => InterruptFlagFresh'
<1> SUFFICES ASSUME Core, InterruptFlagFresh, [Next]_vars PROVE InterruptFlagFresh'
  OBVIOUS
<1>0. Typed /\ Aimed /\ stop \in [Stops -> [pc : {"idle", "forward", "cancel", "done"},
                                         target : Turns \cup {None}]]
  BY DEF Core, Typed, TypeOK
<1>1. ASSUME UNCHANGED <<interrupted, slot, stop>> PROVE InterruptFlagFresh'
  BY <1>1 DEF InterruptFlagFresh
<1>2. slot = None => ~interrupted
  BY <1>0 DEF InterruptFlagFresh, Aimed
<1>3. ASSUME slot = None, Start PROVE InterruptFlagFresh'
  BY <1>2, <1>3 DEF Start, InterruptFlagFresh
<1>4. ASSUME NEW t, NEW how, End(t, how) PROVE InterruptFlagFresh'
  BY <1>4 DEF End, FlagAfterEnd, InterruptFlagFresh
<1>5. ASSUME NEW m \in Msgs, StartTurn(m) PROVE InterruptFlagFresh'
  BY <1>3, <1>5 DEF StartTurn
<1>6. CASE ContServe
  <2>1. CASE SlotFree /\ buf # <<>>
    BY <1>3, <1>6, <2>1 DEF ContServe, SlotFree
  <2>2. CASE ~(SlotFree /\ buf # <<>>)
    BY <1>1, <1>6, <2>2 DEF ContServe, turnVars, stopVars
  <2> QED  BY <2>1, <2>2
<1>7. ASSUME NEW t \in Turns, Ends(t) PROVE InterruptFlagFresh'
  BY <1>4, <1>7, EndsEnd
<1>8. ASSUME NEW s \in Stops, Interrupt(s) PROVE InterruptFlagFresh'
  <2>1. stop'[s].pc = "forward" /\ stop'[s].target = slot /\ slot' = slot
    BY <1>0, <1>8 DEF Interrupt
  <2> QED  BY <2>1 DEF InterruptFlagFresh
<1>9. ASSUME NEW s \in Stops, InterruptLands(s) \/ InterruptFails(s) PROVE InterruptFlagFresh'
  <2>1. /\ stop' = [stop EXCEPT ![s].pc = "cancel"] /\ stop[s].pc = "forward"
        /\ UNCHANGED <<interrupted, slot>>
    BY <1>9 DEF InterruptLands, InterruptFails, Goto, turnVars
  <2>2. \A i \in Stops : /\ stop'[i].target = stop[i].target
                         /\ stop[i].pc \in {"forward", "cancel"} =>
                                stop'[i].pc \in {"forward", "cancel"}
    BY <1>0, <2>1
  <2> QED  BY <2>1, <2>2 DEF InterruptFlagFresh
<1>10. ASSUME NEW s \in Stops, CancelTurn(s) PROVE InterruptFlagFresh'
  <2>1. CASE slot = stop[s].target
    BY <1>4, <1>10, <2>1, CancelEnds
  <2>2. CASE slot # stop[s].target
    <3>1. UNCHANGED <<interrupted, slot>>
      BY <1>10, <2>2, CancelEnds DEF turnVars
    <3>2. \A i \in Stops \ {s} : stop'[i] = stop[i]
      BY <1>0, <1>10 DEF CancelTurn
    <3> QED  BY <2>2, <3>1, <3>2 DEF InterruptFlagFresh
  <2> QED  BY <2>1, <2>2
<1>11. ASSUME NEW t \in Turns, HarnessTakes(t) PROVE InterruptFlagFresh'
  BY <1>1, <1>11 DEF HarnessTakes, stopVars
<1>12. ASSUME NEW m \in Msgs, \/ Arrive(m) \/ Buffer(m) \/ ForwardLands(m) \/ ForwardFails(m)
                              \/ ForwardReturns(m) \/ LateForward(m)
       PROVE  InterruptFlagFresh'
  BY <1>1, <1>12
     DEF Arrive, Buffer, ForwardLands, ForwardFails, ForwardReturns, LateForward, turnVars, stopVars
<1>13. CASE ContTicket
  BY <1>1, <1>13 DEF ContTicket, turnVars, stopVars
<1>14. ASSUME NEW t \in Turns, LateTurn(t) \/ ReadCreated(t) \/ ReadConsumed(t)
       PROVE  InterruptFlagFresh'
  BY <1>1, <1>14 DEF LateTurn, ReadCreated, ReadConsumed, turnVars, stopVars
<1>15. ASSUME NEW c \in Ctxs, Consume(c) \/ RunReturns(c) \/ EmitTerminal(c) \/ Teardown(c)
       PROVE  InterruptFlagFresh'
  BY <1>1, <1>15 DEF Consume, RunReturns, EmitTerminal, Teardown, turnVars, stopVars
<1>16. CASE UNCHANGED vars
  BY <1>1, <1>16 DEF vars, turnVars, stopVars
<1> QED
  BY <1>5, <1>6, <1>7, <1>8, <1>9, <1>10, <1>11, <1>12, <1>13, <1>14, <1>15, <1>16
     DEF Next, Gate, Forwarding, Running, Harness, Stopping, Ends

\* The flag of an interrupt never taints a later turn, for any number of interrupts
\* that overlap: while it is set the turn it was set for is in the slot, so no turn
\* starts with it set.
THEOREM FlagIsFresh == Spec => []InterruptFlagFresh
<1>1. Init => InterruptFlagFresh
  BY DEF Init, InterruptFlagFresh
<1> QED  BY AlwaysCore, <1>1, NextFlagFresh, PTL DEF Spec

-----------------------------------------------------------------------------
(* The finished turn and its context *)

HasEnd(t) == \E i \in 1 .. Len(stream[t]) : stream[t][i].kind = "end"

\* Only a turn that reads has a response to read, and from the end of its response
\* on, sent or read, the turn of a context is not the one to inject into.
ResponseOver ==
    \A t \in Turns : /\ turn[t] # "streaming" => ~HasEnd(t)
                     /\ turn[t] = "ended" \/ HasEnd(t) => active # t

LEMMA EmitEnds ==
    ASSUME TypeOK, NEW c \in Ctxs, NEW event \in Events, Emit(c, event), NEW t \in Turns,
           HasEnd(t)'
    PROVE  HasEnd(t) \/ (t = c /\ event.kind = "end" /\ turn[t] = "streaming")
<1>1. stream \in [Turns -> Seq(Events)]
  BY DEF TypeOK, Events
<1>2. CASE c = t /\ turn[t] = "streaming"
  <2>1. stream'[t] = Append(stream[t], event) /\ stream[t] \in Seq(Events)
    BY <1>1, <1>2 DEF Emit
  <2>2. PICK i \in 1 .. Len(stream'[t]) : stream'[t][i].kind = "end"
    BY DEF HasEnd
  <2>3. CASE i \in 1 .. Len(stream[t])
    <3>1. stream'[t][i] = stream[t][i]
      BY <2>1, <2>3
    <3> QED  BY <2>2, <2>3, <3>1 DEF HasEnd
  <2>4. CASE i \notin 1 .. Len(stream[t])
    <3>1. i = Len(stream[t]) + 1
      BY <2>1, <2>2, <2>4
    <3>2. stream'[t][i] = event
      BY <2>1, <3>1
    <3> QED  BY <1>2, <2>2, <3>2
  <2> QED  BY <2>3, <2>4
<1>3. CASE ~(c = t /\ turn[t] = "streaming")
  <2>1. stream'[t] = stream[t]
    BY <1>1, <1>3 DEF Emit
  <2> QED  BY <2>1 DEF HasEnd
<1> QED  BY <1>2, <1>3

LEMMA TailEnds ==
    ASSUME NEW s \in Seq(Events), s # <<>>, NEW i \in 1 .. Len(Tail(s)), Tail(s)[i].kind = "end"
    PROVE  \E j \in 1 .. Len(s) : s[j].kind = "end"
<1>1. Len(s) \in Nat /\ Len(Tail(s)) = Len(s) - 1 /\ \A j \in 1 .. Len(Tail(s)) : Tail(s)[j] = s[j + 1]
  BY HeadTailProperties
<1>2. i + 1 \in 1 .. Len(s)
  BY <1>1
<1> QED  BY <1>1, <1>2

LEMMA ReadEnds ==
    ASSUME TypeOK, NEW t \in Turns, Unreceived(t), Read(t), NEW u \in Turns, HasEnd(u)'
    PROVE  HasEnd(u)
<1>1. stream \in [Turns -> Seq(Events)]
  BY DEF TypeOK, Events
<1>2. CASE u = t
  <2>1. stream'[u] = Tail(stream[u]) /\ stream[u] \in Seq(Events) /\ stream[u] # <<>>
    BY <1>1, <1>2 DEF Read, Unreceived
  <2> QED  BY <2>1, TailEnds DEF HasEnd
<1>3. CASE u # t
  <2>1. stream'[u] = stream[u]
    BY <1>1, <1>3 DEF Read
  <2> QED  BY <2>1 DEF HasEnd
<1> QED  BY <1>2, <1>3
LEMMA NextResponseOver == Core /\ ResponseOver /\ [Next]_vars => ResponseOver'
<1> SUFFICES ASSUME Core, ResponseOver, [Next]_vars PROVE ResponseOver'
  OBVIOUS
<1>0. /\ Typed /\ TypeOK /\ stream \in [Turns -> Seq(Events)] /\ None \notin Turns
      /\ turn \in [Turns -> Unfinished \cup {"unused", "ended", "broken"}]
  <2>1. Typed /\ TypeOK
    BY DEF Core, Typed
  <2>2. None \notin Turns
    BY ConstantsAssumption DEF None, Turns
  <2> QED  BY <2>1, <2>2 DEF TypeOK, Events
<1>1. ASSUME UNCHANGED <<turn, stream>>, active' = active \/ active' \notin Turns
      PROVE  ResponseOver'
  BY <1>1 DEF ResponseOver, HasEnd
<1>2. ASSUME Start, UNCHANGED <<stream, active>> PROVE ResponseOver'
  <2>1. PICK t \in Turns : turn[t] = "unused" /\ turn' = [turn EXCEPT ![t] = "setup"]
    BY <1>2 DEF Start
  <2> QED  BY <1>0, <1>2, <2>1 DEF ResponseOver, HasEnd
<1>3. ASSUME NEW m \in Msgs, StartTurn(m) PROVE ResponseOver'
  BY <1>2, <1>3 DEF StartTurn, wireVars, harnessVars
<1>4. CASE ContServe
  <2>1. CASE SlotFree /\ buf # <<>>
    BY <1>2, <1>4, <2>1 DEF ContServe, wireVars, harnessVars
  <2>2. CASE ~(SlotFree /\ buf # <<>>)
    BY <1>1, <1>4, <2>2 DEF ContServe, turnVars, wireVars, harnessVars
  <2> QED  BY <2>1, <2>2
<1>5. ASSUME NEW m \in Msgs, ForwardLands(m) \/ LateForward(m) PROVE ResponseOver'
  <2>1. active' = active \/ active' = OwnCtx(m)
    BY <1>5 DEF ForwardLands, LateForward, NewContext, harnessVars
  <2>2. UNCHANGED <<turn, stream>>
    BY <1>5 DEF ForwardLands, LateForward, turnVars, wireVars
  <2> QED  BY <1>1, <2>1, <2>2, CtxsOfBoth
<1>6. ASSUME NEW t \in Turns, HarnessTakes(t) PROVE ResponseOver'
  <2>1. /\ turn' = [turn EXCEPT ![t] = "streaming"]
        /\ active' = active \/ active' = t
    BY <1>6 DEF HarnessTakes, NewContext, harnessVars
  <2>2. PICK kind \in {"created", "rejected"} : stream' = [stream EXCEPT ![t] = <<Event(kind)>>]
    BY <1>6 DEF HarnessTakes
  <2>3. stream'[t] = <<Event(kind)>> /\ \A u \in Turns \ {t} : stream'[u] = stream[u]
    BY <1>0, <2>2
  <2>4. ~HasEnd(t)'
    BY <2>3 DEF HasEnd, Event
  <2>5. \A u \in Turns \ {t} : HasEnd(u)' => HasEnd(u)
    BY <2>3 DEF HasEnd
  <2>6. turn'[t] = "streaming" /\ \A u \in Turns \ {t} : turn'[u] = turn[u]
    BY <1>0, <2>1
  <2> QED  BY <2>1, <2>4, <2>5, <2>6 DEF ResponseOver
<1>7. ASSUME NEW t \in Turns, LateTurn(t) PROVE ResponseOver'
  <2>1. turn[t] = "broken" /\ UNCHANGED <<turn, stream>> /\ (active' = active \/ active' = t)
    BY <1>0, <1>7 DEF LateTurn, Typed, Late, NewContext, turnVars, harnessVars
  <2>2. \A u \in Turns : HasEnd(u)' => HasEnd(u)
    BY <2>1 DEF HasEnd
  <2>3. turn'[t] = "broken" /\ ~HasEnd(t)
    BY <2>1 DEF ResponseOver
  <2>4. ASSUME NEW u \in Turns
        PROVE  /\ turn'[u] # "streaming" => ~HasEnd(u)'
               /\ turn'[u] = "ended" \/ HasEnd(u)' => active' # u
    BY <2>1, <2>2, <2>3 DEF ResponseOver
  <2> QED  BY <2>4 DEF ResponseOver
<1>8. ASSUME NEW c \in Ctxs, Consume(c) PROVE ResponseOver'
  <2>1. UNCHANGED <<turn, active>>
    BY <1>8 DEF Consume, turnVars
  <2>2. CASE context = {}
    BY <1>1, <1>8, <2>1, <2>2 DEF Consume
  <2>3. CASE context # {}
    <3>1. inject[c] # <<>> /\ inject[c] \in Seq(Msgs)
      BY <1>0, <1>8 DEF Consume, TypeOK
    <3>2. PICK m \in Msgs : Emit(c, [kind |-> "consumed", msg |-> m])
      BY <1>8, <2>3, <3>1 DEF Consume
    <3>3. [kind |-> "consumed", msg |-> m] \in Events
      BY DEF Events
    <3>4. \A u \in Turns : HasEnd(u)' => HasEnd(u)
      BY <1>0, <3>2, <3>3, EmitEnds
    <3> QED  BY <2>1, <3>4 DEF ResponseOver
  <2> QED  BY <2>2, <2>3
<1>9. ASSUME NEW c \in Ctxs, EmitTerminal(c) PROVE ResponseOver'
  <2>1. UNCHANGED turn /\ active' = Unset(c) /\ Emit(c, Event("end"))
    BY <1>9 DEF EmitTerminal, turnVars
  <2>2. active' # c \/ c \notin Turns
    BY <1>0, <2>1 DEF Unset
  <2>3. active' = active \/ active' = None
    BY <2>1 DEF Unset
  <2>4. \A u \in Turns : HasEnd(u)' => HasEnd(u) \/ (u = c /\ turn[u] = "streaming")
    BY <1>0, <2>1, EmitEnds, EventTyped
  <2> QED  BY <1>0, <2>1, <2>2, <2>3, <2>4 DEF ResponseOver
<1>10. ASSUME NEW c \in Ctxs, RunReturns(c) \/ Teardown(c) PROVE ResponseOver'
  <2>1. active' = active \/ active' = None
    BY <1>10 DEF RunReturns, Teardown
  <2>2. UNCHANGED <<turn, stream>>
    BY <1>10 DEF RunReturns, Teardown, turnVars, wireVars
  <2> QED  BY <1>0, <1>1, <2>1, <2>2
<1>11. ASSUME NEW t \in Turns, ReadCreated(t) \/ ReadConsumed(t) PROVE ResponseOver'
  <2>1. UNCHANGED <<turn, active>> /\ Unreceived(t) /\ Read(t)
    BY <1>11 DEF ReadCreated, ReadConsumed, turnVars, harnessVars
  <2>2. \A u \in Turns : HasEnd(u)' => HasEnd(u)
    BY <1>0, <2>1, ReadEnds
  <2> QED  BY <2>1, <2>2 DEF ResponseOver
<1>12. ASSUME NEW t \in Turns, NEW how \in {"ended", "broken"}, End(t, how), active' = active,
              how = "ended" => HasEnd(t)
       PROVE  ResponseOver'
  <2>1. /\ turn'[t] = how /\ stream'[t] = <<>>
        /\ \A u \in Turns \ {t} : turn'[u] = turn[u] /\ stream'[u] = stream[u]
    BY <1>0, <1>12 DEF End
  <2>2. ~HasEnd(t)' /\ \A u \in Turns \ {t} : HasEnd(u)' => HasEnd(u)
    BY <2>1 DEF HasEnd
  <2> QED  BY <1>12, <2>1, <2>2 DEF ResponseOver
<1>13. ASSUME NEW t \in Turns, Ends(t) PROVE ResponseOver'
  <2>1. active' = active
    BY <1>13
       DEF Ends, SetupFails, StreamBreaks, ReadRejected, ReadEnd, harnessVars
  <2>2. CASE End(t, "broken")
    BY <1>12, <2>1, <2>2
  <2>3. CASE ReadEnd(t) /\ End(t, "ended")
    <3>1. stream[t] \in Seq(Events) /\ stream[t] # <<>> /\ Head(stream[t]).kind = "end"
      BY <1>0, <2>3 DEF ReadEnd, Unreceived
    <3>2. 1 \in 1 .. Len(stream[t]) /\ stream[t][1] = Head(stream[t])
      BY <3>1
    <3>3. HasEnd(t)
      BY <3>1, <3>2 DEF HasEnd
    <3> QED  BY <1>12, <2>1, <2>3, <3>3
  <2> QED
    BY <1>13, <2>2, <2>3 DEF Ends, SetupFails, StreamBreaks, ReadRejected, ReadEnd
<1>14. ASSUME NEW s \in Stops, CancelTurn(s) PROVE ResponseOver'
  <2>1. active' = active
    BY <1>14 DEF CancelTurn, harnessVars
  <2>2. CASE slot \in Turns /\ End(slot, "broken")
    BY <1>12, <2>1, <2>2
  <2>3. CASE UNCHANGED <<gateVars, queueVars, turnVars, faults, wireVars, harnessVars>>
    BY <1>1, <2>1, <2>3 DEF turnVars, wireVars
  <2> QED  BY <1>14, <2>2, <2>3, CancelEnds
<1>15. ASSUME NEW m \in Msgs, Arrive(m) \/ Buffer(m) \/ ForwardFails(m) \/ ForwardReturns(m)
       PROVE  ResponseOver'
  BY <1>1, <1>15
     DEF Arrive, Buffer, ForwardFails, ForwardReturns, turnVars, wireVars, harnessVars
<1>16. CASE ContTicket
  BY <1>1, <1>16 DEF ContTicket, turnVars, wireVars, harnessVars
<1>17. ASSUME NEW s \in Stops, Interrupt(s) \/ InterruptLands(s) \/ InterruptFails(s)
       PROVE  ResponseOver'
  <2>1. active' = active \/ active' = None
    BY <1>17 DEF Interrupt, InterruptLands, InterruptFails, harnessVars
  <2>2. UNCHANGED <<turn, stream>>
    BY <1>17 DEF Interrupt, InterruptLands, InterruptFails, turnVars, wireVars
  <2> QED  BY <1>0, <1>1, <2>1, <2>2
<1>18. CASE UNCHANGED vars
  BY <1>1, <1>18 DEF vars, turnVars, wireVars, harnessVars
<1> QED
  BY <1>3, <1>4, <1>5, <1>6, <1>7, <1>8, <1>9, <1>10, <1>11, <1>13, <1>14, <1>15, <1>16, <1>17,
     <1>18
     DEF Next, Gate, Forwarding, Running, Harness, Stopping, Ends

\* The scaffold keeps its promise to the continuation turn, however late forwards,
\* given-up requests and interrupts arrive: by the time the runner has read the end
\* of a turn, its context takes no injection any more.
THEOREM FinishedTakesNone == Spec => []FinishedTurnNotInjectable
<1>1. Init => ResponseOver
  BY DEF Init, ResponseOver, HasEnd
<1>2. ResponseOver => FinishedTurnNotInjectable
  BY DEF ResponseOver, FinishedTurnNotInjectable
<1> QED  BY AlwaysCore, <1>1, <1>2, NextResponseOver, PTL DEF Spec

-----------------------------------------------------------------------------
(* Nobody waits for what will not come *)

\* The handler of message m waits for the gate, or holds it.
InLine(m) == post[m] \in {"line", "forward", "reading"}

\* The gate's line is what its users are: the messages in it are those whose handlers
\* wait or hold the gate, each once, so that no ticket is lost or left behind.
GateQueue ==
    /\ \A m \in Msgs : InLine(m) <=> m \in Ran(line)
    /\ \A i, j \in 1 .. Len(line) : line[i] = line[j] /\ line[i] # Cont => i = j

\* The response of turn t, as far as it is unread, has its last event.
Closes(t) == \E i \in 1 .. Len(stream[t]) : stream[t][i].kind \in {"end", "rejected"}

\* A turn that reads has the end of its response ahead, or a context that will emit it.
ResponseComes ==
    \A t \in Turns : turn[t] = "streaming" => Closes(t) \/ ctx[t] \in {"running", "returned"}

\* Somebody joins the line.
LEMMA LineJoined ==
    ASSUME TypeOK, GateQueue, NEW h \in Msgs \cup {Cont}, line' = Append(line, h),
           h = Cont \/ h \notin Ran(line),
           \A m \in Msgs : InLine(m)' <=> InLine(m) \/ m = h
    PROVE  GateQueue'
<1>0. line \in Seq(Msgs \cup {Cont}) /\ Len(line) \in Nat /\ DOMAIN line = 1 .. Len(line)
  BY DEF TypeOK
<1>1. /\ Len(line') = Len(line) + 1 /\ line'[Len(line) + 1] = h
      /\ \A i \in 1 .. Len(line) : line'[i] = line[i]
  BY <1>0
<1>2. Ran(line') = Ran(line) \cup {h}
  BY <1>0, RanAppend
<1>3. \A m \in Msgs : InLine(m)' <=> m \in Ran(line')
  BY <1>2 DEF GateQueue
<1>4. ASSUME NEW i \in 1 .. Len(line'), NEW j \in 1 .. Len(line'), line'[i] = line'[j],
             line'[i] # Cont
      PROVE  i = j
  <2>1. \A k \in 1 .. Len(line) : line[k] \in Ran(line)
    BY <1>0 DEF Ran
  <2>2. \A k \in 1 .. Len(line') : k \in 1 .. Len(line) \/ k = Len(line) + 1
    BY <1>0, <1>1
  <2>3. CASE i \in 1 .. Len(line) /\ j \in 1 .. Len(line)
    BY <1>1, <1>4, <2>3 DEF GateQueue
  <2>4. CASE i = Len(line) + 1 /\ j \in 1 .. Len(line)
    BY <1>1, <1>4, <2>1, <2>4
  <2>5. CASE i \in 1 .. Len(line) /\ j = Len(line) + 1
    BY <1>1, <1>4, <2>1, <2>5
  <2> QED  BY <2>2, <2>3, <2>4, <2>5
<1> QED  BY <1>3, <1>4 DEF GateQueue

\* The holder of the gate leaves it.
LEMMA LineLeft ==
    ASSUME TypeOK, GateQueue, NEW h \in Msgs \cup {Cont}, Serving(h), line' = Advanced,
           \A m \in Msgs \ {h} : InLine(m)' <=> InLine(m),
           h \in Msgs => ~InLine(h)'
    PROVE  GateQueue'
<1>0. /\ line \in Seq(Msgs \cup {Cont}) /\ line # <<>> /\ Len(line) \in Nat
      /\ DOMAIN line = 1 .. Len(line) /\ line[1] = h /\ line' = Tail(line)
  BY DEF TypeOK, Serving, Advanced
<1>1. /\ Tail(line) \in Seq(Msgs \cup {Cont}) /\ Len(Tail(line)) = Len(line) - 1
      /\ DOMAIN Tail(line) = 1 .. Len(Tail(line))
      /\ \A i \in 1 .. Len(Tail(line)) : Tail(line)[i] = line[i + 1]
  BY <1>0, HeadTailProperties
<1>2. \A i \in 1 .. Len(Tail(line)) : i + 1 \in 1 .. Len(line) /\ i + 1 # 1
  BY <1>0, <1>1
<1>3. ASSUME NEW i \in 1 .. Len(line'), NEW j \in 1 .. Len(line'), line'[i] = line'[j],
             line'[i] # Cont
      PROVE  i = j
  <2>1. i + 1 = j + 1
    BY <1>0, <1>1, <1>2, <1>3 DEF GateQueue
  <2> QED  BY <2>1
<1>4. ASSUME NEW m \in Msgs PROVE InLine(m)' <=> m \in Ran(line')
  <2>1. m \in Ran(line') => m \in Ran(line)
    BY <1>0, <1>1, <1>2 DEF Ran
  <2>2. CASE m # h
    <3>1. m \in Ran(line) => m \in Ran(line')
      BY <1>0, <2>2, RanTail DEF Serving
    <3> QED  BY <2>1, <2>2, <3>1 DEF GateQueue
  <2>3. CASE m = h
    <3>1. m # Cont
      BY ConstantsAssumption DEF Msgs, Cont
    <3>2. 1 \in 1 .. Len(line)
      BY <1>0
    <3>3. \A i \in 1 .. Len(Tail(line)) : line[i + 1] # m
      BY <1>0, <1>2, <2>3, <3>1, <3>2 DEF GateQueue
    <3>4. m \notin Ran(line')
      BY <1>0, <1>1, <3>3 DEF Ran
    <3> QED  BY <2>3, <3>4
  <2> QED  BY <2>2, <2>3
<1> QED  BY <1>3, <1>4 DEF GateQueue

LEMMA NextQueues == Core /\ GateQueue /\ [Next]_vars => GateQueue'
<1> SUFFICES ASSUME Core, GateQueue, [Next]_vars PROVE GateQueue'
  OBVIOUS
<1>0. TypeOK /\ Typed /\ Cont \notin Msgs
  <2>1. Cont \notin Msgs
    BY ConstantsAssumption DEF Msgs, Cont
  <2> QED  BY <2>1 DEF Core, Typed
<1>1. ASSUME UNCHANGED line, \A m \in Msgs : InLine(m)' <=> InLine(m) PROVE GateQueue'
  BY <1>1 DEF GateQueue
<1>2. ASSUME UNCHANGED <<line, post>> PROVE GateQueue'
  BY <1>1, <1>2 DEF InLine
<1>3. ASSUME NEW m \in Msgs, NEW pc, Answer(m, pc)
      PROVE  post'[m] = pc /\ \A n \in Msgs \ {m} : post'[n] = post[n]
  BY <1>0, <1>3 DEF Answer, TypeOK
\* A message's handler is done with the gate.
<1>4. ASSUME NEW m \in Msgs, Serving(m), Answer(m, "done"), line' = Advanced PROVE GateQueue'
  <2>1. ~InLine(m)' /\ \A n \in Msgs \ {m} : InLine(n)' <=> InLine(n)
    BY <1>3, <1>4 DEF InLine
  <2> QED  BY <1>0, <1>4, <2>1, LineLeft
<1>5. ASSUME NEW m \in Msgs, Arrive(m) PROVE GateQueue'
  <2>1. m \notin Ran(line)
    BY <1>5 DEF Arrive, GateQueue, InLine
  <2>2. \A n \in Msgs : InLine(n)' <=> InLine(n) \/ n = m
    BY <1>3, <1>5 DEF Arrive, InLine
  <2> QED  BY <1>0, <1>5, <2>1, <2>2, LineJoined DEF Arrive
<1>6. ASSUME NEW m \in Msgs, StartTurn(m) PROVE GateQueue'
  BY <1>4, <1>6 DEF StartTurn
<1>7. ASSUME NEW m \in Msgs, Buffer(m) PROVE GateQueue'
  <2>1. CASE Answer(m, "forward") /\ UNCHANGED line
    <3>1. InLine(m) /\ InLine(m)'
      BY <1>3, <1>7, <2>1 DEF Buffer, InLine
    <3>2. \A n \in Msgs \ {m} : InLine(n)' <=> InLine(n)
      BY <1>3, <2>1 DEF InLine
    <3> QED  BY <1>1, <2>1, <3>1, <3>2
  <2>2. CASE Answer(m, "done") /\ line' = Advanced
    BY <1>4, <1>7, <2>2 DEF Buffer
  <2> QED  BY <1>7, <2>1, <2>2 DEF Buffer
<1>8. CASE ContTicket
  <2>1. \A n \in Msgs : InLine(n)' <=> InLine(n) \/ n = Cont
    BY <1>0, <1>8 DEF ContTicket, InLine
  <2> QED  BY <1>0, <1>8, <2>1, LineJoined DEF ContTicket
<1>9. CASE ContServe
  <2>1. \A n \in Msgs \ {Cont} : InLine(n)' <=> InLine(n)
    BY <1>9 DEF ContServe, InLine
  <2> QED  BY <1>0, <1>9, <2>1, LineLeft DEF ContServe
<1>10. ASSUME NEW m \in Msgs, ForwardLands(m) \/ ForwardFails(m) \/ ForwardReturns(m)
       PROVE  GateQueue'
  <2>1. Serving(m) /\ InLine(m)
    BY <1>0, <1>10 DEF Typed, GateHeld, ForwardLands, ForwardFails, ForwardReturns, InLine
  <2>2. CASE Answer(m, "reading") /\ UNCHANGED line
    <3>1. InLine(m)' /\ \A n \in Msgs \ {m} : InLine(n)' <=> InLine(n)
      BY <1>3, <2>2 DEF InLine
    <3> QED  BY <1>1, <2>1, <2>2, <3>1
  <2>3. CASE Answer(m, "done") /\ line' = Advanced
    BY <1>4, <2>1, <2>3
  <2> QED  BY <1>10, <2>2, <2>3 DEF ForwardLands, ForwardFails, ForwardReturns
<1>11. ASSUME NEW m \in Msgs, LateForward(m) PROVE GateQueue'
  BY <1>2, <1>11 DEF LateForward, gateVars
<1>12. ASSUME NEW t \in Turns, \/ HarnessTakes(t) \/ LateTurn(t) \/ ReadCreated(t)
                               \/ ReadConsumed(t)
       PROVE  GateQueue'
  BY <1>2, <1>12 DEF HarnessTakes, LateTurn, ReadCreated, ReadConsumed, gateVars
<1>13. ASSUME NEW t \in Turns, Ends(t) PROVE GateQueue'
  BY <1>2, <1>13, EndsEnd DEF End
<1>14. ASSUME NEW c \in Ctxs, Consume(c) \/ RunReturns(c) \/ EmitTerminal(c) \/ Teardown(c)
       PROVE  GateQueue'
  BY <1>2, <1>14 DEF Consume, RunReturns, EmitTerminal, Teardown, gateVars
<1>15. ASSUME NEW s \in Stops, Interrupt(s) \/ InterruptLands(s) \/ InterruptFails(s)
       PROVE  GateQueue'
  BY <1>2, <1>15 DEF Interrupt, InterruptLands, InterruptFails, gateVars
<1>16. ASSUME NEW s \in Stops, CancelTurn(s) PROVE GateQueue'
  BY <1>2, <1>16, CancelEnds DEF End, gateVars
<1>17. CASE UNCHANGED vars
  BY <1>2, <1>17 DEF vars, gateVars
<1> QED
  BY <1>5, <1>6, <1>7, <1>8, <1>9, <1>10, <1>11, <1>12, <1>13, <1>14, <1>15, <1>16, <1>17
     DEF Next, Gate, Forwarding, Running, Harness, Stopping, Ends

\* An event that is emitted, or one read ahead of it, leaves the last event there.
LEMMA EmitCloses ==
    ASSUME TypeOK, NEW c \in Ctxs, NEW event \in Events, Emit(c, event), NEW t \in Turns
    PROVE  /\ Closes(t) => Closes(t)'
           /\ t = c /\ turn[t] = "streaming" /\ event.kind = "end" => Closes(t)'
<1>1. stream \in [Turns -> Seq(Events)]
  BY DEF TypeOK, Events
<1>2. CASE c = t /\ turn[t] = "streaming"
  <2>1. stream'[t] = Append(stream[t], event) /\ stream[t] \in Seq(Events)
    BY <1>1, <1>2 DEF Emit
  <2>2. /\ Len(stream[t]) \in Nat /\ Len(stream'[t]) = Len(stream[t]) + 1
        /\ stream'[t][Len(stream[t]) + 1] = event
        /\ \A i \in 1 .. Len(stream[t]) : stream'[t][i] = stream[t][i]
    BY <2>1
  <2>3. /\ Len(stream[t]) + 1 \in 1 .. Len(stream'[t])
        /\ \A i \in 1 .. Len(stream[t]) : i \in 1 .. Len(stream'[t])
    BY <2>2
  <2> QED  BY <2>2, <2>3 DEF Closes
<1>3. CASE ~(c = t /\ turn[t] = "streaming")
  <2>1. stream'[t] = stream[t]
    BY <1>1, <1>3 DEF Emit
  <2> QED  BY <1>3, <2>1 DEF Closes
<1> QED  BY <1>2, <1>3

LEMMA ReadCloses ==
    ASSUME TypeOK, NEW t \in Turns, Unreceived(t), Read(t),
           Head(stream[t]).kind \in {"created", "consumed"}, NEW u \in Turns, Closes(u)
    PROVE  Closes(u)'
<1>1. stream \in [Turns -> Seq(Events)]
  BY DEF TypeOK, Events
<1>2. CASE u = t
  <2>1. stream'[u] = Tail(stream[u]) /\ stream[u] \in Seq(Events) /\ stream[u] # <<>>
    BY <1>1, <1>2 DEF Read, Unreceived
  <2>2. /\ Len(stream[u]) \in Nat /\ Head(stream[u]) = stream[u][1]
        /\ Len(Tail(stream[u])) = Len(stream[u]) - 1
        /\ \A j \in 1 .. Len(Tail(stream[u])) : Tail(stream[u])[j] = stream[u][j + 1]
    BY <2>1, HeadTailProperties
  <2>3. PICK i \in 1 .. Len(stream[u]) : stream[u][i].kind \in {"end", "rejected"}
    BY DEF Closes
  <2>4. i # 1
    BY <1>2, <2>2, <2>3
  <2>5. i - 1 \in 1 .. Len(stream[u]) - 1 /\ i - 1 + 1 = i
    BY <2>2, <2>3, <2>4
  <2>6. i - 1 \in 1 .. Len(stream'[u]) /\ stream'[u][i - 1] = stream[u][i]
    BY <2>1, <2>2, <2>5
  <2> QED  BY <2>3, <2>6 DEF Closes
<1>3. CASE u # t
  <2>1. stream'[u] = stream[u]
    BY <1>1, <1>3 DEF Read
  <2> QED  BY <2>1 DEF Closes
<1> QED  BY <1>2, <1>3

LEMMA NextComes == Core /\ ResponseComes /\ [Next]_vars => ResponseComes'
<1> SUFFICES ASSUME Core, ResponseComes, [Next]_vars PROVE ResponseComes'
  OBVIOUS
<1>0. /\ Typed /\ TypeOK /\ stream \in [Turns -> Seq(Events)]
      /\ turn \in [Turns -> Unfinished \cup {"unused", "ended", "broken"}]
      /\ ctx \in [Ctxs -> {"none", "running", "returned", "over", "gone"}]
  BY DEF Core, Typed, TypeOK, Events
<1>1. ASSUME UNCHANGED <<turn, stream>>,
             \A t \in Turns : turn[t] = "streaming" /\ ctx[t] \in {"running", "returned"} =>
                 ctx'[t] \in {"running", "returned"}
      PROVE  ResponseComes'
  BY <1>1 DEF ResponseComes, Closes
<1>2. ASSUME UNCHANGED <<turn, stream, ctx>> PROVE ResponseComes'
  BY <1>1, <1>2
<1>3. ASSUME Start, UNCHANGED <<stream, ctx>> PROVE ResponseComes'
  <2>1. PICK t \in Turns : turn' = [turn EXCEPT ![t] = "setup"]
    BY <1>3 DEF Start
  <2> QED  BY <1>0, <1>3, <2>1 DEF ResponseComes, Closes
<1>4. ASSUME NEW m \in Msgs, StartTurn(m) PROVE ResponseComes'
  BY <1>3, <1>4 DEF StartTurn, wireVars, harnessVars
<1>5. CASE ContServe
  <2>1. CASE SlotFree /\ buf # <<>>
    BY <1>3, <1>5, <2>1 DEF ContServe, wireVars, harnessVars
  <2>2. CASE ~(SlotFree /\ buf # <<>>)
    BY <1>2, <1>5, <2>2 DEF ContServe, turnVars, wireVars, harnessVars
  <2> QED  BY <2>1, <2>2
\* A new context runs, and the others are where they were.
<1>6. ASSUME NEW c \in Ctxs, NEW msgs, NewContext(c, msgs)
      PROVE  ctx'[c] = "running" /\ \A d \in Ctxs \ {c} : ctx'[d] = ctx[d]
  BY <1>0, <1>6 DEF NewContext
<1>7. ASSUME NEW m \in Msgs, ForwardLands(m) \/ LateForward(m) PROVE ResponseComes'
  <2>1. UNCHANGED <<turn, stream>>
    BY <1>7 DEF ForwardLands, LateForward, turnVars, wireVars
  <2>2. ctx' = ctx \/ NewContext(OwnCtx(m), <<m>>)
    BY <1>7 DEF ForwardLands, LateForward, harnessVars
  <2> QED  BY <1>1, <1>6, <2>1, <2>2, CtxsOfBoth
<1>8. ASSUME NEW t \in Turns, LateTurn(t) PROVE ResponseComes'
  <2>1. UNCHANGED <<turn, stream>> /\ (ctx' = ctx \/ NewContext(t, history))
    BY <1>8 DEF LateTurn, turnVars, harnessVars
  <2> QED  BY <1>1, <1>6, <2>1, CtxsOfBoth
<1>9. ASSUME NEW t \in Turns, HarnessTakes(t) PROVE ResponseComes'
  <2>1. turn' = [turn EXCEPT ![t] = "streaming"]
    BY <1>9 DEF HarnessTakes
  <2>2. CASE Injectable
    <3>1. stream' = [stream EXCEPT ![t] = <<Event("rejected")>>] /\ ctx' = ctx
      BY <1>9, <2>2 DEF HarnessTakes, harnessVars
    <3>2. stream'[t] = <<Event("rejected")>> /\ \A u \in Turns \ {t} : stream'[u] = stream[u]
      BY <1>0, <3>1
    <3>3. Closes(t)'
      BY <3>2 DEF Closes, Event
    <3>4. \A u \in Turns \ {t} : turn'[u] = turn[u]
      BY <1>0, <2>1
    <3> QED  BY <3>1, <3>2, <3>3, <3>4 DEF ResponseComes, Closes
  <2>3. CASE ~Injectable
    <3>1. NewContext(t, history) /\ stream' = [stream EXCEPT ![t] = <<Event("created")>>]
      BY <1>9, <2>3 DEF HarnessTakes
    <3>2. ctx'[t] = "running" /\ \A d \in Ctxs \ {t} : ctx'[d] = ctx[d]
      BY <1>6, <3>1, CtxsOfBoth
    <3>3. \A u \in Turns \ {t} : turn'[u] = turn[u] /\ stream'[u] = stream[u]
      BY <1>0, <2>1, <3>1
    <3> QED  BY <3>2, <3>3, CtxsOfBoth DEF ResponseComes, Closes
  <2> QED  BY <2>2, <2>3
<1>10. ASSUME NEW c \in Ctxs, Consume(c) PROVE ResponseComes'
  <2>1. UNCHANGED <<turn, ctx>>
    BY <1>10 DEF Consume, turnVars
  <2>2. CASE context = {}
    BY <1>2, <1>10, <2>1, <2>2 DEF Consume
  <2>3. CASE context # {}
    <3>1. inject[c] # <<>> /\ inject[c] \in Seq(Msgs)
      BY <1>0, <1>10 DEF Consume, TypeOK
    <3>2. PICK m \in Msgs : Emit(c, [kind |-> "consumed", msg |-> m])
      BY <1>10, <2>3, <3>1 DEF Consume
    <3>3. [kind |-> "consumed", msg |-> m] \in Events
      BY DEF Events
    <3>4. \A u \in Turns : Closes(u) => Closes(u)'
      BY <1>0, <3>2, <3>3, EmitCloses
    <3> QED  BY <2>1, <3>4 DEF ResponseComes
  <2> QED  BY <2>2, <2>3
<1>11. ASSUME NEW c \in Ctxs, EmitTerminal(c) PROVE ResponseComes'
  <2>1. UNCHANGED turn /\ Emit(c, Event("end")) /\ \A d \in Ctxs \ {c} : ctx'[d] = ctx[d]
    BY <1>0, <1>11 DEF EmitTerminal, turnVars
  <2>2. Event("end") \in Events /\ Event("end").kind = "end"
    BY EventTyped DEF Event
  <2>3. \A u \in Turns : /\ Closes(u) => Closes(u)'
                         /\ u = c /\ turn[u] = "streaming" => Closes(u)'
    BY <1>0, <2>1, <2>2, EmitCloses
  <2> QED  BY <2>1, <2>3, CtxsOfBoth DEF ResponseComes
<1>12. ASSUME NEW c \in Ctxs, RunReturns(c) PROVE ResponseComes'
  <2>1. UNCHANGED <<turn, stream>> /\ ctx'[c] = "returned" /\ \A d \in Ctxs \ {c} : ctx'[d] = ctx[d]
    BY <1>0, <1>12 DEF RunReturns, turnVars, wireVars
  <2> QED  BY <1>1, <2>1, CtxsOfBoth
<1>13. ASSUME NEW c \in Ctxs, Teardown(c) PROVE ResponseComes'
  <2>1. UNCHANGED <<turn, stream>> /\ \A d \in Ctxs \ {c} : ctx'[d] = ctx[d]
    BY <1>0, <1>13 DEF Teardown, turnVars, wireVars
  <2>2. c \in Turns /\ turn[c] = "streaming" => ctx[c] \notin {"running", "returned"}
    BY <1>13 DEF Teardown, Unread
  <2> QED  BY <1>1, <2>1, <2>2, CtxsOfBoth
<1>14. ASSUME NEW t \in Turns, ReadCreated(t) \/ ReadConsumed(t) PROVE ResponseComes'
  <2>1. /\ UNCHANGED <<turn, ctx>> /\ Unreceived(t) /\ Read(t)
        /\ Head(stream[t]).kind \in {"created", "consumed"}
    BY <1>14 DEF ReadCreated, ReadConsumed, turnVars, harnessVars
  <2>2. \A u \in Turns : Closes(u) => Closes(u)'
    BY <1>0, <2>1, ReadCloses
  <2> QED  BY <2>1, <2>2 DEF ResponseComes
<1>15. ASSUME NEW t \in Turns, NEW how \in {"ended", "broken"}, End(t, how), ctx' = ctx
       PROVE  ResponseComes'
  <2>1. /\ turn'[t] = how
        /\ \A u \in Turns \ {t} : turn'[u] = turn[u] /\ stream'[u] = stream[u]
    BY <1>0, <1>15 DEF End
  <2> QED  BY <1>15, <2>1 DEF ResponseComes, Closes
<1>16. ASSUME NEW t \in Turns, Ends(t) PROVE ResponseComes'
  <2>1. ctx' = ctx
    BY <1>16 DEF Ends, SetupFails, StreamBreaks, ReadRejected, ReadEnd, harnessVars
  <2> QED  BY <1>15, <1>16, <2>1, EndsEnd
<1>17. ASSUME NEW s \in Stops, CancelTurn(s) PROVE ResponseComes'
  <2>1. ctx' = ctx
    BY <1>17 DEF CancelTurn, harnessVars
  <2>2. CASE slot \in Turns /\ End(slot, "broken")
    BY <1>15, <2>1, <2>2
  <2>3. CASE UNCHANGED <<gateVars, queueVars, turnVars, faults, wireVars, harnessVars>>
    BY <1>2, <2>1, <2>3 DEF turnVars, wireVars
  <2> QED  BY <1>17, <2>2, <2>3, CancelEnds
<1>18. ASSUME NEW m \in Msgs, Arrive(m) \/ Buffer(m) \/ ForwardFails(m) \/ ForwardReturns(m)
       PROVE  ResponseComes'
  BY <1>2, <1>18
     DEF Arrive, Buffer, ForwardFails, ForwardReturns, turnVars, wireVars, harnessVars
<1>19. CASE ContTicket
  BY <1>2, <1>19 DEF ContTicket, turnVars, wireVars, harnessVars
<1>20. ASSUME NEW s \in Stops, Interrupt(s) \/ InterruptLands(s) \/ InterruptFails(s)
       PROVE  ResponseComes'
  <2>1. UNCHANGED <<turn, stream, ctx>>
    BY <1>20 DEF Interrupt, InterruptLands, InterruptFails, turnVars, wireVars, harnessVars
  <2> QED  BY <1>2, <2>1
<1>21. CASE UNCHANGED vars
  BY <1>2, <1>21 DEF vars, turnVars, wireVars, harnessVars
<1> QED
  BY <1>4, <1>5, <1>7, <1>8, <1>9, <1>10, <1>11, <1>12, <1>13, <1>14, <1>16, <1>17, <1>18, <1>19,
     <1>20, <1>21
     DEF Next, Gate, Forwarding, Running, Harness, Stopping, Ends

\* Nobody waits for what will not come: whoever heads the gate's line is a continuation
\* to be served or a message whose handler is at the gate or in its forward, and a turn
\* that reads has the end of its response ahead of it.
NobodyHangs ==
    /\ \A m \in Msgs : Serving(m) => InLine(m)
    /\ \A m \in Msgs : InLine(m) => m \in Ran(line)
    /\ ResponseComes

\* No interleaving of messages, forwards that fail, interrupts and teardowns leaves the
\* gate to a ticket that nobody will hand on, a handler out of the line, or a turn
\* reading a response that no context will end: what ComesToRest asks, but for the
\* fairness that makes the tasks run.
THEOREM NoTurnHangs == Spec => []NobodyHangs
<1>1. Init => GateQueue /\ ResponseComes
  BY DEF Init, GateQueue, InLine, Ran, ResponseComes
<1>2. Core /\ GateQueue /\ ResponseComes => NobodyHangs
  <2>1. ASSUME Core, GateQueue, NEW m \in Msgs, Serving(m) PROVE InLine(m)
    <3>1. line # <<>> /\ line \in Seq(Msgs \cup {Cont}) /\ line[1] = m /\ 1 \in DOMAIN line
      BY <2>1 DEF Serving, Core, Typed, TypeOK
    <3> QED  BY <2>1, <3>1 DEF GateQueue, Ran
  <2> QED  BY <2>1 DEF GateQueue, NobodyHangs
<1> QED  BY AlwaysCore, <1>1, <1>2, NextQueues, NextComes, PTL DEF Spec
=============================================================================
