--------------------------- MODULE LiveText_proofs ---------------------------
(***************************************************************************)
(* Proofs about LiveText, for any number of clients, any queue bound and   *)
(* any length of text: its types, that the replay is what is not saved,    *)
(* that watchers miss nothing, that saved text is named, and that the end  *)
(* of a stream is not lost.                                                *)
(***************************************************************************)
EXTENDS LiveText, SequenceTheorems, TLAPS

-----------------------------------------------------------------------------
(* Types *)

\* The bounds hold because of what the counters mean: a Stop being forwarded
\* was made, and a relay that is gone was not the last.
Counted == stopping <= stops /\ (relay = "gone" => relays < MaxRelays)

LEMMA EventTypes ==
    /\ \A n \in Pieces : Piece(n) \in Event
    /\ \A t \in Seq(Pieces) : Saved(t) \in Event
    /\ Done \in Event /\ Overflow \in Event
BY DEF Piece, Saved, Done, Overflow, Event

LEMMA ToSetType ==
    ASSUME NEW S, NEW s \in Seq(S) PROVE ToSet(s) \subseteq S
BY DEF ToSet

\* A queue keeps its bound, whatever is put into it.
LEMMA EnqueuedType ==
    ASSUME NEW q \in Seq(Event), Len(q) <= QueueMax, NEW e \in Event
    PROVE  Enqueued(q, e) \in Seq(Event) /\ Len(Enqueued(q, e)) <= QueueMax
<1>1. Append(q, e) \in Seq(Event) /\ Len(Append(q, e)) = Len(q) + 1
  BY AppendProperties
<1>2. <<Overflow>> \in Seq(Event) /\ Len(<<Overflow>>) = 1
  BY EventTypes
<1>3. Len(q) \in Nat /\ QueueMax \in Nat \ {0}
  BY LiveTextAssumption
<1> QED  BY <1>1, <1>2, <1>3 DEF Enqueued

LEMMA PublishType ==
    ASSUME TypeOK, NEW e \in Event, Publish(e) PROVE soon' \in [Clients -> Seq(Event)]
<1>1. \A c \in Clients : Append(soon[c], e) \in Seq(Event)
  BY AppendProperties DEF TypeOK
<1> QED  BY <1>1 DEF Publish, TypeOK

LEMMA ReceivedType ==
    ASSUME NEW k \in ClientRecord, NEW e \in Event PROVE Received(k, e) \in ClientRecord
<1>1. e.kind \in {"piece", "saved", "done", "overflow"} /\ e.text \in Seq(Pieces)
  BY DEF Event
<1>2. k.got \o e.text \in Seq(Pieces) /\ k.told \cup ToSet(e.text) \subseteq Pieces
  BY <1>1, ToSetType, ConcatProperties DEF ClientRecord
<1>3. CASE e.kind = "piece"
  BY <1>2, <1>3 DEF Received, ClientRecord
<1>4. CASE e.kind = "saved"
  BY <1>2, <1>4 DEF Received, ClientRecord
<1>5. CASE e.kind = "done"
  BY <1>5 DEF Received, ClientRecord
<1>6. CASE e.kind = "overflow"
  BY <1>6 DEF Received, ClientRecord
<1> QED  BY <1>1, <1>3, <1>4, <1>5, <1>6

LEMMA HeadTailType ==
    ASSUME NEW S, NEW s \in Seq(S), s # <<>>
    PROVE  Head(s) \in S /\ Tail(s) \in Seq(S) /\ Len(Tail(s)) <= Len(s)
BY HeadTailProperties

LEMMA InitType == Init => TypeOK
<1> SUFFICES ASSUME Init PROVE TypeOK
  OBVIOUS
<1>1. QueueMax \in Nat \ {0} /\ MaxPieces \in Nat /\ MaxStops \in Nat /\ MaxRelays \in Nat \ {0}
  BY LiveTextAssumption
<1>2. Outside \in ClientRecord
  BY DEF Outside, ClientRecord
<1>3. Len(<<>>) = 0 /\ \A S : <<>> \in Seq(S)
  BY EmptySeq
<1>4. /\ client \in [Clients -> ClientRecord] /\ soon \in [Clients -> Seq(Event)]
      /\ queue \in [Clients -> Seq(Event)] /\ \A c \in Clients : Len(queue[c]) <= QueueMax
  BY <1>1, <1>2, <1>3 DEF Init
<1>5. streamed \in 0..MaxPieces /\ relays \in 1..MaxRelays
      /\ stopping \in 0..MaxStops /\ stops \in 0..MaxStops
  BY <1>1 DEF Init
<1> QED  BY <1>3, <1>4, <1>5 DEF Init, TypeOK

\* The steps of the clients and of the event loop.
LEMMA ClientType ==
    ASSUME TypeOK, NEW c \in Clients, Join(c) \/ Load(c) \/ Enqueue(c) \/ Receive(c) \/ Leave(c)
    PROVE  TypeOK'
<1> USE DEF relaying, text, stop
<1>1. /\ client[c] \in ClientRecord /\ soon[c] \in Seq(Event) /\ queue[c] \in Seq(Event)
      /\ Len(queue[c]) <= QueueMax
  BY DEF TypeOK
<1>2. CASE Join(c)
  BY ZenonT(30), <1>1, <1>2 DEF TypeOK, Join, Replayed, ClientRecord
<1>3. CASE Load(c)
  <2>1. ToSet(store) \subseteq Pieces
    BY ToSetType DEF TypeOK
  <2> QED  BY ZenonT(30), <1>1, <1>3, <2>1 DEF TypeOK, Load, ClientRecord
<1>4. CASE Enqueue(c)
  <2>1. Head(soon[c]) \in Event /\ Tail(soon[c]) \in Seq(Event)
    BY <1>1, <1>4, HeadTailType DEF Enqueue
  <2>2. /\ Enqueued(queue[c], Head(soon[c])) \in Seq(Event)
        /\ Len(Enqueued(queue[c], Head(soon[c]))) <= QueueMax
    BY <1>1, <2>1, EnqueuedType
  <2> QED  BY SMTT(30), <1>4, <2>1, <2>2 DEF TypeOK, Enqueue
<1>5. CASE Receive(c)
  <2>1. /\ Head(queue[c]) \in Event /\ Tail(queue[c]) \in Seq(Event)
        /\ Len(Tail(queue[c])) <= Len(queue[c])
    BY <1>1, <1>5, HeadTailType DEF Receive
  <2>2. Received(client[c], Head(queue[c])) \in ClientRecord
    BY <1>1, <2>1, ReceivedType
  <2>3. Len(Tail(queue[c])) <= QueueMax
    BY <1>1, <2>1, LiveTextAssumption
  <2> QED  BY SMTT(30), <1>5, <2>1, <2>2, <2>3 DEF TypeOK, Receive
<1>6. CASE Leave(c)
  BY ZenonT(30), <1>1, <1>6 DEF TypeOK, Leave, ClientRecord
<1> QED  BY <1>2, <1>3, <1>4, <1>5, <1>6

\* The relay's steps, and the store's.
LEMMA RelayType ==
    ASSUME TypeOK, Counted, Relay \/ CommitMessage \/ AppendRefused PROVE TypeOK'
<1> USE DEF stop, streams
<1>1. /\ acc \in Seq(Pieces) /\ replay \in Seq(Pieces) /\ <<>> \in Seq(Pieces)
      /\ ToSet(acc) \subseteq Pieces /\ store \o acc \in Seq(Pieces)
  BY ToSetType, ConcatProperties, EmptySeq DEF TypeOK
<1>2. CASE RelayPiece
  <2>1. streamed' \in 0..MaxPieces /\ streamed' \in Pieces
    BY <1>2, LiveTextAssumption DEF RelayPiece, TypeOK, Pieces
  <2>2. \A s \in Seq(Pieces) : Append(s, streamed') \in Seq(Pieces)
    BY <2>1, AppendProperties
  <2>3. soon' \in [Clients -> Seq(Event)]
    BY <1>2, <2>1, EventTypes, PublishType DEF RelayPiece, TypeOK
  <2> QED  BY <1>1, <1>2, <2>1, <2>2, <2>3 DEF TypeOK, RelayPiece, Gathered
<1>3. CASE \E ok \in BOOLEAN : FlushReturns(ok)
  <2>1. PICK ok \in BOOLEAN : FlushReturns(ok)
    BY <1>3
  <2>2. soon' \in [Clients -> Seq(Event)]
    BY <1>1, <2>1, EventTypes, PublishType DEF FlushReturns, TypeOK
  <2> QED  BY <1>1, <2>1, <2>2 DEF TypeOK, FlushReturns, Unsaved, StillReplayed
<1>4. CASE RelayRunning \/ RelayInProgress \/ RelayTool \/ RelayTerminal \/ RelayIdle
  BY ZenonT(30), <1>1, <1>4
     DEF TypeOK, RelayRunning, RelayInProgress, RelayTool, RelayTerminal, RelayIdle, text
<1>5. CASE RelayEnds \/ CommitMessage \/ AppendRefused
  BY ZenonT(30), <1>1, <1>5 DEF TypeOK, RelayEnds, CommitMessage, AppendRefused, text
<1>6. CASE RelayStarts
  <2>1. relays < MaxRelays
    BY <1>6 DEF RelayStarts, Counted
  <2>2. relays' \in 1..MaxRelays
    BY <1>6, <2>1, LiveTextAssumption DEF TypeOK, RelayStarts
  <2> QED  BY <1>6, <2>2 DEF TypeOK, RelayStarts, text
<1> QED  BY <1>2, <1>3, <1>4, <1>5, <1>6 DEF Relay

LEMMA OtherType ==
    ASSUME TypeOK, Counted, Stop \/ (\E landed \in BOOLEAN : StopReturns(landed)) \/ ShutdownAll
    PROVE  TypeOK'
<1>1. CASE Stop
  <2>1. stops' \in 0..MaxStops /\ stopping' \in 0..MaxStops
    BY <1>1, LiveTextAssumption DEF TypeOK, Counted, Stop
  <2> QED  BY <1>1, <2>1 DEF TypeOK, Stop, text, streams
<1>2. CASE \E landed \in BOOLEAN : StopReturns(landed)
  BY <1>2, LiveTextAssumption DEF TypeOK, StopReturns, relaying, text, streams
<1>3. CASE ShutdownAll
  <2>1. ASSUME NEW c \in Clients
        PROVE  queue'[c] \in Seq(Event) /\ Len(queue'[c]) <= QueueMax
    BY <1>3, <2>1, EnqueuedType, EventTypes DEF TypeOK, ShutdownAll
  <2>2. queue' \in [Clients -> Seq(Event)]
    BY <1>3, <2>1 DEF ShutdownAll
  <2> QED  BY <1>3, <2>1, <2>2 DEF TypeOK, ShutdownAll, relaying, text, stop
<1> QED  BY <1>1, <1>2, <1>3

LEMMA CountedStep ==
    ASSUME TypeOK, Counted, [Next]_vars PROVE Counted'
<1> USE LiveTextAssumption DEF TypeOK, Counted, relaying, text, stop, streams
<1>1. CASE RelayRunning \/ RelayInProgress \/ RelayTool \/ RelayTerminal \/ RelayIdle \/ RelayPiece
  BY <1>1 DEF RelayRunning, RelayInProgress, RelayTool, RelayTerminal, RelayIdle, RelayPiece
<1>2. CASE \E ok \in BOOLEAN : FlushReturns(ok)
  BY <1>2 DEF FlushReturns
<1>3. CASE RelayEnds \/ RelayStarts \/ CommitMessage \/ AppendRefused
  BY <1>3 DEF RelayEnds, RelayStarts, CommitMessage, AppendRefused
<1>4. CASE Stop \/ (\E landed \in BOOLEAN : StopReturns(landed)) \/ ShutdownAll
  BY <1>4 DEF Stop, StopReturns, ShutdownAll
<1>5. CASE \E c \in Clients : Join(c) \/ Load(c) \/ Enqueue(c) \/ Receive(c) \/ Leave(c)
  BY <1>5 DEF Join, Load, Enqueue, Receive, Leave
<1>6. CASE UNCHANGED vars
  BY <1>6 DEF vars
<1> QED  BY <1>1, <1>2, <1>3, <1>4, <1>5, <1>6 DEF Next, Relay

\* Every variable keeps its type; in particular no queue outgrows QueueMax,
\* whatever the callbacks and a shutdown put into it.
THEOREM TypeCorrect == Spec => []TypeOK
<1>1. TypeOK /\ Counted /\ [Next]_vars => TypeOK' /\ Counted'
  <2> SUFFICES ASSUME TypeOK, Counted, [Next]_vars PROVE TypeOK'
    BY CountedStep
  <2>1. CASE UNCHANGED vars
    BY <2>1 DEF vars, relaying, text, stop, streams, TypeOK
  <2> QED  BY <2>1, ClientType, RelayType, OtherType DEF Next
<1>2. Init => Counted
  BY LiveTextAssumption DEF Init, Counted
<1> QED  BY <1>1, <1>2, InitType, PTL DEF Spec

-----------------------------------------------------------------------------
(* The replay *)

\* The inductive invariant: ReplayIsUnsaved, what is empty before a response
\* streams and once its relay is gone, and what a flush in progress is for.
ReplayInv ==
    /\ ReplayIsUnsaved
    /\ turn = "started" \/ relay = "gone" => acc = <<>> /\ replay = <<>>
    /\ turn \in {"none", "over"} /\ relay = "reading" => replay = <<>>
    /\ relay \in {"appending", "appended", "refused"} =>
          \/ after = "tool" /\ turn = "streaming"
          \/ after = "terminal" /\ turn = "over"

LEMMA ReplayStep ==
    ASSUME TypeOK, ReplayInv, [Next]_vars PROVE ReplayInv'
<1> USE DEF ReplayInv, ReplayIsUnsaved, relaying, text, stop, streams
<1>1. CASE RelayRunning \/ RelayInProgress \/ RelayTool \/ RelayTerminal \/ RelayIdle
  BY <1>1 DEF RelayRunning, RelayInProgress, RelayTool, RelayTerminal, RelayIdle
<1>2. CASE RelayPiece
  BY <1>2 DEF RelayPiece, Gathered
<1>3. CASE \E ok \in BOOLEAN : FlushReturns(ok)
  BY <1>3 DEF FlushReturns, Unsaved, StillReplayed
<1>4. CASE RelayEnds \/ RelayStarts \/ CommitMessage \/ AppendRefused
  BY <1>4 DEF RelayEnds, RelayStarts, CommitMessage, AppendRefused
<1>5. CASE Stop \/ (\E landed \in BOOLEAN : StopReturns(landed)) \/ ShutdownAll
  BY <1>5 DEF Stop, StopReturns, ShutdownAll
<1>6. CASE \E c \in Clients : Join(c) \/ Load(c) \/ Enqueue(c) \/ Receive(c) \/ Leave(c)
  BY <1>6 DEF Join, Load, Enqueue, Receive, Leave
<1>7. CASE UNCHANGED vars
  BY <1>7 DEF vars
<1> QED  BY <1>1, <1>2, <1>3, <1>4, <1>5, <1>6, <1>7 DEF Next, Relay

\* The text a connecting client is sent first is the text the relay has still
\* to save, through stops, refused saves and lost relays.
THEOREM ReplayAgrees == Spec => []ReplayIsUnsaved
<1>1. Init => ReplayInv
  BY DEF Init, ReplayInv, ReplayIsUnsaved
<1>2. ReplayInv => ReplayIsUnsaved
  BY DEF ReplayInv
<1> QED  BY <1>1, <1>2, ReplayStep, TypeCorrect, PTL DEF Spec
-----------------------------------------------------------------------------
(* The saved text *)

Rising(s) == \A i, j \in 1..Len(s) : i < j => s[i] < s[j]
AllBelow(s, n) == \A i \in 1..Len(s) : s[i] <= n

\* What was published, what is saved and what is still to be saved are all in
\* the order of the stream; only a message whose commit the relay has not yet
\* noticed is both saved and to be saved.
SavedInv ==
    /\ Rising(sent) /\ Rising(store) /\ Rising(acc)
    /\ AllBelow(sent, streamed) /\ AllBelow(store, streamed) /\ AllBelow(acc, streamed)
    /\ relay # "appended" =>
          \A i \in 1..Len(store), j \in 1..Len(acc) : store[i] < acc[j]
    /\ relay = "appended" => ToSet(acc) \subseteq ToSet(store)

\* The replay is the end of what was published, and everything before it is
\* saved or lost.
ReplayEndsSent ==
    /\ replay \in {acc, <<>>}
    /\ relay \in {"appending", "appended", "refused"} => replay = acc
    /\ Len(replay) <= Len(sent)
    /\ \A j \in 1..Len(replay) : replay[j] = sent[Len(sent) - Len(replay) + j]
    /\ ToSet(sent) \subseteq ToSet(store) \cup ToSet(replay) \cup lost

LEMMA ToSetAppend ==
    ASSUME NEW S, NEW s \in Seq(S), NEW e \in S PROVE ToSet(Append(s, e)) = ToSet(s) \cup {e}
<1>1. /\ Append(s, e) \in Seq(S) /\ Len(Append(s, e)) = Len(s) + 1
      /\ \A i \in 1..Len(s) : Append(s, e)[i] = s[i]
      /\ Append(s, e)[Len(s) + 1] = e
  BY AppendProperties
<1>2. Len(s) \in Nat /\ DOMAIN s = 1..Len(s) /\ DOMAIN Append(s, e) = 1..(Len(s) + 1)
  BY <1>1
<1>3. 1..(Len(s) + 1) = 1..Len(s) \cup {Len(s) + 1}
  BY <1>2
<1> QED  BY <1>1, <1>2, <1>3 DEF ToSet

LEMMA ToSetConcat ==
    ASSUME NEW S, NEW s \in Seq(S), NEW t \in Seq(S) PROVE ToSet(s \o t) = ToSet(s) \cup ToSet(t)
<1>1. /\ s \o t \in Seq(S) /\ Len(s \o t) = Len(s) + Len(t)
      /\ \A i \in 1..Len(s) + Len(t) :
            (s \o t)[i] = IF i <= Len(s) THEN s[i] ELSE t[i - Len(s)]
  BY ConcatProperties
<1>2. Len(s) \in Nat /\ Len(t) \in Nat /\ DOMAIN s = 1..Len(s) /\ DOMAIN t = 1..Len(t)
      /\ DOMAIN (s \o t) = 1..Len(s) + Len(t)
  BY <1>1
<1>3. \A i \in 1..Len(s) : i \in 1..Len(s) + Len(t) /\ (s \o t)[i] = s[i]
  BY <1>1, <1>2
<1>4. \A i \in 1..Len(t) : Len(s) + i \in 1..Len(s) + Len(t) /\ (s \o t)[Len(s) + i] = t[i]
  BY <1>1, <1>2
<1>5. \A i \in 1..Len(s) + Len(t) :
         \/ i \in 1..Len(s) /\ (s \o t)[i] = s[i]
         \/ i - Len(s) \in 1..Len(t) /\ (s \o t)[i] = t[i - Len(s)]
  BY <1>1, <1>2
<1>6. ToSet(s) \subseteq ToSet(s \o t)
  BY <1>2, <1>3 DEF ToSet
<1>7. ToSet(t) \subseteq ToSet(s \o t)
  BY <1>2, <1>4 DEF ToSet
<1>8. ASSUME NEW x \in ToSet(s \o t) PROVE x \in ToSet(s) \cup ToSet(t)
  <2>1. PICK i \in 1..Len(s) + Len(t) : x = (s \o t)[i]
    BY <1>2, <1>8 DEF ToSet
  <2>2. CASE i \in 1..Len(s) /\ x = s[i]
    BY <1>2, <2>2 DEF ToSet
  <2>3. CASE i - Len(s) \in 1..Len(t) /\ x = t[i - Len(s)]
    BY <1>2, <2>3 DEF ToSet
  <2> QED  BY <1>5, <2>1, <2>2, <2>3
<1> QED  BY <1>6, <1>7, <1>8

LEMMA ToSetHeadTail ==
    ASSUME NEW S, NEW s \in Seq(S), s # <<>> PROVE ToSet(s) = {Head(s)} \cup ToSet(Tail(s))
<1>1. /\ Tail(s) \in Seq(S) /\ Len(Tail(s)) = Len(s) - 1 /\ Head(s) = s[1]
      /\ \A i \in 1..Len(Tail(s)) : Tail(s)[i] = s[i + 1]
  BY HeadTailProperties
<1>2. Len(s) \in Nat \ {0} /\ DOMAIN s = 1..Len(s) /\ DOMAIN Tail(s) = 1..(Len(s) - 1)
  BY <1>1
<1>3. \A i \in 1..Len(s) : i = 1 \/ (i - 1 \in 1..(Len(s) - 1) /\ s[i] = Tail(s)[i - 1])
  BY <1>1, <1>2
<1>4. \A i \in 1..(Len(s) - 1) : i + 1 \in 1..Len(s) /\ Tail(s)[i] = s[i + 1]
  BY <1>1, <1>2
<1>5. ToSet(s) \subseteq {Head(s)} \cup ToSet(Tail(s))
  <2> SUFFICES ASSUME NEW i \in 1..Len(s) PROVE s[i] \in {Head(s)} \cup ToSet(Tail(s))
    BY <1>2 DEF ToSet
  <2>1. CASE i = 1
    BY <1>1, <2>1
  <2>2. CASE i - 1 \in DOMAIN Tail(s) /\ s[i] = Tail(s)[i - 1]
    BY <2>2 DEF ToSet
  <2> QED  BY <1>2, <1>3, <2>1, <2>2
<1>6. Head(s) \in ToSet(s) /\ ToSet(Tail(s)) \subseteq ToSet(s)
  BY <1>1, <1>2, <1>4 DEF ToSet
<1> QED  BY <1>5, <1>6

LEMMA PiecesAreNumbers ==
    ASSUME NEW s \in Seq(Pieces) PROVE Len(s) \in Nat /\ \A i \in 1..Len(s) : s[i] \in Nat
<1>1. \A i \in 1..Len(s) : s[i] \in Pieces
  OBVIOUS
<1> QED  BY <1>1, LiveTextAssumption DEF Pieces

LEMMA RisingAppend ==
    ASSUME NEW s \in Seq(Pieces), Rising(s), NEW n \in Nat, AllBelow(s, n), n + 1 \in Pieces
    PROVE  Rising(Append(s, n + 1)) /\ AllBelow(Append(s, n + 1), n + 1)
<1>1. /\ Append(s, n + 1) \in Seq(Pieces) /\ Len(Append(s, n + 1)) = Len(s) + 1
      /\ \A i \in 1..Len(s) : Append(s, n + 1)[i] = s[i]
      /\ Append(s, n + 1)[Len(s) + 1] = n + 1
  BY AppendProperties
<1>2. Len(s) \in Nat /\ \A i \in 1..Len(s) : s[i] \in Nat
  BY PiecesAreNumbers
<1> QED  BY SMTT(30), <1>1, <1>2 DEF Rising, AllBelow

LEMMA SavedStep ==
    ASSUME TypeOK, ReplayInv, SavedInv, [Next]_vars PROVE SavedInv'
<1> USE DEF relaying, text, stop, streams
<1>1. /\ acc \in Seq(Pieces) /\ store \in Seq(Pieces) /\ sent \in Seq(Pieces)
      /\ streamed \in Nat
      /\ Len(<<>>) = 0 /\ Rising(<<>>) /\ AllBelow(<<>>, streamed) /\ ToSet(<<>>) = {}
  BY EmptySeq, LiveTextAssumption DEF TypeOK, Rising, AllBelow, ToSet
<1>2. CASE UNCHANGED <<streamed, sent, store>> /\ acc' \in {acc, <<>>}
           /\ (relay' = "appended" => relay = "appended" /\ acc' = acc)
           /\ (relay = "appended" => relay' = "appended" \/ acc' = <<>>)
  BY <1>1, <1>2 DEF SavedInv
<1>3. CASE RelayPiece
  <2>1. streamed' = streamed + 1 /\ streamed + 1 \in Pieces /\ relay' = relay /\ relay = "reading"
    BY <1>1, <1>3, LiveTextAssumption DEF RelayPiece, Pieces
  <2>2. \A s \in Seq(Pieces) : Rising(s) /\ AllBelow(s, streamed) =>
          /\ AllBelow(s, streamed + 1)
          /\ Rising(Append(s, streamed + 1)) /\ AllBelow(Append(s, streamed + 1), streamed + 1)
    <3> SUFFICES ASSUME NEW s \in Seq(Pieces), Rising(s), AllBelow(s, streamed)
                 PROVE  AllBelow(s, streamed + 1)
      BY <1>1, <2>1, RisingAppend
    <3>1. \A i \in 1..Len(s) : s[i] \in Nat
      BY PiecesAreNumbers
    <3> QED  BY SMTT(30), <1>1, <3>1 DEF AllBelow
  <2>3. sent' \in {sent, Append(sent, streamed + 1)} /\ acc' \in {acc, Append(acc, streamed + 1)}
        /\ store' = store
    BY <1>3, <2>1 DEF RelayPiece, Gathered
  <2>4. \A i \in 1..Len(store), j \in 1..Len(acc') : store[i] < acc'[j]
    <3>1. \A i \in 1..Len(store) : store[i] \in Nat /\ store[i] < streamed + 1
      BY SMTT(30), <1>1, PiecesAreNumbers DEF SavedInv, AllBelow
    <3>2. CASE acc' = acc
      BY <2>1, <3>2 DEF SavedInv
    <3>3. CASE acc' = Append(acc, streamed + 1)
      <4>1. /\ Len(Append(acc, streamed + 1)) = Len(acc) + 1
            /\ \A i \in 1..Len(acc) : Append(acc, streamed + 1)[i] = acc[i]
            /\ Append(acc, streamed + 1)[Len(acc) + 1] = streamed + 1
        BY <1>1, <2>1, AppendProperties
      <4>2. \A j \in 1..Len(acc') : j \in 1..Len(acc) \/ j = Len(acc) + 1
        BY <1>1, <3>3, <4>1
      <4> QED  BY <2>1, <3>1, <3>3, <4>1, <4>2 DEF SavedInv
    <3> QED  BY <2>3, <3>2, <3>3
  <2> QED  BY <1>1, <2>1, <2>2, <2>3, <2>4 DEF SavedInv
<1>4. CASE CommitMessage
  <2>1. store' = store \o acc /\ relay' = "appended" /\ UNCHANGED <<acc, sent, streamed>>
        /\ relay = "appending"
    BY <1>4 DEF CommitMessage
  <2>2. /\ Len(store \o acc) = Len(store) + Len(acc)
        /\ \A i \in 1..Len(store) + Len(acc) :
              (store \o acc)[i] = IF i <= Len(store) THEN store[i] ELSE acc[i - Len(store)]
    BY <1>1, ConcatProperties
  <2>3. Len(store) \in Nat /\ Len(acc) \in Nat
        /\ (\A i \in 1..Len(store) : store[i] \in Nat) /\ (\A i \in 1..Len(acc) : acc[i] \in Nat)
    BY <1>1, PiecesAreNumbers
  <2>4. Rising(store')
    <3> SUFFICES ASSUME NEW i \in 1..Len(store) + Len(acc), NEW j \in 1..Len(store) + Len(acc),
                        i < j
                 PROVE  (store \o acc)[i] < (store \o acc)[j]
      BY <2>1, <2>2 DEF Rising
    <3>1. CASE j <= Len(store)
      <4>1. i \in 1..Len(store) /\ j \in 1..Len(store)
        BY <2>3, <3>1
      <4> QED  BY <2>2, <3>1, <4>1 DEF SavedInv, Rising
    <3>2. CASE i <= Len(store) /\ j > Len(store)
      <4>1. i \in 1..Len(store) /\ j - Len(store) \in 1..Len(acc) /\ ~(j <= Len(store))
        BY <2>3, <3>2
      <4> QED  BY <2>1, <2>2, <3>2, <4>1 DEF SavedInv
    <3>3. CASE i > Len(store)
      <4>1. /\ i - Len(store) \in 1..Len(acc) /\ j - Len(store) \in 1..Len(acc)
            /\ ~(i <= Len(store)) /\ ~(j <= Len(store)) /\ i - Len(store) < j - Len(store)
        BY <2>3, <3>3
      <4> QED  BY <2>2, <4>1 DEF SavedInv, Rising
    <3> QED  BY SMTT(30), <2>3, <3>1, <3>2, <3>3
  <2>5. AllBelow(store', streamed)
    <3> SUFFICES ASSUME NEW i \in 1..Len(store) + Len(acc) PROVE (store \o acc)[i] <= streamed
      BY <2>1, <2>2 DEF AllBelow
    <3>1. i \in 1..Len(store) \/ (i - Len(store) \in 1..Len(acc) /\ ~(i <= Len(store)))
      BY <2>3
    <3> QED  BY <2>2, <3>1 DEF SavedInv, AllBelow
  <2>6. ToSet(acc) \subseteq ToSet(store')
    BY <1>1, <2>1, ToSetConcat
  <2> QED  BY <2>1, <2>4, <2>5, <2>6 DEF SavedInv
<1>5. CASE RelayRunning \/ RelayInProgress \/ RelayTool \/ RelayTerminal \/ RelayIdle
  BY <1>2, <1>5 DEF RelayRunning, RelayInProgress, RelayTool, RelayTerminal, RelayIdle
<1>6. CASE \E ok \in BOOLEAN : FlushReturns(ok)
  BY <1>2, <1>6 DEF FlushReturns, Unsaved
<1>7. CASE RelayEnds \/ RelayStarts \/ AppendRefused
  BY <1>2, <1>7 DEF RelayEnds, RelayStarts, AppendRefused
<1>8. CASE Stop \/ (\E landed \in BOOLEAN : StopReturns(landed)) \/ ShutdownAll
  BY <1>2, <1>8 DEF Stop, StopReturns, ShutdownAll
<1>9. CASE \E c \in Clients : Join(c) \/ Load(c) \/ Enqueue(c) \/ Receive(c) \/ Leave(c)
  BY <1>2, <1>9 DEF Join, Load, Enqueue, Receive, Leave
<1>10. CASE UNCHANGED vars
  BY <1>2, <1>10 DEF vars
<1> QED  BY <1>3, <1>4, <1>5, <1>6, <1>7, <1>8, <1>9, <1>10 DEF Next, Relay

LEMMA ReplayEndsStep ==
    ASSUME TypeOK, ReplayInv, ReplayEndsSent, SavedInv, [Next]_vars PROVE ReplayEndsSent'
<1> USE DEF relaying, text, stop, streams
<1>1. /\ acc \in Seq(Pieces) /\ store \in Seq(Pieces) /\ sent \in Seq(Pieces)
      /\ replay \in Seq(Pieces) /\ streamed \in Nat
      /\ Len(<<>>) = 0 /\ ToSet(<<>>) = {} /\ Len(sent) \in Nat /\ Len(replay) \in Nat
  BY EmptySeq, LiveTextAssumption DEF TypeOK, ToSet
<1>2. CASE /\ UNCHANGED <<sent, store, replay>> /\ acc' \in {acc, <<>>} /\ lost \subseteq lost'
           /\ replay \in {acc', <<>>}
           /\ relay' \in {"appending", "appended", "refused"} => replay = acc'
  BY <1>1, <1>2 DEF ReplayEndsSent
<1>3. CASE /\ UNCHANGED <<sent, store>> /\ replay' = <<>> /\ lost \subseteq lost'
           /\ ToSet(replay) \subseteq ToSet(store) \cup lost'
           /\ relay' \notin {"appending", "appended", "refused"}
  BY <1>1, <1>3 DEF ReplayEndsSent
<1>4. CASE RelayPiece
  <2>1. streamed' = streamed + 1 /\ streamed + 1 \in Pieces /\ relay' = "reading"
        /\ lost' = lost /\ store' = store /\ replay = acc
    BY <1>1, <1>4, LiveTextAssumption DEF RelayPiece, Pieces, ReplayInv, ReplayIsUnsaved
  <2>2. CASE fenced
    BY <1>2, <1>4, <2>1, <2>2 DEF RelayPiece, Gathered
  <2>3. CASE ~fenced
    <3> DEFINE n == streamed + 1
    <3>1. sent' = Append(sent, n) /\ replay' = Append(replay, n) /\ acc' = Append(acc, n)
      BY <1>4, <2>1, <2>3 DEF RelayPiece, Gathered
    <3>2. \A s \in Seq(Pieces) :
             /\ Len(Append(s, n)) = Len(s) + 1 /\ ToSet(Append(s, n)) = ToSet(s) \cup {n}
             /\ \A i \in 1..Len(s) : Append(s, n)[i] = s[i]
             /\ Append(s, n)[Len(s) + 1] = n
      BY <2>1, AppendProperties, ToSetAppend
    <3>3. Len(sent') - Len(replay') = Len(sent) - Len(replay) /\ Len(replay') <= Len(sent')
      BY <1>1, <3>1, <3>2 DEF ReplayEndsSent
    <3>4. ASSUME NEW j \in 1..Len(replay')
          PROVE  replay'[j] = sent'[Len(sent) - Len(replay) + j]
      <4>1. CASE j = Len(replay) + 1
        <5>1. Len(sent) - Len(replay) + j = Len(sent) + 1
          BY <1>1, <4>1
        <5> QED  BY <1>1, <3>1, <3>2, <4>1, <5>1
      <4>2. CASE j # Len(replay) + 1
        <5>1. j \in 1..Len(replay) /\ Len(sent) - Len(replay) + j \in 1..Len(sent)
          BY <1>1, <3>1, <3>2, <4>2 DEF ReplayEndsSent
        <5> QED  BY <1>1, <3>1, <3>2, <5>1 DEF ReplayEndsSent
      <4> QED  BY <4>1, <4>2
    <3>5. ToSet(sent') \subseteq ToSet(store') \cup ToSet(replay') \cup lost'
      BY <1>1, <2>1, <3>1, <3>2 DEF ReplayEndsSent
    <3>6. replay' \in {acc', <<>>} /\ (relay' \in {"appending", "appended", "refused"} => replay' = acc')
      BY <1>1, <2>1, <3>1, <3>2 DEF ReplayEndsSent
    <3> QED  BY ZenonT(30), <3>3, <3>4, <3>5, <3>6, <3>1 DEF ReplayEndsSent
  <2> QED  BY <2>2, <2>3
<1>5. CASE CommitMessage
  BY <1>1, <1>5, ToSetConcat DEF CommitMessage, ReplayEndsSent
<1>6. CASE \E ok \in BOOLEAN : FlushReturns(ok)
  <2>1. PICK ok \in BOOLEAN : FlushReturns(ok)
    BY <1>6
  <2>2. UNCHANGED <<sent, store>> /\ lost \subseteq lost' /\ replay = acc /\ relay' = "reading"
    BY <2>1 DEF FlushReturns, ReplayEndsSent
  <2>3. CASE ok
    BY <1>3, <2>1, <2>2, <2>3 DEF FlushReturns, StillReplayed, SavedInv
  <2>4. CASE ~ok /\ after = "terminal"
    BY <1>3, <2>1, <2>2, <2>4 DEF FlushReturns
  <2>5. CASE ~ok /\ after # "terminal"
    BY <1>2, <2>1, <2>2, <2>5 DEF FlushReturns, StillReplayed, Unsaved
  <2> QED  BY <2>3, <2>4, <2>5
<1>7. CASE RelayRunning \/ RelayInProgress \/ RelayTool
  BY <1>1, <1>2, <1>7
     DEF RelayRunning, RelayInProgress, RelayTool, ReplayInv, ReplayIsUnsaved, ReplayEndsSent
<1>8. CASE RelayTerminal \/ RelayIdle \/ RelayEnds
  BY <1>1, <1>2, <1>3, <1>8
     DEF RelayTerminal, RelayIdle, RelayEnds, ReplayInv, ReplayIsUnsaved, ReplayEndsSent
<1>9. CASE RelayStarts \/ AppendRefused \/ Stop \/ (\E landed \in BOOLEAN : StopReturns(landed))
           \/ ShutdownAll
  BY <1>2, <1>9 DEF RelayStarts, AppendRefused, Stop, StopReturns, ShutdownAll, ReplayEndsSent
<1>10. CASE \E c \in Clients : Join(c) \/ Load(c) \/ Enqueue(c) \/ Receive(c) \/ Leave(c)
  BY <1>2, <1>10 DEF Join, Load, Enqueue, Receive, Leave, ReplayEndsSent
<1>11. CASE UNCHANGED vars
  BY <1>2, <1>11 DEF vars, ReplayEndsSent
<1> QED  BY <1>4, <1>5, <1>6, <1>7, <1>8, <1>9, <1>10, <1>11 DEF Next, Relay

-----------------------------------------------------------------------------
(* The clients *)

\* Pieces wait in the order they were published, in a queue and from what is
\* ahead to what is behind.
Ordered(s) ==
    \A i, j \in 1..Len(s) :
        i < j /\ s[i].kind = "piece" /\ s[j].kind = "piece" => s[i].text[1] < s[j].text[1]
Before(A, B) ==
    \A d \in A, e \in B : d.kind = "piece" /\ e.kind = "piece" => d.text[1] < e.text[1]

\* A client has been sent the pieces that follow the first i.
SentFrom(c, i) ==
    /\ i + Len(client[c].got) <= Len(sent)
    /\ \A j \in 1..Len(client[c].got) : client[c].got[j] = sent[i + j]

\* The pieces after those, no others, are on their way, in order.
RestFollows(c, i) ==
    /\ \A m \in i + Len(client[c].got) + 1..Len(sent) :
          Piece(sent[m]) \in ToSet(queue[c]) \cup ToSet(soon[c])
    /\ \A e \in ToSet(queue[c]) \cup ToSet(soon[c]) : e.kind = "piece" =>
          \E m \in i + Len(client[c].got) + 1..Len(sent) : e = Piece(sent[m])
    /\ Ordered(queue[c]) /\ Ordered(soon[c]) /\ Before(ToSet(queue[c]), ToSet(soon[c]))

\* The pieces before those it finds in the store, if they are not lost.
EarlierSaved(c, i) ==
    \A m \in 1..i :
        sent[m] \in lost \cup (IF client[c].loaded THEN client[c].found ELSE ToSet(store))

\* A piece from the i-th on that is saved by now is, or will be, known to be.
LaterNamed(c, i) ==
    /\ client[c].found \subseteq ToSet(store)
    /\ \A m \in i + 1..Len(sent) : sent[m] \in ToSet(store) =>
          sent[m] \in client[c].told \cup OnItsWay(c, "saved")
                          \cup IF relay = "appended" THEN ToSet(acc) ELSE {}

Follows(c, i) == SentFrom(c, i) /\ RestFollows(c, i) /\ EarlierSaved(c, i) /\ LaterNamed(c, i)

\* The client has fallen behind, and will be cut off.
CutOff(c) == queue[c] # <<>> /\ Head(queue[c]).kind = "overflow"

ClientInv(c) ==
    /\ \E i \in 0..Len(sent) : SentFrom(c, i)
    /\ client[c].at = "out" => client[c] = Outside /\ queue[c] = <<>> /\ soon[c] = <<>>
    /\ client[c].at = "live" /\ ~CutOff(c) => \E i \in 0..Len(sent) : Follows(c, i)

LEMMA PieceFacts ==
    /\ \A n : Piece(n).kind = "piece" /\ Piece(n).text[1] = n
    /\ \A t : Saved(t).kind = "saved" /\ Saved(t).text = t
    /\ Done.kind = "done" /\ Overflow.kind = "overflow"
BY DEF Piece, Saved, Done, Overflow

LEMMA OrderedAppend ==
    ASSUME NEW s \in Seq(Event), Ordered(s), NEW e \in Event, Before(ToSet(s), {e})
    PROVE  Ordered(Append(s, e))
<1>1. /\ Len(Append(s, e)) = Len(s) + 1 /\ Len(s) \in Nat
      /\ \A i \in 1..Len(s) : Append(s, e)[i] = s[i]
      /\ Append(s, e)[Len(s) + 1] = e
  BY AppendProperties
<1>2. \A i \in 1..Len(s) : s[i] \in ToSet(s)
  BY DEF ToSet
<1> QED  BY <1>1, <1>2 DEF Ordered, Before

LEMMA OrderedTail ==
    ASSUME NEW s \in Seq(Event), Ordered(s), s # <<>>
    PROVE  Ordered(Tail(s)) /\ Before({Head(s)}, ToSet(Tail(s)))
<1>1. /\ Tail(s) \in Seq(Event) /\ Len(Tail(s)) = Len(s) - 1 /\ Head(s) = s[1]
      /\ \A i \in 1..Len(Tail(s)) : Tail(s)[i] = s[i + 1]
  BY HeadTailProperties
<1>2. Len(s) \in Nat \ {0} /\ DOMAIN Tail(s) = 1..(Len(s) - 1)
  BY <1>1
<1>3. Ordered(Tail(s))
  BY <1>1, <1>2 DEF Ordered
<1>4. ASSUME NEW e \in ToSet(Tail(s)), Head(s).kind = "piece", e.kind = "piece"
      PROVE  Head(s).text[1] < e.text[1]
  <2>1. PICK i \in 1..(Len(s) - 1) : e = Tail(s)[i]
    BY <1>2 DEF ToSet
  <2>2. e = s[i + 1] /\ i + 1 \in 1..Len(s) /\ 1 \in 1..Len(s) /\ 1 < i + 1
    BY <1>1, <1>2, <2>1
  <2> QED  BY <1>1, <1>4, <2>2 DEF Ordered
<1> QED  BY <1>3, <1>4 DEF Before

\* Counting past one more piece received.
LEMMA OnePieceOn ==
    ASSUME NEW i \in Nat, NEW g \in Nat, NEW l \in Nat
    PROVE  /\ \A a \in i + (g + 1) + 1..l : a \in i + g + 1..l /\ a \in 1..l /\ i + g + 1 < a
           /\ \A a \in i + g + 1..l : a # i + g + 1 => a \in i + (g + 1) + 1..l
           /\ \A a \in i + g + 1..l : /\ a \in 1..l /\ i + (g + 1) <= l
                                     /\ i + g + 1 \in i + g + 1..l /\ i + g + 1 \in 1..l
OBVIOUS

\* The relay publishes one more piece.
LEMMA PieceFollows ==
    ASSUME TypeOK, TypeOK', SavedInv, RelayPiece, ~fenced, NEW c \in Clients,
           client[c].at = "live", NEW i \in 0..Len(sent), Follows(c, i)
    PROVE  Follows(c, i)'
<1> DEFINE n == streamed + 1
<1> DEFINE g == Len(client[c].got)
<1>1. /\ sent' = Append(sent, n) /\ UNCHANGED <<client, queue, store, lost, relay>>
      /\ soon'[c] = Append(soon[c], Piece(n)) /\ relay # "appended"
  BY DEF RelayPiece, Publish, streams
<1>2. n \in Pieces /\ streamed \in Nat /\ sent \in Seq(Pieces) /\ Piece(n) \in Event
      /\ client[c].got \in Seq(Pieces) /\ soon[c] \in Seq(Event) /\ queue[c] \in Seq(Event)
  BY SMTT(30), LiveTextAssumption, EventTypes DEF TypeOK, RelayPiece, Pieces, ClientRecord
<1>3. /\ Len(sent') = Len(sent) + 1 /\ sent'[Len(sent) + 1] = n
      /\ \A m \in 1..Len(sent) : sent'[m] = sent[m]
      /\ Len(sent) \in Nat /\ g \in Nat
  BY SMTT(30), <1>1, <1>2, AppendProperties
<1>4. \A m \in 1..Len(sent) : sent[m] \in Nat /\ sent[m] < n
  BY SMTT(30), <1>2, PiecesAreNumbers DEF SavedInv, AllBelow
<1>5. /\ ToSet(soon'[c]) = ToSet(soon[c]) \cup {Piece(n)}
      /\ OnItsWay(c, "saved")' = OnItsWay(c, "saved")
  <2>1. ToSet(soon'[c]) = ToSet(soon[c]) \cup {Piece(n)}
    BY <1>1, <1>2, ToSetAppend
  <2>2. Piece(n).kind # "saved"
    BY PieceFacts
  <2> QED  BY <1>1, <2>1, <2>2 DEF OnItsWay
<1>6. SentFrom(c, i)'
  BY SMTT(30), <1>1, <1>3 DEF Follows, SentFrom
<1>7. RestFollows(c, i)'
  <2>1. \A m \in i + g + 1..Len(sent) + 1 :
          m = Len(sent) + 1 \/ (m \in i + g + 1..Len(sent) /\ m \in 1..Len(sent))
    BY SMTT(30), <1>3
  <2>2. i + g <= Len(sent)
    BY DEF Follows, SentFrom
  <2>3. \A m \in i + g + 1..Len(sent) :
          m \in i + g + 1..Len(sent) + 1 /\ m \in 1..Len(sent)
    BY <1>3
  <2>4. Len(sent) + 1 \in i + g + 1..Len(sent) + 1
    BY SMTT(30), <1>3, <2>2
  <2>5. \A m \in i + g + 1..Len(sent') :
           Piece(sent'[m]) \in ToSet(queue[c]) \cup ToSet(soon'[c])
    BY <1>3, <1>5, <2>1 DEF Follows, RestFollows
  <2>6. \A e \in ToSet(queue[c]) \cup ToSet(soon[c]) : e.kind = "piece" =>
           /\ \E m \in i + g + 1..Len(sent') : e = Piece(sent'[m])
           /\ e.text[1] < n
    <3> SUFFICES ASSUME NEW e \in ToSet(queue[c]) \cup ToSet(soon[c]), e.kind = "piece"
                 PROVE  (\E m \in i + g + 1..Len(sent') : e = Piece(sent'[m])) /\ e.text[1] < n
      OBVIOUS
    <3>1. PICK m \in i + g + 1..Len(sent) : e = Piece(sent[m])
      BY DEF Follows, RestFollows
    <3>2. m \in i + g + 1..Len(sent') /\ sent'[m] = sent[m] /\ sent[m] < n
      BY <1>3, <1>4, <2>3
    <3>3. e.text[1] = sent[m]
      BY <3>1, PieceFacts
    <3> QED  BY <3>1, <3>2, <3>3
  <2>7. \E m \in i + g + 1..Len(sent') : Piece(n) = Piece(sent'[m])
    BY <1>3, <2>4
  <2>8. Ordered(soon'[c]) /\ Before(ToSet(queue[c]), ToSet(soon'[c]))
    <3>1. Before(ToSet(queue[c]) \cup ToSet(soon[c]), {Piece(n)})
      BY <2>6, PieceFacts DEF Before
    <3>2. Ordered(soon'[c])
      BY <1>1, <1>2, <3>1, OrderedAppend DEF Follows, RestFollows, Before
    <3> QED  BY <1>5, <3>1, <3>2 DEF Follows, RestFollows, Before
  <2> QED  BY SMTT(30), <1>1, <1>5, <2>5, <2>6, <2>7, <2>8 DEF Follows, RestFollows
<1>8. EarlierSaved(c, i)'
  <2>1. \A m \in 1..i : m \in 1..Len(sent)
    BY <1>3
  <2> QED  BY <1>1, <1>3, <2>1 DEF Follows, EarlierSaved
<1>9. LaterNamed(c, i)'
  <2>1. \A m \in i + 1..Len(sent') :
           m = Len(sent) + 1 \/ (m \in i + 1..Len(sent) /\ m \in 1..Len(sent))
    BY <1>3
  <2>2. n \notin ToSet(store)
    <3>1. store \in Seq(Pieces)
      BY DEF TypeOK
    <3>2. \A j \in 1..Len(store) : store[j] \in Nat /\ store[j] < n
      BY SMTT(30), <1>2, <3>1, PiecesAreNumbers DEF SavedInv, AllBelow
    <3>3. DOMAIN store = 1..Len(store) /\ streamed \in Nat
      BY <1>2, <3>1
    <3>4. \A j \in 1..Len(store) : store[j] # n
      BY <3>2, <3>3
    <3> QED  BY <3>3, <3>4 DEF ToSet
  <2> QED  BY <1>1, <1>3, <1>5, <2>1, <2>2 DEF Follows, LaterNamed
<1> QED  BY <1>6, <1>7, <1>8, <1>9 DEF Follows

\* The relay publishes a saved message.
LEMMA SavedFollows ==
    ASSUME TypeOK, FlushReturns(TRUE), NEW c \in Clients, client[c].at = "live",
           NEW i \in 0..Len(sent), Follows(c, i)
    PROVE  Follows(c, i)'
<1>1. /\ UNCHANGED <<client, queue, store, sent, lost>>
      /\ soon'[c] = Append(soon[c], Saved(acc)) /\ relay = "appended" /\ relay' = "reading"
  BY DEF FlushReturns, Publish
<1>2. Saved(acc) \in Event /\ soon[c] \in Seq(Event)
  BY EventTypes DEF TypeOK
<1>3. /\ ToSet(soon'[c]) = ToSet(soon[c]) \cup {Saved(acc)}
      /\ OnItsWay(c, "saved")' = OnItsWay(c, "saved") \cup ToSet(acc)
  <2> DEFINE e == Saved(acc)
  <2>1. ToSet(soon'[c]) = ToSet(soon[c]) \cup {e}
    BY <1>1, <1>2, ToSetAppend
  <2>2. e.kind = "saved" /\ e.text = acc
    BY PieceFacts
  <2> QED  BY <1>1, <2>1, <2>2 DEF OnItsWay
<1>4. RestFollows(c, i)'
  <2>1. Before(ToSet(queue[c]) \cup ToSet(soon[c]), {Saved(acc)})
    BY PieceFacts DEF Before
  <2>2. Ordered(soon'[c])
    BY <1>1, <1>2, <2>1, OrderedAppend DEF Follows, RestFollows, Before
  <2>3. Before(ToSet(queue[c]), ToSet(soon'[c]))
    BY <1>3, <2>1 DEF Follows, RestFollows, Before
  <2> QED  BY <1>1, <1>3, <2>2, <2>3, PieceFacts DEF Follows, RestFollows
<1>5. SentFrom(c, i)' /\ EarlierSaved(c, i)'
  BY <1>1 DEF Follows, SentFrom, EarlierSaved
<1>6. LaterNamed(c, i)'
  BY <1>1, <1>3 DEF Follows, LaterNamed
<1> QED  BY <1>4, <1>5, <1>6 DEF Follows

\* The store commits, or text is lost.
LEMMA StoreFollows ==
    ASSUME TypeOK, NEW c \in Clients, NEW i \in 0..Len(sent), Follows(c, i),
           UNCHANGED <<client, queue, soon, sent>>, lost \subseteq lost',
           \/ UNCHANGED store /\ relay # "appended"
           \/ UNCHANGED <<store, relay, acc>>
           \/ CommitMessage
    PROVE  Follows(c, i)'
<1>1. store \in Seq(Pieces) /\ acc \in Seq(Pieces)
  BY DEF TypeOK
<1>2. \/ ToSet(store') = ToSet(store) /\ (relay = "appended" => relay' = relay /\ acc' = acc)
      \/ /\ ToSet(store') = ToSet(store) \cup ToSet(acc)
         /\ relay # "appended" /\ relay' = "appended" /\ acc' = acc
  <2>1. CASE CommitMessage
    <3>1. store' = store \o acc /\ relay = "appending" /\ relay' = "appended" /\ acc' = acc
      BY <2>1 DEF CommitMessage
    <3>2. ToSet(store \o acc) = ToSet(store) \cup ToSet(acc)
      BY <1>1, ToSetConcat
    <3> QED  BY <3>1, <3>2
  <2>2. CASE UNCHANGED store
    BY <2>2 DEF CommitMessage
  <2> QED  BY <2>1, <2>2
<1>3. SentFrom(c, i)' /\ RestFollows(c, i)'
  BY DEF Follows, SentFrom, RestFollows
<1>4. EarlierSaved(c, i)'
  BY <1>2 DEF Follows, EarlierSaved
<1>5. OnItsWay(c, "saved")' = OnItsWay(c, "saved")
  BY DEF OnItsWay
<1>6. LaterNamed(c, i)'
  BY <1>2, <1>5 DEF Follows, LaterNamed
<1> QED  BY <1>3, <1>4, <1>6 DEF Follows

\* The loop puts the next event in the queue, which has room for it.
LEMMA EnqueueFollows ==
    ASSUME TypeOK, NEW c \in Clients, soon[c] # <<>>, NEW i \in 0..Len(sent), Follows(c, i),
           queue'[c] = Append(queue[c], Head(soon[c])), soon'[c] = Tail(soon[c]),
           UNCHANGED <<client, sent, store, lost, relay, acc>>
    PROVE  Follows(c, i)'
<1> DEFINE e == Head(soon[c])
<1>1. soon[c] \in Seq(Event) /\ queue[c] \in Seq(Event) /\ e \in Event
  BY HeadTailProperties DEF TypeOK
<1>2. /\ ToSet(soon[c]) = {e} \cup ToSet(soon'[c])
      /\ ToSet(queue'[c]) = ToSet(queue[c]) \cup {e}
  BY <1>1, ToSetAppend, ToSetHeadTail
<1>3. Before(ToSet(queue[c]), {e}) /\ Ordered(soon'[c]) /\ Before({e}, ToSet(soon'[c]))
  BY <1>1, <1>2, OrderedTail DEF Follows, RestFollows, Before
<1>4. Ordered(queue'[c]) /\ Before(ToSet(queue'[c]), ToSet(soon'[c]))
  <2>1. Ordered(queue'[c])
    BY <1>1, <1>3, OrderedAppend DEF Follows, RestFollows
  <2> QED  BY <1>2, <1>3, <2>1 DEF Follows, RestFollows, Before
<1>5. ToSet(queue'[c]) \cup ToSet(soon'[c]) = ToSet(queue[c]) \cup ToSet(soon[c])
  BY <1>2
<1>6. RestFollows(c, i)'
  BY <1>3, <1>4, <1>5 DEF Follows, RestFollows
<1>7. SentFrom(c, i)' /\ EarlierSaved(c, i)'
  BY DEF Follows, SentFrom, EarlierSaved
<1>8. OnItsWay(c, "saved")' = OnItsWay(c, "saved")
  BY <1>5 DEF OnItsWay
<1>9. LaterNamed(c, i)'
  BY <1>8 DEF Follows, LaterNamed
<1> QED  BY <1>6, <1>7, <1>9 DEF Follows

\* The client is sent the next event of its queue.
LEMMA ReceiveFollows ==
    ASSUME TypeOK, SavedInv, NEW c \in Clients, Receive(c), NEW i \in 0..Len(sent), Follows(c, i)
    PROVE  SentFrom(c, i)' /\ (client'[c].at = "live" => Follows(c, i)')
<1> DEFINE e == Head(queue[c])
<1> DEFINE k == client[c]
<1> DEFINE g == Len(k.got)
<1>1. /\ queue[c] # <<>> /\ queue'[c] = Tail(queue[c]) /\ client'[c] = Received(k, e)
      /\ UNCHANGED <<soon, sent, store, lost, relay, acc>>
  BY DEF Receive, TypeOK, relaying, text
<1>2. /\ queue[c] \in Seq(Event) /\ e \in Event /\ k \in ClientRecord
      /\ k.got \in Seq(Pieces) /\ sent \in Seq(Pieces)
      /\ e.kind \in {"piece", "saved", "done", "overflow"}
  <2>1. queue[c] \in Seq(Event) /\ k \in ClientRecord /\ sent \in Seq(Pieces)
    BY DEF TypeOK
  <2>2. e \in Event
    BY <1>1, <2>1, HeadTailProperties
  <2>3. k.got \in Seq(Pieces)
    BY <2>1 DEF ClientRecord
  <2>4. e.kind \in {"piece", "saved", "done", "overflow"}
    BY <2>2 DEF Event
  <2> QED  BY <2>1, <2>2, <2>3, <2>4
<1>7. g \in Nat /\ Len(sent) \in Nat /\ i \in Nat
  BY <1>2
<1>3. /\ ToSet(queue[c]) = {e} \cup ToSet(queue'[c])
      /\ Ordered(queue'[c]) /\ Before({e}, ToSet(queue'[c]))
      /\ Before({e}, ToSet(soon[c])) /\ Before(ToSet(queue'[c]), ToSet(soon[c]))
  BY <1>1, <1>2, ToSetHeadTail, OrderedTail DEF Follows, RestFollows, Before
<1>4. CASE e.kind = "piece"
  <2> DEFINE n == i + g + 1
  <2>1. PICK m \in n..Len(sent) : e = Piece(sent[m])
    BY <1>3, <1>4 DEF Follows, RestFollows
  <2>2. /\ n \in n..Len(sent) /\ n \in 1..Len(sent) /\ m \in 1..Len(sent)
        /\ i + (g + 1) <= Len(sent)
    BY <1>7, <2>1, OnePieceOn
  <2>3. \A a, b \in 1..Len(sent) : a < b => sent[a] < sent[b]
    BY DEF SavedInv, Rising
  <2>4. \A a \in 1..Len(sent) : sent[a] \in Nat
    BY <1>2, PiecesAreNumbers
  <2>5. n = m
    <3>1. Piece(sent[n]) \in {e} \cup ToSet(queue'[c]) \cup ToSet(soon[c])
      BY <1>3, <2>2 DEF Follows, RestFollows
    <3>2. sent[n] = sent[m] \/ sent[m] < sent[n]
      BY SMTT(30), <1>3, <2>1, <3>1, PieceFacts DEF Before
    <3>3. n < m => sent[n] < sent[m]
      BY <2>2, <2>3
    <3>4. ~(n < m)
      BY SMTT(30), <2>2, <2>4, <3>2, <3>3
    <3> QED  BY SMTT(30), <1>7, <2>1, <3>4
  <2>6. k.got \o e.text = Append(k.got, sent[n])
    <3>1. e.text = <<sent[n]>>
      BY SMTT(30), <2>1, <2>5 DEF Piece
    <3>2. sent[n] \in Pieces
      BY <1>2, <2>2
    <3>3. Append(k.got, sent[n]) = k.got \o <<sent[n]>>
      BY ZenonT(30), <1>2, <3>2, AppendIsConcat
    <3> QED  BY <3>1, <3>3
  <2>7. client'[c] = [k EXCEPT !.got = Append(@, sent[n])]
    BY <1>1, <1>4, <2>6 DEF Received
  <2>8. sent[n] \in Pieces
    BY <1>2, <2>2
  <2>9. /\ client'[c].got = Append(k.got, sent[n]) /\ Len(client'[c].got) = g + 1
        /\ \A j \in 1..g : client'[c].got[j] = k.got[j]
        /\ client'[c].got[g + 1] = sent[n]
        /\ client'[c].loaded = k.loaded /\ client'[c].found = k.found /\ client'[c].told = k.told
    BY SMTT(30), <1>2, <2>7, <2>8, AppendProperties DEF ClientRecord
  <2>10. SentFrom(c, i)'
    <3>1. i + (g + 1) = n /\ \A j \in 1..g : client'[c].got[j] = sent[i + j]
      <4>1. i + (g + 1) = n
        BY <1>7
      <4>2. \A j \in 1..g : k.got[j] = sent[i + j]
        BY DEF Follows, SentFrom
      <4> QED  BY <2>9, <4>1, <4>2
    <3>2. \A j \in 1..g + 1 : j \in 1..g \/ j = g + 1
      BY SMTT(30), <1>7
    <3>3. \A j \in 1..g + 1 : client'[c].got[j] = sent[i + j]
      BY <2>9, <3>1, <3>2
    <3> QED  BY <1>1, <2>2, <2>9, <3>3 DEF SentFrom
  <2>11. RestFollows(c, i)'
    <3>1. \A a \in i + (g + 1) + 1..Len(sent) :
             a \in n..Len(sent) /\ a \in 1..Len(sent) /\ n < a
      BY <1>7, OnePieceOn
    <3>2. \A a \in i + (g + 1) + 1..Len(sent) : Piece(sent[a]) # e
      BY SMTT(30), <2>1, <2>2, <2>3, <2>4, <2>5, <3>1, PieceFacts
    <3>3. \A a \in i + (g + 1) + 1..Len(sent) :
             Piece(sent[a]) \in ToSet(queue'[c]) \cup ToSet(soon[c])
      BY <1>3, <3>1, <3>2 DEF Follows, RestFollows
    <3>4. ASSUME NEW d \in ToSet(queue'[c]) \cup ToSet(soon[c]), d.kind = "piece"
          PROVE  \E a \in i + (g + 1) + 1..Len(sent) : d = Piece(sent[a])
      <4>1. PICK a \in n..Len(sent) : d = Piece(sent[a])
        BY <1>3, <3>4 DEF Follows, RestFollows
      <4>2. sent[n] < sent[a]
        BY ZenonT(30), <1>3, <1>4, <2>1, <2>5, <3>4, <4>1, PieceFacts DEF Before
      <4>3. a # n
        BY SMTT(30), <2>2, <2>4, <4>2
      <4>4. a \in i + (g + 1) + 1..Len(sent)
        BY <1>7, <4>3, OnePieceOn
      <4> QED  BY <4>1, <4>4
    <3> QED  BY ZenonT(30), <1>1, <1>3, <2>9, <3>3, <3>4 DEF Follows, RestFollows
  <2>12. EarlierSaved(c, i)'
    BY <1>1, <2>9 DEF Follows, EarlierSaved
  <2>13. OnItsWay(c, "saved")' = OnItsWay(c, "saved")
    BY <1>1, <1>3, <1>4 DEF OnItsWay
  <2>14. LaterNamed(c, i)'
    BY <1>1, <2>9, <2>13 DEF Follows, LaterNamed
  <2> QED  BY <2>10, <2>11, <2>12, <2>14 DEF Follows
<1>5. CASE e.kind = "saved"
  <2>1. /\ client'[c].got = k.got /\ client'[c].told = k.told \cup ToSet(e.text)
        /\ client'[c].loaded = k.loaded /\ client'[c].found = k.found
    BY <1>1, <1>2, <1>5 DEF Received, ClientRecord
  <2>2. SentFrom(c, i)' /\ EarlierSaved(c, i)'
    BY <1>1, <2>1 DEF Follows, SentFrom, EarlierSaved
  <2>3. RestFollows(c, i)'
    BY <1>1, <1>3, <1>5, <2>1, PieceFacts DEF Follows, RestFollows
  <2>4. OnItsWay(c, "saved") \subseteq OnItsWay(c, "saved")' \cup ToSet(e.text)
    BY <1>1, <1>3 DEF OnItsWay
  <2>5. LaterNamed(c, i)'
    BY <1>1, <2>1, <2>4 DEF Follows, LaterNamed
  <2> QED  BY <2>2, <2>3, <2>5 DEF Follows
<1>6. CASE e.kind \in {"done", "overflow"}
  <2>1. client'[c].got = k.got /\ client'[c].at # "live"
    BY <1>1, <1>2, <1>6 DEF Received, ClientRecord
  <2> QED  BY <1>1, <2>1 DEF Follows, SentFrom
<1> QED  BY <1>2, <1>4, <1>5, <1>6

\* A client that opens the stream is sent the replay, and owes the store the
\* rest.
LEMMA JoinFollows ==
    ASSUME TypeOK, SavedInv, ReplayEndsSent, NEW c \in Clients, Join(c), ClientInv(c)
    PROVE  ClientInv(c)'
<1>1. /\ client[c] = Outside /\ queue[c] = <<>> /\ soon[c] = <<>>
      /\ client' = [client EXCEPT ![c].at = "live", ![c].got = replay]
      /\ UNCHANGED <<soon, queue, sent, store, lost, relay, acc, replay>>
  BY DEF Join, ClientInv, Replayed, relaying, text
<1>2. /\ client'[c].at = "live" /\ client'[c].got = replay /\ client'[c].loaded = FALSE
      /\ client'[c].found = {} /\ client'[c].told = {}
  BY <1>1 DEF TypeOK, Outside, ClientRecord
<1>3. /\ sent \in Seq(Pieces) /\ replay \in Seq(Pieces) /\ acc \in Seq(Pieces)
      /\ store \in Seq(Pieces)
  BY DEF TypeOK
<1>4a. Len(sent) \in Nat /\ Len(replay) \in Nat /\ Len(replay) <= Len(sent)
  BY <1>3 DEF ReplayEndsSent
<1>4b. PICK i \in 0..Len(sent) : i = Len(sent) - Len(replay)
  BY SMTT(30), <1>4a
<1>4. /\ Len(sent) \in Nat /\ Len(replay) \in Nat /\ i \in 0..Len(sent)
      /\ i + Len(replay) = Len(sent)
      /\ \A j \in 1..Len(replay) : replay[j] = sent[i + j]
  BY <1>4a, <1>4b DEF ReplayEndsSent
<1>5. SentFrom(c, i)'
  <2>1. sent' = sent
    BY <1>1
  <2> QED  BY <1>2, <1>4, <2>1 DEF SentFrom
<1>6. ToSet(<<>>) = {} /\ Len(<<>>) = 0
  BY DEF ToSet
<1>7. RestFollows(c, i)'
  <2>1. ~\E m \in i + Len(replay) + 1..Len(sent) : TRUE
    BY <1>4
  <2> QED  BY <1>1, <1>2, <1>6, <2>1 DEF RestFollows, Ordered, Before
<1>8. EarlierSaved(c, i)'
  <2> SUFFICES ASSUME NEW m \in 1..i PROVE sent[m] \in lost \cup ToSet(store)
    BY <1>1, <1>2 DEF EarlierSaved
  <2>1. m \in 1..Len(sent)
    BY <1>4
  <2>2. sent[m] \notin ToSet(replay)
    <3> SUFFICES ASSUME NEW j \in 1..Len(replay), replay[j] = sent[m] PROVE FALSE
      BY SMTT(30), <1>3 DEF ToSet
    <3>1. i + j \in 1..Len(sent) /\ m < i + j /\ replay[j] = sent[i + j]
      BY <1>4
    <3>2. sent[m] < sent[i + j] /\ sent[m] \in Nat
      BY <1>3, <2>1, <3>1, PiecesAreNumbers DEF SavedInv, Rising
    <3> QED  BY <3>1, <3>2
  <2>3. sent[m] \in ToSet(sent)
    BY <1>3, <2>1 DEF ToSet
  <2> QED  BY <2>2, <2>3 DEF ReplayEndsSent
<1>9. LaterNamed(c, i)'
  <2> SUFFICES ASSUME NEW m \in i + 1..Len(sent), sent[m] \in ToSet(store)
               PROVE  relay = "appended" /\ sent[m] \in ToSet(acc)
    BY <1>1, <1>2 DEF LaterNamed
  <2>1. m - i \in 1..Len(replay) /\ i + (m - i) = m
    BY <1>4
  <2>2. replay[m - i] = sent[m]
    BY <1>4, <2>1
  <2>3. replay = acc
    BY <1>6, <2>1 DEF ReplayEndsSent
  <2>4. sent[m] \in ToSet(acc)
    BY <1>3, <2>1, <2>2, <2>3 DEF ToSet
  <2>5. relay = "appended"
    <3> SUFFICES ASSUME relay # "appended" PROVE FALSE
      OBVIOUS
    <3>1. PICK j \in 1..Len(store) : store[j] = sent[m]
      <4>1. DOMAIN store = 1..Len(store)
        BY <1>3
      <4> QED  BY <4>1 DEF ToSet
    <3>2. store[j] < acc[m - i] /\ store[j] \in Nat
      BY <1>3, <2>1, <2>3, PiecesAreNumbers DEF SavedInv
    <3> QED  BY SMTT(30), <2>2, <2>3, <3>1, <3>2
  <2> QED  BY <2>4, <2>5
<1>10. Follows(c, i)'
  BY <1>5, <1>7, <1>8, <1>9 DEF Follows
<1>11. sent' = sent /\ client'[c].at # "out"
  BY <1>1, <1>2
<1> QED  BY <1>4, <1>5, <1>10, <1>11 DEF ClientInv

\* The client loads the store.
LEMMA LoadFollows ==
    ASSUME TypeOK, NEW c \in Clients, Load(c), ClientInv(c) PROVE ClientInv(c)'
<1>1. /\ client[c].at = "live" /\ ~client[c].loaded
      /\ client' = [client EXCEPT ![c].loaded = TRUE, ![c].found = ToSet(store)]
      /\ UNCHANGED <<soon, queue, sent, store, lost, relay, acc>>
  BY DEF Load, relaying, text
<1>2. /\ client'[c].at = "live" /\ client'[c].got = client[c].got /\ client'[c].loaded
      /\ client'[c].found = ToSet(store) /\ client'[c].told = client[c].told
  BY <1>1 DEF TypeOK, ClientRecord
<1>3. \A i \in 0..Len(sent) : SentFrom(c, i) => SentFrom(c, i)'
  BY <1>1, <1>2 DEF SentFrom
<1>4. ASSUME NEW i \in 0..Len(sent), Follows(c, i) PROVE Follows(c, i)'
  <2>1. RestFollows(c, i)'
    BY <1>1, <1>2, <1>4 DEF Follows, RestFollows
  <2>2. EarlierSaved(c, i)'
    BY <1>1, <1>2, <1>4 DEF Follows, EarlierSaved
  <2>3. OnItsWay(c, "saved")' = OnItsWay(c, "saved")
    BY <1>1 DEF OnItsWay
  <2>4. LaterNamed(c, i)'
    BY <1>1, <1>2, <1>4, <2>3 DEF Follows, LaterNamed
  <2> QED  BY <1>3, <1>4, <2>1, <2>2, <2>4 DEF Follows
<1>5. CutOff(c)' <=> CutOff(c)
  BY <1>1 DEF CutOff
<1> QED  BY <1>1, <1>2, <1>3, <1>4, <1>5 DEF ClientInv

\* What the loop puts into a queue leaves a client that was cut off cut off.
LEMMA EnqueuedCut ==
    ASSUME NEW q \in Seq(Event), NEW e \in Event
    PROVE  \/ Enqueued(q, e) = Append(q, e) /\ (q # <<>> => Head(Append(q, e)) = Head(q))
           \/ Enqueued(q, e) # <<>> /\ Head(Enqueued(q, e)).kind = "overflow"
<1>1. CASE Len(q) < QueueMax
  BY <1>1, HeadTailAppend DEF Enqueued
<1>2. CASE ~(Len(q) < QueueMax)
  <2>1. Enqueued(q, e) = <<Overflow>>
    BY <1>2 DEF Enqueued
  <2> QED  BY <2>1, PieceFacts
<1> QED  BY <1>1, <1>2

\* The steps of the clients and of the loop.
LEMMA ClientKeeps ==
    ASSUME TypeOK, SavedInv, ReplayEndsSent, NEW d \in Clients,
           Join(d) \/ Load(d) \/ Enqueue(d) \/ Receive(d) \/ Leave(d),
           NEW c \in Clients, ClientInv(c)
    PROVE  ClientInv(c)'
<1> USE DEF relaying, text, stop
<1>1. UNCHANGED <<sent, store, lost, relay, acc>>
  BY DEF Join, Load, Enqueue, Receive, Leave
<1>2. CASE client'[c] = client[c] /\ queue'[c] = queue[c] /\ soon'[c] = soon[c]
  <2>1. OnItsWay(c, "saved")' = OnItsWay(c, "saved")
    BY <1>2 DEF OnItsWay
  <2>2. \A i \in 0..Len(sent) : (SentFrom(c, i) => SentFrom(c, i)') /\ (Follows(c, i) => Follows(c, i)')
    BY SMTT(30), <1>1, <1>2, <2>1 DEF Follows, SentFrom, RestFollows, EarlierSaved, LaterNamed
  <2> QED  BY <1>1, <1>2, <2>2 DEF ClientInv, CutOff
<1>3. CASE d # c
  BY <1>2, <1>3 DEF Join, Load, Enqueue, Receive, Leave, TypeOK
<1>4. CASE d = c /\ (Join(c) \/ Load(c))
  BY <1>4, JoinFollows, LoadFollows
<1>5. CASE d = c /\ Enqueue(c)
  <2>1. /\ soon[c] # <<>> /\ soon'[c] = Tail(soon[c]) /\ client' = client
        /\ queue'[c] = Enqueued(queue[c], Head(soon[c]))
        /\ queue[c] \in Seq(Event) /\ soon[c] \in Seq(Event)
    BY <1>5 DEF Enqueue, TypeOK
  <2>2. Head(soon[c]) \in Event
    BY <2>1, HeadTailProperties
  <2>3. CASE queue'[c] = Append(queue[c], Head(soon[c]))
             /\ (queue[c] # <<>> => Head(queue'[c]) = Head(queue[c]))
    <3>1. queue'[c] # <<>>
      BY <2>1, <2>2, <2>3, AppendProperties
    <3>2. ~CutOff(c)' => ~CutOff(c)
      BY <2>3, <3>1 DEF CutOff
    <3>3. \A i \in 0..Len(sent) : (SentFrom(c, i) => SentFrom(c, i)') /\ (Follows(c, i) => Follows(c, i)')
      BY <1>1, <2>1, <2>3, EnqueueFollows DEF SentFrom
    <3> QED  BY <1>1, <2>1, <3>2, <3>3 DEF ClientInv
  <2>4. CASE CutOff(c)'
    <3>1. \A i \in 0..Len(sent) : SentFrom(c, i) => SentFrom(c, i)'
      BY <1>1, <2>1 DEF SentFrom
    <3> QED  BY <1>1, <2>1, <2>4, <3>1 DEF ClientInv
  <2> QED  BY <2>1, <2>2, <2>3, <2>4, EnqueuedCut DEF CutOff
<1>6. CASE d = c /\ Receive(c)
  <2>1. /\ client[c].at = "live" /\ queue[c] # <<>> /\ queue[c] \in Seq(Event)
        /\ client'[c] = Received(client[c], Head(queue[c])) /\ client[c] \in ClientRecord
        /\ Head(queue[c]) \in Event
    <3>1. client[c].at = "live" /\ queue[c] # <<>> /\ queue[c] \in Seq(Event)
          /\ client'[c] = Received(client[c], Head(queue[c])) /\ client[c] \in ClientRecord
      BY <1>6 DEF Receive, TypeOK
    <3> QED  BY <3>1, HeadTailProperties
  <2>2. CASE CutOff(c)
    <3>1. client'[c] = [client[c] EXCEPT !.at = "dropped"]
      BY <2>1, <2>2 DEF CutOff, Received
    <3>2. client'[c].at = "dropped" /\ client'[c].got = client[c].got
      BY <2>1, <3>1 DEF ClientRecord
    <3>3. \A i \in 0..Len(sent) : SentFrom(c, i) => SentFrom(c, i)'
      BY <1>1, <3>2 DEF SentFrom
    <3> QED  BY <1>1, <3>2, <3>3 DEF ClientInv
  <2>3. CASE ~CutOff(c)
    <3>1. client'[c].at # "out"
      <4>1. Head(queue[c]).kind \in {"piece", "saved", "done", "overflow"}
        BY <2>1 DEF Event
      <4> QED  BY <2>1, <4>1 DEF Received, ClientRecord
    <3>2. PICK i \in 0..Len(sent) : Follows(c, i)
      BY <2>1, <2>3 DEF ClientInv
    <3>3. SentFrom(c, i)' /\ (client'[c].at = "live" => Follows(c, i)')
      BY <1>6, <3>2, ReceiveFollows
    <3> QED  BY <1>1, <3>1, <3>3 DEF ClientInv
  <2> QED  BY <2>2, <2>3
<1>7. CASE d = c /\ Leave(c)
  <2>1. client'[c].at = "left" /\ client'[c].got = client[c].got
    BY <1>7 DEF Leave, TypeOK, ClientRecord
  <2>2. \A i \in 0..Len(sent) : SentFrom(c, i) => SentFrom(c, i)'
    BY <1>1, <2>1 DEF SentFrom
  <2> QED  BY <1>1, <2>1, <2>2 DEF ClientInv
<1> QED  BY <1>3, <1>4, <1>5, <1>6, <1>7

\* Publishing leaves the clients that are not connected alone.
LEMMA PublishedKeeps ==
    ASSUME TypeOK, NEW c \in Clients, NEW e \in Event, Publish(e), ClientInv(c),
           UNCHANGED <<client, queue>>,
           \A i \in 0..Len(sent) : SentFrom(c, i) => SentFrom(c, i)',
           Len(sent) \in Nat, Len(sent') \in Nat, Len(sent) <= Len(sent'),
           client[c].at = "live" =>
               \A i \in 0..Len(sent) : Follows(c, i) => Follows(c, i)'
    PROVE  ClientInv(c)'
<1>1. client[c].at # "live" => soon'[c] = soon[c]
  BY DEF Publish
<1>2. CutOff(c)' <=> CutOff(c)
  BY DEF CutOff
<1>3. \A i \in 0..Len(sent) : i \in 0..Len(sent')
  OBVIOUS
<1> QED  BY <1>1, <1>2, <1>3 DEF ClientInv

\* A step that does not touch the clients.
LEMMA StoreKeeps ==
    ASSUME TypeOK, NEW c \in Clients, ClientInv(c),
           UNCHANGED <<client, queue, soon, sent>>, lost \subseteq lost',
           \/ UNCHANGED store /\ relay # "appended"
           \/ UNCHANGED <<store, relay, acc>>
           \/ CommitMessage
    PROVE  ClientInv(c)'
<1>1. \A i \in 0..Len(sent) : Follows(c, i) => Follows(c, i)'
  BY StoreFollows
<1> QED  BY <1>1 DEF ClientInv, SentFrom, CutOff

LEMMA ClientStep ==
    ASSUME TypeOK, TypeOK', ReplayInv, SavedInv, ReplayEndsSent, [Next]_vars,
           NEW c \in Clients, ClientInv(c)
    PROVE  ClientInv(c)'
<1> USE DEF relaying, text, stop, streams
<1>1. CASE RelayPiece /\ ~fenced
  <2>1. /\ sent' = Append(sent, streamed') /\ Publish(Piece(streamed')) /\ UNCHANGED <<client, queue>>
        /\ streamed' = streamed + 1
    BY <1>1 DEF RelayPiece
  <2>2. streamed' \in Pieces /\ sent \in Seq(Pieces)
    BY <1>1, LiveTextAssumption DEF TypeOK, RelayPiece, Pieces
  <2>3. /\ Len(sent') = Len(sent) + 1 /\ Len(sent) \in Nat
        /\ \A m \in 1..Len(sent) : sent'[m] = sent[m]
    BY <2>1, <2>2, AppendProperties
  <2>4. Len(client[c].got) \in Nat
    <3>1. client[c] \in ClientRecord
      BY DEF TypeOK
    <3>2. client[c].got \in Seq(Pieces)
      BY <3>1 DEF ClientRecord
    <3> QED  BY <3>2
  <2>5. \A i \in 0..Len(sent) : SentFrom(c, i) => SentFrom(c, i)'
    BY SMTT(30), <2>1, <2>3, <2>4 DEF SentFrom
  <2>6. client[c].at = "live" => \A i \in 0..Len(sent) : Follows(c, i) => Follows(c, i)'
    BY <1>1, PieceFollows
  <2>7. Piece(streamed') \in Event
    BY <2>2, EventTypes
  <2> QED  BY <2>1, <2>3, <2>5, <2>6, <2>7, PublishedKeeps
<1>2. CASE RelayPiece /\ fenced
  BY <1>2, StoreKeeps DEF RelayPiece
<1>3. CASE FlushReturns(TRUE)
  <2>1. /\ UNCHANGED <<client, queue, sent>> /\ Publish(Saved(acc))
    BY <1>3 DEF FlushReturns
  <2>2. Saved(acc) \in Event /\ Len(sent) \in Nat
    BY SMTT(30), EventTypes DEF TypeOK
  <2>3. \A i \in 0..Len(sent) : SentFrom(c, i) => SentFrom(c, i)'
    BY <2>1 DEF SentFrom
  <2>4. client[c].at = "live" => \A i \in 0..Len(sent) : Follows(c, i) => Follows(c, i)'
    BY <1>3, SavedFollows
  <2> QED  BY <2>1, <2>2, <2>3, <2>4, PublishedKeeps
<1>4. CASE FlushReturns(FALSE)
  <2>1. /\ UNCHANGED <<client, queue, soon, sent, store>> /\ relay # "appended" /\ lost \subseteq lost'
    BY <1>4 DEF FlushReturns
  <2> QED  BY <2>1, StoreKeeps
<1>5. CASE RelayRunning \/ RelayInProgress \/ RelayTool \/ RelayTerminal \/ RelayIdle
  <2>1. /\ UNCHANGED <<client, queue, soon, sent, store>> /\ relay # "appended" /\ lost \subseteq lost'
    BY <1>5 DEF RelayRunning, RelayInProgress, RelayTool, RelayTerminal, RelayIdle
  <2> QED  BY <2>1, StoreKeeps
<1>6. CASE RelayEnds \/ RelayStarts \/ AppendRefused
  <2>1. /\ UNCHANGED <<client, queue, soon, sent, store>> /\ relay # "appended" /\ lost \subseteq lost'
    BY <1>6 DEF RelayEnds, RelayStarts, AppendRefused
  <2> QED  BY <2>1, StoreKeeps
<1>7. CASE CommitMessage
  BY <1>7, StoreKeeps DEF CommitMessage
<1>8. CASE Stop \/ (\E landed \in BOOLEAN : StopReturns(landed)) \/ UNCHANGED vars
  <2>1. UNCHANGED <<client, queue, soon, sent, store, relay, acc, lost>>
    BY <1>8 DEF Stop, StopReturns, vars
  <2> QED  BY <2>1, StoreKeeps
<1>9. CASE \E d \in Clients : Join(d) \/ Load(d) \/ Enqueue(d) \/ Receive(d) \/ Leave(d)
  BY <1>9, ClientKeeps
<1>10. CASE ShutdownAll
  <2>1. /\ UNCHANGED <<client, soon, sent, store, relay, acc, lost>>
        /\ queue'[c] \in {queue[c], Enqueued(queue[c], Done)}
        /\ client[c].at # "live" => queue'[c] = queue[c]
        /\ queue[c] \in Seq(Event) /\ Done \in Event
    BY <1>10, EventTypes DEF ShutdownAll, TypeOK
  <2>2. \A i \in 0..Len(sent) : SentFrom(c, i) => SentFrom(c, i)'
    BY <2>1 DEF SentFrom
  <2>3. CASE queue'[c] = queue[c]
    <3>1. OnItsWay(c, "saved")' = OnItsWay(c, "saved")
      BY <2>1, <2>3 DEF OnItsWay
    <3>2. \A i \in 0..Len(sent) : Follows(c, i) => Follows(c, i)'
      BY <2>1, <2>2, <2>3, <3>1 DEF Follows, RestFollows, EarlierSaved, LaterNamed
    <3> QED  BY <2>1, <2>2, <2>3, <3>2 DEF ClientInv, CutOff
  <2>4. CASE queue'[c] = Append(queue[c], Done) /\ client[c].at = "live"
             /\ (queue[c] # <<>> => Head(queue'[c]) = Head(queue[c]))
    <3>1. ToSet(queue'[c]) = ToSet(queue[c]) \cup {Done} /\ queue'[c] # <<>>
      BY <2>1, <2>4, ToSetAppend, AppendProperties
    <3>2. ~CutOff(c)' => ~CutOff(c)
      BY <2>4, <3>1 DEF CutOff
    <3>3. OnItsWay(c, "saved")' = OnItsWay(c, "saved")
      BY <2>1, <3>1, PieceFacts DEF OnItsWay
    <3>4. ASSUME NEW i \in 0..Len(sent), Follows(c, i) PROVE Follows(c, i)'
      <4>1. Before(ToSet(queue[c]), {Done}) /\ Before({Done}, ToSet(soon[c]))
        BY PieceFacts DEF Before
      <4>2. Ordered(queue'[c])
        BY <2>1, <2>4, <3>4, <4>1, OrderedAppend DEF Follows, RestFollows
      <4>3. Before(ToSet(queue'[c]), ToSet(soon[c]))
        BY <3>1, <3>4, <4>1 DEF Follows, RestFollows, Before
      <4>4. RestFollows(c, i)'
        BY <2>1, <3>1, <3>4, <4>2, <4>3, PieceFacts DEF Follows, RestFollows
      <4> QED  BY <2>1, <2>2, <3>3, <3>4, <4>4 DEF Follows, EarlierSaved, LaterNamed
    <3> QED  BY <2>1, <2>2, <2>4, <3>2, <3>4 DEF ClientInv
  <2>5. CASE CutOff(c)' /\ client[c].at = "live"
    BY <2>1, <2>2, <2>5 DEF ClientInv
  <2> QED  BY <2>1, <2>3, <2>4, <2>5, EnqueuedCut DEF CutOff
<1> QED  BY <1>1, <1>2, <1>3, <1>4, <1>5, <1>6, <1>7, <1>8, <1>9, <1>10 DEF Next, Relay

-----------------------------------------------------------------------------
(* What the clients see *)

WatchInv == SavedInv /\ ReplayEndsSent /\ \A c \in Clients : ClientInv(c)

LEMMA WatchInit == Init => WatchInv
<1> SUFFICES ASSUME Init PROVE WatchInv
  OBVIOUS
<1>1. Len(<<>>) = 0 /\ ToSet(<<>>) = {}
  BY DEF ToSet
<1>2. SavedInv
  BY <1>1 DEF Init, SavedInv, Rising, AllBelow
<1>3. ReplayEndsSent
  BY <1>1 DEF Init, ReplayEndsSent
<1>4. ASSUME NEW c \in Clients PROVE ClientInv(c)
  <2>1. client[c] = Outside /\ queue[c] = <<>> /\ soon[c] = <<>> /\ sent = <<>>
    BY DEF Init
  <2>2. Outside.got = <<>> /\ Outside.at = "out"
    BY DEF Outside
  <2> QED  BY <1>1, <2>1, <2>2 DEF ClientInv, SentFrom
<1> QED  BY <1>2, <1>3, <1>4 DEF WatchInv

LEMMA WatchStep ==
    ASSUME TypeOK, TypeOK', ReplayInv, WatchInv, [Next]_vars PROVE WatchInv'
BY SavedStep, ReplayEndsStep, ClientStep DEF WatchInv

LEMMA InvariantHolds == Spec => [](TypeOK /\ ReplayInv /\ WatchInv)
<1>1. Init => ReplayInv
  BY DEF Init, ReplayInv, ReplayIsUnsaved
<1> QED  BY <1>1, ReplayStep, TypeCorrect, WatchInit, WatchStep, PTL DEF Spec

\* Whatever the clients' queues hold, whenever they connect, and through stops,
\* refused saves and lost relays, a client that stays connected is sent one run
\* of the published text and misses nothing that is not lost.
THEOREM WatchersMissNothing == Spec => []WatchersSeeAll
<1>1. TypeOK /\ WatchInv => WatchersSeeAll
  <2> SUFFICES ASSUME TypeOK, WatchInv PROVE SentOnce /\ NothingMissed
    BY DEF WatchersSeeAll
  <2>1. ASSUME NEW c \in Clients
        PROVE  \E i \in 0..Len(sent) : IsPrefix(client[c].got, SubSeq(sent, i + 1, Len(sent)))
    <3> DEFINE s == client[c].got
    <3>1. sent \in Seq(Pieces) /\ s \in Seq(Pieces)
      BY DEF TypeOK, ClientRecord
    <3>2. PICK i \in 0..Len(sent) : SentFrom(c, i)
      BY DEF WatchInv, ClientInv
    <3> DEFINE t == SubSeq(sent, i + 1, Len(sent))
    <3>3. Len(s) \in Nat /\ Len(sent) \in Nat /\ i \in Nat /\ i + Len(s) <= Len(sent)
      BY <3>1, <3>2 DEF SentFrom
    <3>4. /\ t \in Seq(Pieces) /\ Len(t) = Len(sent) - i
          /\ \A j \in 1..Len(s) : t[j] = sent[i + j]
      BY SMTT(30), <3>1, <3>3
    <3>5. SubSeq(s, 1, Len(s)) = SubSeq(t, 1, Len(s))
      BY <3>1, <3>2, <3>3, <3>4 DEF SentFrom
    <3>6. Len(s) <= Len(t)
      BY SMTT(30), <3>3, <3>4
    <3>7. IsPrefix(s, t)
      BY <3>5, <3>6 DEF IsPrefix
    <3> QED  BY <3>7
  <2>2. ASSUME NEW c \in Clients, client[c].at = "live", client[c].loaded, ~Ending(c),
               NEW n \in ToSet(sent)
        PROVE  n \in client[c].found \cup ToSet(client[c].got) \cup OnItsWay(c, "piece") \cup lost
    <3>1. /\ sent \in Seq(Pieces) /\ client[c].got \in Seq(Pieces) /\ queue[c] \in Seq(Event)
      BY DEF TypeOK, ClientRecord
    <3>2. ~CutOff(c)
      <4>1. queue[c] # <<>> => Head(queue[c]) \in ToSet(queue[c])
        BY <3>1, ToSetHeadTail
      <4> QED  BY <2>2, <4>1 DEF CutOff, Ending
    <3>3. PICK i \in 0..Len(sent) : Follows(c, i)
      BY <2>2, <3>2 DEF WatchInv, ClientInv
    <3>4. PICK m \in 1..Len(sent) : n = sent[m]
      BY <3>1 DEF ToSet
    <3>5. Len(client[c].got) \in Nat /\ Len(sent) \in Nat /\ i \in Nat
      BY <3>1
    <3>6. CASE m \in 1..i
      BY <2>2, <3>3, <3>4, <3>6 DEF Follows, EarlierSaved
    <3>7. CASE m - i \in 1..Len(client[c].got)
      <4>1. client[c].got[m - i] = n
        BY SMTT(30), <3>3, <3>4, <3>5, <3>7 DEF Follows, SentFrom
      <4> QED  BY <3>1, <3>7, <4>1 DEF ToSet
    <3>8. CASE m \in i + Len(client[c].got) + 1..Len(sent)
      <4>1. Piece(n) \in ToSet(queue[c]) \cup ToSet(soon[c])
        BY <3>3, <3>4, <3>8 DEF Follows, RestFollows
      <4>2. Piece(n).kind = "piece" /\ n \in ToSet(Piece(n).text)
        BY DEF Piece, ToSet
      <4> QED  BY <4>1, <4>2 DEF OnItsWay
    <3> QED  BY <3>4, <3>5, <3>6, <3>7, <3>8
  <2> QED  BY <2>1, <2>2 DEF SentOnce, NothingMissed
<1> QED  BY <1>1, InvariantHolds, PTL

\* Text is saved once and in order, and no client is left with a piece it was
\* sent and has found in the store without being told that they are the same.
THEOREM SavedTextIsNamed == Spec => []DuplicatesAreNamed
<1>1. TypeOK /\ WatchInv => DuplicatesAreNamed
  <2> SUFFICES ASSUME TypeOK, WatchInv PROVE DuplicatesAreNamed
    OBVIOUS
  <2>1. \A i, j \in 1..Len(store) : i < j => store[i] < store[j]
    BY DEF WatchInv, SavedInv, Rising
  <2>2. ASSUME NEW c \in Clients, client[c].at = "live", ~Ending(c),
               NEW n \in client[c].found \cap ToSet(client[c].got)
        PROVE  n \in client[c].told \cup OnItsWay(c, "saved")
                       \cup IF relay = "appended" THEN ToSet(acc) ELSE {}
    <3>1. /\ sent \in Seq(Pieces) /\ client[c].got \in Seq(Pieces) /\ queue[c] \in Seq(Event)
      BY DEF TypeOK, ClientRecord
    <3>2. ~CutOff(c)
      <4>1. queue[c] # <<>> => Head(queue[c]) \in ToSet(queue[c])
        BY <3>1, ToSetHeadTail
      <4> QED  BY <2>2, <4>1 DEF CutOff, Ending
    <3>3. PICK i \in 0..Len(sent) : Follows(c, i)
      BY <2>2, <3>2 DEF WatchInv, ClientInv
    <3>4. PICK j \in 1..Len(client[c].got) : n = client[c].got[j]
      BY <3>1 DEF ToSet
    <3>5. i + j \in i + 1..Len(sent) /\ n = sent[i + j]
      BY <3>1, <3>3, <3>4 DEF Follows, SentFrom
    <3>6. n \in ToSet(store)
      BY <3>3 DEF Follows, LaterNamed
    <3> QED  BY <3>3, <3>5, <3>6 DEF Follows, LaterNamed
  <2> QED  BY <2>1, <2>2 DEF DuplicatesAreNamed
<1> QED  BY <1>1, InvariantHolds, PTL-----------------------------------------------------------------------------
(* The end of a stream *)

\* When the server goes down every client that is connected has the end of its
\* stream in its queue, and no client connects any more.
EndsAtShutdown == \A c \in Clients : down /\ client[c].at = "live" => Ending(c)

\* The end of a stream stays in the queue until the client has read it or has left.
EndStays == \A c \in Clients : Ending(c) => Ending(c)' \/ client'[c].at # "live"

IsEnd(e) == e.kind \in {"done", "overflow"}

\* An end, and any event put behind an end, leaves a queue that ends.
LEMMA EnqueuedEnds ==
    ASSUME NEW q \in Seq(Event), NEW e \in Event,
           IsEnd(e) \/ \E x \in ToSet(q) : IsEnd(x)
    PROVE  \E x \in ToSet(Enqueued(q, e)) : IsEnd(x)
<1>1. CASE Len(q) < QueueMax
  <2>1. ToSet(Enqueued(q, e)) = ToSet(q) \cup {e}
    BY <1>1, ToSetAppend DEF Enqueued
  <2> QED  BY <2>1
<1>2. CASE ~(Len(q) < QueueMax)
  <2>1. Enqueued(q, e) = <<Overflow>> /\ 1 \in DOMAIN <<Overflow>> /\ <<Overflow>>[1] = Overflow
    BY <1>2 DEF Enqueued
  <2>2. Overflow \in ToSet(Enqueued(q, e))
    BY <2>1 DEF ToSet
  <2> QED  BY <2>2 DEF IsEnd, Overflow
<1> QED  BY <1>1, <1>2

LEMMA EndStep == ASSUME TypeOK, EndsAtShutdown, [Next]_vars PROVE EndsAtShutdown' /\ EndStays
<1>0. \A c \in Clients : soon[c] \in Seq(Event) /\ queue[c] \in Seq(Event) /\ client[c] \in ClientRecord
  BY DEF TypeOK
<1>1. ASSUME NEW c \in Clients, Enqueue(c) PROVE EndsAtShutdown' /\ EndStays
  <2>1. /\ down' = down /\ client' = client
        /\ queue' = [queue EXCEPT ![c] = Enqueued(@, Head(soon[c]))]
    BY <1>1 DEF Enqueue
  <2>2. Head(soon[c]) \in Event
    BY <1>0, <1>1, HeadTailType DEF Enqueue
  <2>3. Ending(c) => Ending(c)'
    BY <1>0, <2>1, <2>2, EnqueuedEnds DEF Ending, IsEnd
  <2>4. \A d \in Clients \ {c} : Ending(d)' <=> Ending(d)
    BY <1>0, <2>1 DEF Ending, TypeOK
  <2> QED  BY <2>1, <2>3, <2>4 DEF EndsAtShutdown, EndStays
<1>2. ASSUME NEW c \in Clients, Receive(c) PROVE EndsAtShutdown' /\ EndStays
  <2>1. /\ down' = down /\ client[c].at = "live" /\ queue[c] # <<>>
        /\ client' = [client EXCEPT ![c] = Received(@, Head(queue[c]))]
        /\ queue' = [queue EXCEPT ![c] = Tail(@)]
    BY <1>2 DEF Receive
  <2>2. /\ Head(queue[c]) \in Event
        /\ ToSet(queue[c]) = {Head(queue[c])} \cup ToSet(queue'[c])
    BY <1>0, <2>1, HeadTailType, ToSetHeadTail DEF TypeOK
  <2>3. IsEnd(Head(queue[c])) => client'[c].at # "live"
    BY <1>0, <2>1, <2>2 DEF IsEnd, Received, ClientRecord, TypeOK
  <2>4. Ending(c) => Ending(c)' \/ client'[c].at # "live"
    BY <2>2, <2>3 DEF Ending, IsEnd
  <2>5. \A d \in Clients \ {c} : (Ending(d)' <=> Ending(d)) /\ client'[d] = client[d]
    BY <2>1 DEF Ending, TypeOK
  <2> QED  BY <2>1, <2>4, <2>5 DEF EndsAtShutdown, EndStays
<1>3. CASE ShutdownAll
  <2>1. ASSUME NEW c \in Clients PROVE client[c].at = "live" \/ Ending(c) => Ending(c)'
    <3>1. CASE client[c].at = "live"
      <4>1. queue'[c] = Enqueued(queue[c], Done) /\ Done \in Event /\ IsEnd(Done)
        BY <1>3, <3>1, EventTypes DEF ShutdownAll, IsEnd, Done
      <4> QED  BY <1>0, <4>1, EnqueuedEnds DEF Ending, IsEnd
    <3>2. CASE client[c].at # "live"
      BY <1>3, <3>2 DEF ShutdownAll, Ending
    <3> QED  BY <3>1, <3>2
  <2> QED  BY <1>3, <2>1 DEF ShutdownAll, EndsAtShutdown, EndStays
<1>4. ASSUME NEW c \in Clients, Join(c) \/ Load(c) \/ Leave(c) PROVE EndsAtShutdown' /\ EndStays
  <2>1. /\ queue' = queue /\ down' = down
        /\ \A d \in Clients : down /\ client'[d].at = "live" => client[d].at = "live"
    BY <1>0, <1>4 DEF Join, Load, Leave, ClientRecord, TypeOK
  <2>2. \A d \in Clients : Ending(d)' <=> Ending(d)
    BY <2>1 DEF Ending
  <2> QED  BY <2>1, <2>2 DEF EndsAtShutdown, EndStays
<1>5. CASE UNCHANGED <<client, queue, down>>
  BY <1>5 DEF EndsAtShutdown, EndStays, Ending
<1>6. ASSUME Relay \/ CommitMessage \/ AppendRefused \/ Stop
               \/ (\E landed \in BOOLEAN : StopReturns(landed)) \/ UNCHANGED vars
      PROVE  UNCHANGED <<client, queue, down>>
  BY <1>6 DEF Relay, RelayRunning, RelayInProgress, RelayPiece, RelayTool, RelayTerminal, RelayIdle,
        FlushReturns, RelayEnds, RelayStarts, CommitMessage, AppendRefused, Stop, StopReturns,
        streams, vars
<1> QED  BY <1>1, <1>2, <1>3, <1>4, <1>5, <1>6 DEF Next

\* The end of a stream survives a full queue and a shutdown (session_stream.py's
\* overflow signal and shutdown_all): what StreamsEnd asks, but for the fairness
\* that makes the client read its queue.
THEOREM EndSurvives == Spec => []EndsAtShutdown /\ [][EndStays]_vars
<1>1. Init => EndsAtShutdown
  BY DEF Init, EndsAtShutdown
<1>2. TypeOK /\ EndsAtShutdown /\ [Next]_vars => EndsAtShutdown' /\ [EndStays]_vars
  BY EndStep
<1> QED  BY <1>1, <1>2, TypeCorrect, PTL DEF Spec
=============================================================================
