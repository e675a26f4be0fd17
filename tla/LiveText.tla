------------------------------ MODULE LiveText ------------------------------
(***************************************************************************)
(* The text an agent streams in one session: from the runner's events to   *)
(* the store and to the clients that watch.                                *)
(*                                                                         *)
(* The relay of the session reads the runner's events one at a time.  It   *)
(* publishes each to the clients' live streams, which also keeps a replay  *)
(* of the text for clients that connect in mid-turn, and gathers the text  *)
(* itself, to save it as one message where a tool call or the end of the   *)
(* turn closes it.  The save is a thread's: while it runs, clients connect *)
(* and load the store.  A Stop fences the rest of the turn off.            *)
(*                                                                         *)
(* Every client has a bounded queue, filled by callbacks of the event loop *)
(* and read at the client's pace; one that falls behind is cut off.        *)
(*                                                                         *)
(* Text is numbered: piece n is the nth the runner streams.                *)
(*                                                                         *)
(* Source: omnicraft/server/routes/sessions.py,                            *)
(*         omnicraft/runtime/inflight_text.py,                             *)
(*         omnicraft/runtime/session_stream.py                             *)
(***************************************************************************)
EXTENDS Naturals, Sequences, FiniteSets, SequencesExt

CONSTANTS
    Clients,      \* connections to the session's live stream
    QueueMax,     \* events a client's queue holds at most
    MaxPieces,    \* pieces of text the runner streams at most
    MaxStops,     \* Stop requests at most
    MaxRelays,    \* relays the session has had at most
    AppendFails   \* whether the store may refuse an append

ASSUME LiveTextAssumption ==
    QueueMax \in Nat \ {0} /\ MaxPieces \in Nat /\ MaxStops \in Nat
        /\ MaxRelays \in Nat \ {0} /\ AppendFails \in BOOLEAN

Pieces == 1..MaxPieces

\* What a queue holds: a piece of text, a saved message, an end of the stream.
Piece(n) == [kind |-> "piece", text |-> <<n>>]
Saved(t) == [kind |-> "saved", text |-> t]
Done == [kind |-> "done", text |-> <<>>]
Overflow == [kind |-> "overflow", text |-> <<>>]

VARIABLES
    turn,      \* the turn, as the relayed events tell it
    streamed,  \* pieces the runner has streamed
    cut,       \* a Stop may have made the runner drop its turn
    relay,     \* the relay: reading, in a flush, or gone
    after,     \* the event the flush was for
    relays,    \* relays so far
    acc,       \* text_acc: the text the relay has not saved
    replay,    \* inflight_text: what a connecting client is sent first
    store,     \* the saved text, in order
    fenced,    \* the session is in _interrupt_fenced_sessions
    stopping,  \* Stop requests being forwarded
    stops,     \* Stop requests so far
    client,    \* each client: its connection and what it has received
    soon,      \* callbacks the loop still has to run, for each client
    queue,     \* each client's queue
    down,      \* the server is shutting down
    sent,      \* history: the pieces that were published
    lost       \* history: the pieces that neither the store nor the replay has

relaying == <<turn, streamed, cut, relay, after, relays>>
text == <<acc, replay, store, sent, lost>>
stop == <<fenced, stopping, stops>>
streams == <<client, soon, queue>>
vars == <<relaying, text, stop, streams, down>>

\* A client: the state of its connection, the pieces it was sent in order, the
\* pieces it has found in the store, and those it was told are saved.
ClientRecord == [at : {"out", "live", "done", "dropped", "left"}, got : Seq(Pieces),
                 loaded : BOOLEAN, found : SUBSET Pieces, told : SUBSET Pieces]
Outside == [at |-> "out", got |-> <<>>, loaded |-> FALSE, found |-> {}, told |-> {}]

Event == [kind : {"piece", "saved", "done", "overflow"}, text : Seq(Pieces)]

TypeOK ==
    /\ turn \in {"none", "started", "streaming", "over"}
    /\ streamed \in 0..MaxPieces
    /\ cut \in BOOLEAN
    /\ relay \in {"reading", "appending", "appended", "refused", "gone"}
    /\ after \in {"none", "tool", "terminal"}
    /\ relays \in 1..MaxRelays
    /\ acc \in Seq(Pieces) /\ replay \in Seq(Pieces) /\ store \in Seq(Pieces)
    /\ fenced \in BOOLEAN /\ stopping \in 0..MaxStops /\ stops \in 0..MaxStops
    /\ client \in [Clients -> ClientRecord]
    /\ soon \in [Clients -> Seq(Event)]
    /\ queue \in [Clients -> Seq(Event)] /\ \A c \in Clients : Len(queue[c]) <= QueueMax
    /\ down \in BOOLEAN
    /\ sent \in Seq(Pieces) /\ lost \subseteq Pieces

Init ==
    /\ turn = "none" /\ streamed = 0 /\ cut = FALSE
    /\ relay = "reading" /\ after = "none" /\ relays = 1
    /\ acc = <<>> /\ replay = <<>> /\ store = <<>> /\ sent = <<>> /\ lost = {}
    /\ fenced = FALSE /\ stopping = 0 /\ stops = 0
    /\ client = [c \in Clients |-> Outside]
    /\ soon = [c \in Clients |-> <<>>] /\ queue = [c \in Clients |-> <<>>]
    /\ down = FALSE

-----------------------------------------------------------------------------
(* The live streams *)

\* Publishing hands every client that is registered now to the event loop.
Publish(e) ==
    soon' = [c \in Clients |-> IF client[c].at = "live" THEN Append(soon[c], e) ELSE soon[c]]

\* Mutant: a full queue drops the event instead of the client.
Enqueued_DropEvent(q, e) == IF Len(q) < QueueMax THEN Append(q, e) ELSE q

\* Mutant: the bound is off by one.
Enqueued_OneMore(q, e) == IF Len(q) <= QueueMax THEN Append(q, e) ELSE <<Overflow>>

\* A queue after an event: one that is full is replaced by an overflow signal.
Enqueued(q, e) == IF Len(q) < QueueMax THEN Append(q, e) ELSE <<Overflow>>

\* The loop runs a client's next callback.
Enqueue(c) ==
    /\ soon[c] # <<>>
    /\ queue' = [queue EXCEPT ![c] = Enqueued(@, Head(soon[c]))]
    /\ soon' = [soon EXCEPT ![c] = Tail(@)]
    /\ UNCHANGED <<relaying, text, stop, client, down>>

\* Mutant: the replay is left to the live tail.
Replayed_Not == <<>>

\* What a client is sent ahead of the live tail, read as it registers.
Replayed == replay

\* A client opens the stream: its slot and the replay, in one step of the loop.
Join(c) ==
    /\ client[c].at = "out" /\ ~down
    /\ client' = [client EXCEPT ![c].at = "live", ![c].got = Replayed]
    /\ UNCHANGED <<relaying, text, stop, soon, queue, down>>

\* The client, connected, loads the saved messages.
Load(c) ==
    /\ client[c].at = "live" /\ ~client[c].loaded
    /\ client' = [client EXCEPT ![c].loaded = TRUE, ![c].found = ToSet(store)]
    /\ UNCHANGED <<relaying, text, stop, soon, queue, down>>

\* The client as the event e leaves it.
Received(k, e) ==
    CASE e.kind = "piece" -> [k EXCEPT !.got = @ \o e.text]
      [] e.kind = "saved" -> [k EXCEPT !.told = @ \cup ToSet(e.text)]
      [] e.kind = "done" -> [k EXCEPT !.at = "done"]
      [] e.kind = "overflow" -> [k EXCEPT !.at = "dropped"]

\* The stream takes the next event of the queue; an end frees the slot.
Receive(c) ==
    /\ client[c].at = "live" /\ queue[c] # <<>>
    /\ client' = [client EXCEPT ![c] = Received(@, Head(queue[c]))]
    /\ queue' = [queue EXCEPT ![c] = Tail(@)]
    /\ UNCHANGED <<relaying, text, stop, soon, down>>

\* The client goes away.
Leave(c) ==
    /\ client[c].at = "live"
    /\ client' = [client EXCEPT ![c].at = "left"]
    /\ UNCHANGED <<relaying, text, stop, soon, queue, down>>

\* The server shuts down: the end goes into every queue at once, ahead of the
\* callbacks that are still due.
ShutdownAll ==
    /\ ~down
    /\ down' = TRUE
    /\ queue' = [c \in Clients |->
                    IF client[c].at = "live" THEN Enqueued(queue[c], Done) ELSE queue[c]]
    /\ UNCHANGED <<relaying, text, stop, client, soon>>

-----------------------------------------------------------------------------
(* The relay *)

\* A turn starts: the fence lifts, and text that was not saved is given up.
RelayRunning ==
    /\ relay = "reading" /\ turn \in {"none", "over"}
    /\ turn' = "started"
    /\ fenced' = FALSE
    /\ acc' = <<>>
    /\ UNCHANGED <<streamed, cut, relay, after, relays, replay, store, sent, lost, stopping,
                   stops, streams, down>>

\* The turn has a response: its replay starts afresh, unless the fence drops it.
RelayInProgress ==
    /\ relay = "reading" /\ turn = "started"
    /\ turn' = "streaming"
    /\ replay' = IF fenced THEN replay ELSE <<>>
    /\ UNCHANGED <<streamed, cut, relay, after, relays, acc, store, sent, lost, stop, streams,
                   down>>

\* Mutant: the fence stops the publication and not the accumulation.
Gathered_Fenced(n) == Append(acc, n)

\* The text to save after piece n: the fence precedes the accumulation.
Gathered(n) == IF fenced THEN acc ELSE Append(acc, n)

\* A piece of text: gathered, added to the replay and published, or dropped.
RelayPiece ==
    /\ relay = "reading" /\ turn = "streaming" /\ streamed < MaxPieces
    /\ streamed' = streamed + 1
    /\ acc' = Gathered(streamed')
    /\ IF fenced
       THEN UNCHANGED <<replay, sent, soon>>
       ELSE /\ replay' = Append(replay, streamed')
            /\ sent' = Append(sent, streamed')
            /\ Publish(Piece(streamed'))
    /\ UNCHANGED <<turn, cut, relay, after, relays, store, lost, stop, client, queue, down>>

\* A completed tool call closes the text before it: the relay saves it first.
RelayTool ==
    /\ relay = "reading" /\ turn = "streaming" /\ ~fenced /\ acc # <<>>
    /\ relay' = "appending" /\ after' = "tool"
    /\ UNCHANGED <<turn, streamed, cut, relays, text, stop, streams, down>>

\* The turn's terminal event lifts the fence; text is saved before it is published,
\* and its publication drops the replay.
RelayTerminal ==
    /\ relay = "reading" /\ turn \in {"started", "streaming"}
    /\ turn' = "over"
    /\ fenced' = FALSE
    /\ IF acc # <<>>
       THEN relay' = "appending" /\ after' = "terminal" /\ UNCHANGED replay
       ELSE replay' = <<>> /\ UNCHANGED <<relay, after>>
    /\ UNCHANGED <<streamed, cut, relays, acc, store, sent, lost, stopping, stops, streams, down>>

\* The turn ends in a status: after its terminal event, before it streamed at all,
\* or cut by a Stop, which ends it with no terminal event.  The replay goes.
RelayIdle ==
    /\ relay = "reading" /\ turn # "none" /\ (turn = "streaming" => cut)
    /\ turn' = "none"
    /\ cut' = (cut /\ turn # "streaming")
    /\ replay' = <<>>
    /\ lost' = lost \cup ToSet(acc)
    /\ UNCHANGED <<streamed, relay, after, relays, acc, store, sent, stop, streams, down>>

\* The thread commits the message.
CommitMessage ==
    /\ relay = "appending"
    /\ relay' = "appended"
    /\ store' = store \o acc
    /\ UNCHANGED <<turn, streamed, cut, after, relays, acc, replay, sent, lost, stop, streams,
                   down>>

\* The store refuses the message.
AppendRefused ==
    /\ AppendFails /\ relay = "appending"
    /\ relay' = "refused"
    /\ UNCHANGED <<turn, streamed, cut, after, relays, text, stop, streams, down>>

\* Mutant: a successful flush leaves the text to be saved again.
Unsaved_Kept(ok) == acc

\* What is left to save after a flush.
Unsaved(ok) == IF ok THEN <<>> ELSE acc

\* What is left to replay after a flush (reset_text).
StillReplayed(ok) == IF ok THEN <<>> ELSE replay

\* The relay resumes after the save, publishes the message, then the event the
\* flush was for.
FlushReturns(ok) ==
    /\ relay = IF ok THEN "appended" ELSE "refused"
    /\ relay' = "reading" /\ after' = "none"
    /\ acc' = Unsaved(ok)
    /\ replay' = IF after = "terminal" THEN <<>> ELSE StillReplayed(ok)
    /\ lost' = IF ok \/ after = "tool" THEN lost ELSE lost \cup ToSet(acc)
    /\ IF ok THEN Publish(Saved(acc)) ELSE UNCHANGED soon
    /\ UNCHANGED <<turn, streamed, cut, relays, store, sent, stop, client, queue, down>>

\* The runner's transport is lost: the text that was not saved goes with the relay.
RelayEnds ==
    /\ relay = "reading" /\ relays < MaxRelays
    /\ relay' = "gone"
    /\ acc' = <<>> /\ replay' = <<>>
    /\ lost' = lost \cup ToSet(acc)
    /\ UNCHANGED <<turn, streamed, cut, after, relays, store, sent, stop, streams, down>>

\* A relay starts again, in whatever state the runner's turn is by then.
RelayStarts ==
    /\ relay = "gone"
    /\ relay' = "reading" /\ relays' = relays + 1
    /\ turn' \in {"none", "started", "streaming", "over"}
    /\ UNCHANGED <<streamed, cut, after, text, stop, streams, down>>

-----------------------------------------------------------------------------
(* Stop *)

\* A Stop fences the turn before it is forwarded to the runner.
Stop ==
    /\ stops < MaxStops
    /\ stops' = stops + 1 /\ stopping' = stopping + 1
    /\ fenced' = TRUE
    /\ cut' = TRUE
    /\ UNCHANGED <<turn, streamed, relay, after, relays, text, streams, down>>

\* The forward returns; the fence of one that did not land is lifted.
StopReturns(landed) ==
    /\ stopping > 0
    /\ stopping' = stopping - 1
    /\ fenced' = (fenced /\ landed)
    /\ UNCHANGED <<relaying, text, stops, streams, down>>

-----------------------------------------------------------------------------

Relay ==
    \/ RelayRunning \/ RelayInProgress \/ RelayPiece \/ RelayTool \/ RelayTerminal \/ RelayIdle
    \/ \E ok \in BOOLEAN : FlushReturns(ok)
    \/ RelayEnds \/ RelayStarts

Next ==
    \/ Relay
    \/ CommitMessage \/ AppendRefused
    \/ Stop \/ \E landed \in BOOLEAN : StopReturns(landed)
    \/ ShutdownAll
    \/ \E c \in Clients : Join(c) \/ Load(c) \/ Enqueue(c) \/ Receive(c) \/ Leave(c)

\* The loop runs its callbacks, and a client that stays reads what it is sent.
Fairness == \A c \in Clients : WF_vars(Enqueue(c)) /\ WF_vars(Receive(c))

Spec == Init /\ [][Next]_vars /\ Fairness

-----------------------------------------------------------------------------
(* Properties *)

\* What is on its way to a client, and whether its stream is about to end.
OnItsWay(c, kind) ==
    UNION {ToSet(e.text) : e \in {x \in ToSet(queue[c]) \cup ToSet(soon[c]) : x.kind = kind}}
Ending(c) == \E e \in ToSet(queue[c]) : e.kind \in {"done", "overflow"}

\* While a turn streams, a client that connects is sent exactly the text the relay
\* has still to save: the relay's text_acc and the replay of inflight_text, kept by
\* two modules, agree through the fence, a refused save and a lost relay.
ReplayIsUnsaved == turn = "streaming" /\ relay # "gone" => replay = acc

\* What a client is sent is one run of the published text: the replay and the live
\* tail neither overlap nor leave a piece out, and a client that falls behind is cut
\* off and not sent what comes after the part it missed.
SentOnce ==
    \A c \in Clients :
        \E i \in 0..Len(sent) : IsPrefix(client[c].got, SubSeq(sent, i + 1, Len(sent)))

\* A client that stays connected and has loaded the store misses no piece that was
\* published before or since, whenever it connected: each is in the store it loaded,
\* was sent to it, or is on its way - or was lost to everyone who connects later.
NothingMissed ==
    \A c \in Clients :
        client[c].at = "live" /\ client[c].loaded /\ ~Ending(c) =>
            ToSet(sent) \subseteq client[c].found \cup ToSet(client[c].got)
                                    \cup OnItsWay(c, "piece") \cup lost

\* A client that stays sees all of the text, and each piece of it once.
WatchersSeeAll == SentOnce /\ NothingMissed

\* Text is saved once, in order, and a client that both was sent a piece and found it
\* in the store is told that the piece is the saved one: it was, the news is on its
\* way, or the relay is about to publish it.
DuplicatesAreNamed ==
    /\ \A i, j \in 1..Len(store) : i < j => store[i] < store[j]
    /\ \A c \in Clients :
        client[c].at = "live" /\ ~Ending(c) =>
            client[c].found \cap ToSet(client[c].got) \subseteq
                client[c].told \cup OnItsWay(c, "saved")
                    \cup IF relay = "appended" THEN ToSet(acc) ELSE {}

\* A stream that is cut off for falling behind ends, and so does every stream when the
\* server shuts down: the end of the stream survives a full queue.
StreamsEnd ==
    \A c \in Clients :
        (client[c].at = "live" /\ (down \/ Ending(c))) ~> (client[c].at # "live")

\* "keep text_acc - the pre-stop narration the user watched persists at the terminal
\* flush": no turn starts over text that is still to be saved.
KeptTextIsSaved == [][turn # "started" /\ turn' = "started" => acc = <<>>]_vars
=============================================================================
