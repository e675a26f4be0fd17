-------------------- MODULE HarnessProcessManager_proofs --------------------
(***************************************************************************)
(* Proofs about HarnessProcessManager, for any number of conversations,    *)
(* calls, releases and subprocesses.  Four of them need that no            *)
(* cancellation lands in the wait after SIGTERM: that a conversation never *)
(* has two live subprocesses, that none is forgotten or left by shutdown,  *)
(* and that no call is given one that was closed.                          *)
(***************************************************************************)
EXTENDS HarnessProcessManager, SequenceTheorems, TLAPS

\* A task closes or spawns only while it holds the spawn lock of its
\* conversation.
LockHeld ==
    \A op \in Ops : /\ pc[op] \in Critical \cup {"waiting", "served"} => conv[op] \in Convs
                    /\ pc[op] \in Critical => Holds(op)

\* What it closes or spawns is a subprocess of that conversation.
HeldOK ==
    \A op \in Ops : pc[op] \in Critical =>
        /\ held[op] \in Procs
        /\ home[held[op]] = conv[op]
        /\ pc[op] = "spawning" => proc[held[op]] = "starting"
        /\ pc[op] # "spawning" => proc[held[op]] \in {"alive", "dead"}

\* An entry is a subprocess of its conversation, past its start.
RegisteredOK ==
    \A c \in Convs : entries[c] # NoProc =>
        home[entries[c]] = c /\ proc[entries[c]] \in {"alive", "dead"}

\* A live subprocess was created for a conversation.
HomeOK == \A p \in Procs : Live(p) => home[p] \in Convs

\* While a task closes or spawns, no other live subprocess is registered for
\* its conversation.
Exclusive ==
    \A op \in Ops : pc[op] \in Critical =>
        \/ entries[conv[op]] \in {NoProc, held[op]}
        \/ proc[entries[conv[op]]] = "dead"

\* While no cancellation lands in the wait after SIGTERM.
Tidy == ~GraceCancel => Exclusive /\ Tracked

\* The inductive invariant.  OneLiveProcess is not inductive alone: it needs
\* to know who may hold a live subprocess (Tracked), that such a task holds
\* the lock, and what is registered meanwhile.
IInv ==
    /\ TypeOK /\ LockHeld /\ HeldOK /\ RegisteredOK /\ HomeOK /\ Tidy
    /\ NoRespawnAfterRelease

-----------------------------------------------------------------------------
(* The spawn lock *)

\* Joining, leaving or giving up a place in the queue, on sequences.
LEMMA QueueFacts ==
    ASSUME NEW S, NEW s \in Seq(S)
    PROVE  /\ \A e \in S : /\ Append(s, e) \in Seq(S) /\ Append(s, e) # <<>>
                           /\ s # <<>> => Head(Append(s, e)) = Head(s)
           /\ s # <<>> => Tail(s) \in Seq(S)
           /\ \A i \in DOMAIN s : /\ RemoveAt(s, i) \in Seq(S)
                                  /\ i # 1 => /\ RemoveAt(s, i) # <<>>
                                              /\ Head(RemoveAt(s, i)) = Head(s)
<1>1. \A e \in S : /\ Append(s, e) \in Seq(S) /\ Append(s, e) # <<>>
                   /\ s # <<>> => Head(Append(s, e)) = Head(s)
  BY AppendProperties, HeadTailAppend
<1>2. s # <<>> => Tail(s) \in Seq(S)
  OBVIOUS
<1>3. ASSUME NEW i \in DOMAIN s
      PROVE  /\ RemoveAt(s, i) \in Seq(S)
             /\ i # 1 => RemoveAt(s, i) # <<>> /\ Head(RemoveAt(s, i)) = Head(s)
  <2>1. i \in 1 .. Len(s) /\ Len(s) \in Nat
    OBVIOUS
  <2>2. SubSeq(s, 1, i - 1) \in Seq(S) /\ SubSeq(s, i + 1, Len(s)) \in Seq(S)
    BY <2>1
  <2>3. RemoveAt(s, i) \in Seq(S)
    BY <2>2, ConcatProperties DEF RemoveAt
  <2>4. ASSUME i # 1
        PROVE  RemoveAt(s, i) # <<>> /\ Head(RemoveAt(s, i)) = Head(s)
    <3> DEFINE a == SubSeq(s, 1, i - 1)
    <3> DEFINE b == SubSeq(s, i + 1, Len(s))
    <3>1. Len(a) = i - 1 /\ a[1] = s[1]
      BY <2>1, <2>4
    <3>2. Len(a \o b) = Len(a) + Len(b) /\ (a \o b)[1] = a[1] /\ Len(b) \in Nat
      BY SMTT(30), <2>1, <2>2, <2>4, <3>1, ConcatProperties
    <3>3. RemoveAt(s, i) = a \o b
      BY DEF RemoveAt
    <3> HIDE DEF a, b
    <3>4. i - 1 \in Nat \ {0} /\ Len(s) # 0
      BY <2>1, <2>4
    <3>5. Len(RemoveAt(s, i)) # 0
      <4>1. Len(RemoveAt(s, i)) = Len(a) + Len(b) /\ Len(a) \in Nat \ {0} /\ Len(b) \in Nat
        BY <3>1, <3>2, <3>3, <3>4
      <4> QED  BY <4>1
    <3>6. RemoveAt(s, i)[1] = s[1]
      BY <3>1, <3>2, <3>3
    <3>7. RemoveAt(s, i) # <<>> /\ Head(RemoveAt(s, i)) = RemoveAt(s, i)[1]
      BY <2>3, <3>5
    <3> QED  BY <3>4, <3>6, <3>7
  <2> QED  BY <2>3, <2>4
<1> QED  BY <1>1, <1>2, <1>3

\* Two tasks never hold the same lock.
LEMMA MutualExclusion ==
    ASSUME LockHeld, NEW o1 \in Ops, NEW o2 \in Ops,
           conv[o1] = conv[o2], pc[o1] \in Critical,
           pc[o2] \in Critical \/ Holds(o2)
    PROVE  o1 = o2
BY DEF LockHeld, Holds

\* A task that leaves the lock disturbs nobody who holds another.
LEMMA LeaveLock ==
    ASSUME TypeOK, LockHeld, NEW op \in Ops, conv[op] \in Convs, Holds(op),
           NEW phase \in Phases \ (Critical \cup {"waiting"}), Leave(op, phase),
           UNCHANGED conv
    PROVE  /\ pc' \in [Ops -> Phases] /\ lock' \in [Convs -> Seq(Ops)]
           /\ pc' = [pc EXCEPT ![op] = phase]
           /\ LockHeld'
<1>1. lock[conv[op]] \in Seq(Ops) /\ lock[conv[op]] # <<>>
  BY DEF TypeOK, Holds
<1>2. Tail(lock[conv[op]]) \in Seq(Ops)
  BY <1>1, QueueFacts
<1>3. lock' \in [Convs -> Seq(Ops)] /\ pc' \in [Ops -> Phases]
  BY <1>2 DEF Leave, TypeOK
<1>4. ASSUME NEW o \in Ops PROVE
        /\ pc'[o] \in Critical \cup {"waiting", "served"} => conv[o] \in Convs
        /\ pc'[o] \in Critical => lock'[conv[o]] # <<>> /\ Head(lock'[conv[o]]) = o
  <2>1. CASE o = op
    BY <2>1 DEF Leave, TypeOK
  <2>2. CASE o # op
    <3>1. pc'[o] = pc[o]
      BY <2>2 DEF Leave, TypeOK
    <3>2. pc[o] \in Critical => conv[o] # conv[op]
      BY <2>2, MutualExclusion
    <3>3. pc[o] \in Critical => lock'[conv[o]] = lock[conv[o]]
      BY <3>2 DEF Leave, TypeOK, LockHeld
    <3> QED  BY <3>1, <3>3 DEF LockHeld, Holds
  <2> QED  BY <2>1, <2>2
<1> QED  BY <1>3, <1>4 DEF Leave, LockHeld, Holds

\* A waiter that gives up is not the holder anyone relies on.
LEMMA GiveUpLock ==
    ASSUME TypeOK, LockHeld, NEW op \in Ops, pc[op] = "waiting",
           NEW phase \in Phases \ (Critical \cup {"waiting"}), GiveUp(op, phase),
           UNCHANGED conv
    PROVE  /\ pc' \in [Ops -> Phases] /\ lock' \in [Convs -> Seq(Ops)]
           /\ pc' = [pc EXCEPT ![op] = phase]
           /\ LockHeld'
<1> DEFINE q == lock[conv[op]]
<1>1. conv[op] \in Convs /\ q \in Seq(Ops)
  BY DEF TypeOK, LockHeld
<1>2. PICK i \in DOMAIN q : q[i] = op /\ lock' = [lock EXCEPT ![conv[op]] = RemoveAt(q, i)]
  BY DEF GiveUp
<1>3. lock' \in [Convs -> Seq(Ops)] /\ pc' \in [Ops -> Phases]
  BY <1>1, <1>2, QueueFacts DEF GiveUp, TypeOK
<1>4. ASSUME NEW o \in Ops PROVE
        /\ pc'[o] \in Critical \cup {"waiting", "served"} => conv[o] \in Convs
        /\ pc'[o] \in Critical => lock'[conv[o]] # <<>> /\ Head(lock'[conv[o]]) = o
  <2>1. CASE o = op
    BY <1>1, <2>1 DEF GiveUp, TypeOK
  <2>2. CASE o # op
    <3>1. pc'[o] = pc[o]
      BY <2>2 DEF GiveUp, TypeOK
    <3>2. CASE pc[o] \in Critical /\ conv[o] = conv[op]
      <4>1. q # <<>> /\ Head(q) = o
        BY <3>2 DEF LockHeld, Holds
      <4>2. i # 1
        BY <1>1, <1>2, <2>2, <4>1
      <4>3. RemoveAt(q, i) # <<>> /\ Head(RemoveAt(q, i)) = o
        BY <1>1, <1>2, <4>1, <4>2, QueueFacts
      <4> QED  BY <1>1, <1>2, <3>2, <4>3 DEF TypeOK
    <3>3. CASE pc[o] \in Critical /\ conv[o] # conv[op]
      BY <1>2, <3>3 DEF LockHeld, Holds, TypeOK
    <3> QED  BY <3>1, <3>2, <3>3 DEF LockHeld
  <2> QED  BY <2>1, <2>2
<1> QED  BY <1>3, <1>4 DEF GiveUp, LockHeld, Holds

\* A newcomer queues behind the holder.
LEMMA AcquireLock ==
    ASSUME TypeOK, LockHeld, NEW op \in Ops, NEW c \in Convs,
           pc[op] \notin Critical, Acquire(op, c)
    PROVE  /\ pc' \in [Ops -> Phases] /\ lock' \in [Convs -> Seq(Ops)]
           /\ conv' \in [Ops -> Convs \cup {NoConv}]
           /\ pc' = [pc EXCEPT ![op] = "waiting"] /\ conv' = [conv EXCEPT ![op] = c]
           /\ LockHeld'
<1>1. lock[c] \in Seq(Ops)
  BY DEF TypeOK
<1>2. Append(lock[c], op) \in Seq(Ops)
  BY <1>1, QueueFacts
<1>3. /\ lock' \in [Convs -> Seq(Ops)] /\ pc' \in [Ops -> Phases]
      /\ conv' \in [Ops -> Convs \cup {NoConv}]
  BY <1>2 DEF Acquire, TypeOK, Phases
<1>4. ASSUME NEW o \in Ops PROVE
        /\ pc'[o] \in Critical \cup {"waiting", "served"} => conv'[o] \in Convs
        /\ pc'[o] \in Critical => lock'[conv'[o]] # <<>> /\ Head(lock'[conv'[o]]) = o
  <2>1. CASE o = op
    BY <2>1 DEF Acquire, TypeOK, Critical
  <2>2. CASE o # op
    <3>1. pc'[o] = pc[o] /\ conv'[o] = conv[o]
      BY <2>2 DEF Acquire, TypeOK
    <3>2. CASE pc[o] \in Critical /\ conv[o] = c
      <4>1. lock[c] # <<>> /\ Head(lock[c]) = o
        BY <3>2 DEF LockHeld, Holds
      <4>2. lock'[c] = Append(lock[c], op)
        BY DEF Acquire, TypeOK
      <4>3. lock'[c] # <<>> /\ Head(lock'[c]) = o
        BY <1>1, <4>1, <4>2, AppendProperties, HeadTailAppend
      <4> QED  BY <3>1, <3>2, <4>3
    <3>3. CASE pc[o] \in Critical /\ conv[o] # c
      BY <3>1, <3>3 DEF Acquire, LockHeld, Holds, TypeOK
    <3> QED  BY <3>1, <3>2, <3>3 DEF LockHeld
  <2> QED  BY <2>1, <2>2
<1> QED  BY <1>3, <1>4 DEF Acquire, LockHeld, Holds

-----------------------------------------------------------------------------
(* The subprocesses *)

\* OneLiveProcess follows from the rest of the invariant: of two live
\* subprocesses of one conversation each is registered or held by the task
\* with the lock, and that task is alone.
LEMMA TrackedOnce ==
    ASSUME IInv, ~GraceCancel PROVE OneLiveProcess
<1> SUFFICES ASSUME NEW p \in Procs, NEW q \in Procs, Live(p), Live(q), home[p] = home[q]
             PROVE  p = q
  BY DEF OneLiveProcess
<1>1. ASSUME NEW r \in Procs, Live(r), NEW o \in Ops, pc[o] \in Critical, conv[o] = home[r],
             entries[home[r]] = r
      PROVE  held[o] = r
  BY <1>1, ConstantsAssumption DEF IInv, Tidy, Exclusive, Live
<1>2. CASE entries[home[p]] = p /\ entries[home[q]] = q
  BY <1>2
<1>3. CASE entries[home[p]] = p /\ entries[home[q]] # q
  <2>1. PICK o \in Ops : pc[o] \in Critical /\ held[o] = q /\ conv[o] = home[q]
    BY <1>3 DEF IInv, Tidy, Tracked
  <2> QED  BY <1>1, <1>3, <2>1
<1>4. CASE entries[home[p]] # p /\ entries[home[q]] = q
  <2>1. PICK o \in Ops : pc[o] \in Critical /\ held[o] = p /\ conv[o] = home[p]
    BY <1>4 DEF IInv, Tidy, Tracked
  <2> QED  BY <1>1, <1>4, <2>1
<1>5. CASE entries[home[p]] # p /\ entries[home[q]] # q
  <2>1. PICK o1 \in Ops : pc[o1] \in Critical /\ held[o1] = p /\ conv[o1] = home[p]
    BY <1>5 DEF IInv, Tidy, Tracked
  <2>2. PICK o2 \in Ops : pc[o2] \in Critical /\ held[o2] = q /\ conv[o2] = home[q]
    BY <1>5 DEF IInv, Tidy, Tracked
  <2>3. o1 = o2
    BY <2>1, <2>2, MutualExclusion DEF IInv
  <2> QED  BY <2>1, <2>2, <2>3
<1> QED  BY <1>2, <1>3, <1>4, <1>5

LEMMA InitInductive == Init => IInv
BY ConstantsAssumption, EmptySeq
   DEF Init, IInv, TypeOK, LockHeld, HeldOK, RegisteredOK, HomeOK, Tidy, Exclusive, Tracked,
       Live, NoRespawnAfterRelease, Phases, Critical, Looping, Ops

\* A step that moves no subprocess, no entry and no generation, and leaves
\* every task that closes or spawns where it is.
LEMMA QuietStep ==
    ASSUME IInv, TypeOK', LockHeld', UNCHANGED <<entries, gen, proc, home, held>>,
           \A op \in Ops : pc[op] \in Critical \/ pc'[op] \in Critical =>
               /\ pc'[op] = pc[op] /\ conv'[op] = conv[op]
               /\ op \in Calls => sample'[op] = sample[op]
    PROVE  IInv'
<1>1. HeldOK' /\ RegisteredOK' /\ HomeOK'
  BY DEF IInv, HeldOK, RegisteredOK, HomeOK, Live
<1>2. Tidy'
  <2> SUFFICES ASSUME ~GraceCancel PROVE Exclusive' /\ Tracked'
    BY DEF Tidy
  <2>1. Exclusive'
    BY DEF IInv, Tidy, Exclusive
  <2>2. Tracked'
    BY DEF IInv, Tidy, Tracked, Live
  <2> QED  BY <2>1, <2>2
<1>3. NoRespawnAfterRelease'
  BY DEF IInv, NoRespawnAfterRelease, Ops
<1> QED  BY <1>1, <1>2, <1>3 DEF IInv

LEMMA AfterClosePhase ==
    ASSUME NEW op \in Ops PROVE AfterClose(op) \in Phases \ (Critical \cup {"waiting"})
BY ConstantsAssumption DEF AfterClose, Ops, Phases, Critical

\* The steps that only join or leave a queue, or none.
LEMMA GetClientStep ==
    ASSUME IInv, NEW op \in Calls, NEW c \in Convs, NEW w \in Wants, NEW b \in BOOLEAN,
           GetClient(op, c, w, b)
    PROVE  IInv'
<1>1. op \in Ops /\ pc[op] \notin Critical
  BY DEF Ops, GetClient, Critical
<1>2. /\ pc' \in [Ops -> Phases] /\ lock' \in [Convs -> Seq(Ops)]
      /\ conv' \in [Ops -> Convs \cup {NoConv}]
      /\ pc' = [pc EXCEPT ![op] = "waiting"] /\ conv' = [conv EXCEPT ![op] = c]
      /\ LockHeld'
  BY <1>1, AcquireLock DEF IInv, GetClient
<1>3. TypeOK'
  BY <1>1, <1>2 DEF IInv, TypeOK, GetClient, procVars
<1>4. \A o \in Ops : pc[o] \in Critical \/ pc'[o] \in Critical =>
        /\ pc'[o] = pc[o] /\ conv'[o] = conv[o]
        /\ o \in Calls => sample'[o] = sample[o]
  BY <1>1, <1>2 DEF IInv, TypeOK, GetClient, Critical
<1> QED  BY <1>2, <1>3, <1>4, QuietStep DEF GetClient, procVars

LEMMA ReleaseStep ==
    ASSUME IInv, NEW op \in Releases, NEW c \in Convs, Release(op, c) PROVE IInv'
<1>1. op \in Ops /\ pc[op] \notin Critical
  BY DEF Ops, Release, Critical
<1>2. /\ pc' \in [Ops -> Phases] /\ lock' \in [Convs -> Seq(Ops)]
      /\ conv' \in [Ops -> Convs \cup {NoConv}]
      /\ pc' = [pc EXCEPT ![op] = "waiting"] /\ conv' = [conv EXCEPT ![op] = c]
      /\ LockHeld'
  BY <1>1, AcquireLock DEF IInv, Release
<1>3. TypeOK'
  BY <1>1, <1>2 DEF IInv, TypeOK, Release, procVars
<1>4. \A o \in Ops : pc[o] \in Critical \/ pc'[o] \in Critical =>
        /\ pc'[o] = pc[o] /\ conv'[o] = conv[o]
        /\ o \in Calls => sample'[o] = sample[o]
  BY <1>1, <1>2 DEF IInv, TypeOK, Release, Critical
<1> QED  BY <1>2, <1>3, <1>4, QuietStep DEF Release, procVars

\* The reaper and shutdown take the next conversation of their list.
LEMMA PickStep ==
    ASSUME IInv, NEW c \in Convs, ReaperPick(c) \/ ShutdownPick(c) PROVE IInv'
<1>1. PICK op \in Looping :
        /\ pc[op] \in {"idle", "drain"} /\ Acquire(op, c)
        /\ todo' = [todo EXCEPT ![op] = @ \ {c}]
        /\ UNCHANGED <<mgr, entries, gen, inFlight, procVars, held, want, sample, cancelled,
                       old, turns>>
  BY DEF ReaperPick, ShutdownPick, Looping
<1>2. op \in Ops /\ pc[op] \notin Critical
  BY <1>1 DEF Ops, Looping, Critical
<1>3. /\ pc' \in [Ops -> Phases] /\ lock' \in [Convs -> Seq(Ops)]
      /\ conv' \in [Ops -> Convs \cup {NoConv}]
      /\ pc' = [pc EXCEPT ![op] = "waiting"] /\ conv' = [conv EXCEPT ![op] = c]
      /\ LockHeld'
  BY <1>1, <1>2, AcquireLock DEF IInv
<1>4. TypeOK'
  BY <1>1, <1>3 DEF IInv, TypeOK, procVars
<1>5. \A o \in Ops : pc[o] \in Critical \/ pc'[o] \in Critical =>
        /\ pc'[o] = pc[o] /\ conv'[o] = conv[o]
        /\ o \in Calls => sample'[o] = sample[o]
  BY <1>1, <1>2, <1>3 DEF IInv, TypeOK, Critical
<1> QED  BY <1>1, <1>3, <1>4, <1>5, QuietStep DEF procVars

\* The steps of shutdown's own loop, a pass of the reaper, and what turns do.
LEMMA BookkeepingStep ==
    ASSUME IInv,
           \/ ShutdownLists \/ ShutdownEnds
           \/ \E stale \in SUBSET Convs : ReaperPass(stale)
           \/ \E op \in Ops : ResponseCreated(op) \/ TurnEnds(op) \/ TurnCancelled(op)
    PROVE  IInv'
<1> USE DEF IInv, procVars, callVars
<1>1. CASE ShutdownLists \/ ShutdownEnds
  <2>1. "shutdown" \in Ops /\ pc["shutdown"] \in {"idle", "drain"}
    BY <1>1 DEF Ops, ShutdownLists, ShutdownEnds
  <2>2. PICK phase \in {"drain", "done"} :
           /\ pc' = [pc EXCEPT !["shutdown"] = phase]
           /\ UNCHANGED <<entries, gen, lock, proc, home, held, conv, sample>>
    BY <1>1 DEF ShutdownLists, ShutdownEnds
  <2>3. TypeOK'
    BY <1>1, <2>1, <2>2 DEF TypeOK, ShutdownLists, ShutdownEnds, Phases, Looping
  <2>4. LockHeld'
    BY <2>1, <2>2 DEF TypeOK, LockHeld, Holds, Critical
  <2>5. \A o \in Ops : pc[o] \in Critical \/ pc'[o] \in Critical => pc'[o] = pc[o]
    BY <2>1, <2>2 DEF TypeOK, Critical
  <2> QED  BY <2>2, <2>3, <2>4, <2>5, QuietStep
<1>2. CASE \/ \E stale \in SUBSET Convs : ReaperPass(stale)
           \/ \E op \in Ops : ResponseCreated(op) \/ TurnEnds(op) \/ TurnCancelled(op)
  <2>1. UNCHANGED <<entries, gen, lock, proc, home, config, closed, held, pc, conv, want,
                    sample, cancelled, mgr>>
    BY <1>2 DEF ReaperPass, ResponseCreated, TurnEnds, TurnCancelled
  <2>2. /\ inFlight' \in SUBSET Convs /\ todo' \in [Looping -> SUBSET Convs]
        /\ old' \in SUBSET Convs /\ turns' \in SUBSET Calls
    <3>1. CASE \E stale \in SUBSET Convs : ReaperPass(stale)
      BY <3>1 DEF ReaperPass, TypeOK, Looping
    <3>2. CASE \E op \in Ops : TurnEnds(op) \/ TurnCancelled(op)
      BY <3>2 DEF TurnEnds, TurnCancelled, TypeOK
    <3>3. CASE \E op \in Ops : ResponseCreated(op)
      BY <3>3 DEF ResponseCreated, TypeOK, LockHeld
    <3> QED  BY <1>2, <3>1, <3>2, <3>3
  <2>3. TypeOK' /\ LockHeld'
    BY <2>1, <2>2 DEF TypeOK, LockHeld, Holds
  <2> QED  BY <2>1, <2>3, QuietStep
<1> QED  BY <1>1, <1>2

\* Everyone else who closes or spawns works on another conversation, and on
\* another subprocess.
LEMMA OthersElsewhere ==
    ASSUME IInv, NEW op \in Ops, Holds(op), NEW o \in Ops, o # op, pc[o] \in Critical
    PROVE  /\ conv[o] # conv[op] /\ conv[o] \in Convs /\ held[o] \in Procs
           /\ pc[op] \in Critical => held[o] # held[op]
           /\ conv[op] \in Convs /\ entries[conv[op]] # NoProc => held[o] # entries[conv[op]]
<1>1. conv[o] # conv[op]
  BY MutualExclusion DEF IInv
<1>2. held[o] \in Procs /\ home[held[o]] = conv[o] /\ conv[o] \in Convs
  BY DEF IInv, HeldOK, LockHeld
<1>3. pc[op] \in Critical => home[held[op]] = conv[op]
  BY DEF IInv, HeldOK
<1>4. conv[op] \in Convs /\ entries[conv[op]] # NoProc => home[entries[conv[op]]] = conv[op]
  BY DEF IInv, RegisteredOK
<1> QED  BY <1>1, <1>2, <1>3, <1>4

\* The holder leaves the lock, with nothing live in its hands unless it was
\* cancelled in the wait after SIGTERM.
LEMMA LeaveStep ==
    ASSUME IInv, TypeOK', NEW op \in Ops, conv[op] \in Convs, Holds(op),
           NEW phase \in Phases \ (Critical \cup {"waiting"}), Leave(op, phase),
           UNCHANGED <<entries, home, conv, sample>>,
           \A o \in Ops \ {op} : held'[o] = held[o],
           \A r \in Procs :
               \/ proc'[r] = proc[r]
               \/ pc[op] \in Critical /\ r = held[op] /\ proc'[r] = "dead",
           ~GraceCancel /\ pc[op] \in Critical => proc'[held[op]] = "dead",
           gen' = gen \/ gen' = [gen EXCEPT ![conv[op]] = @ + 1]
    PROVE  IInv'
<1>1. pc' = [pc EXCEPT ![op] = phase] /\ LockHeld'
  BY LeaveLock DEF IInv
<1>2. \A o \in Ops : pc'[o] \in Critical => o # op /\ pc[o] = pc'[o]
  BY <1>1 DEF IInv, TypeOK
<1>3. ASSUME NEW o \in Ops, pc'[o] \in Critical
      PROVE  /\ pc[o] \in Critical /\ pc[o] = pc'[o] /\ conv[o] # conv[op] /\ conv[o] \in Convs
             /\ held'[o] = held[o] /\ held[o] \in Procs /\ proc'[held[o]] = proc[held[o]]
             /\ gen'[conv[o]] = gen[conv[o]]
  BY <1>2, <1>3, OthersElsewhere DEF IInv, TypeOK
<1>4. HeldOK'
  BY <1>3 DEF IInv, HeldOK
<1>5. \A r \in Procs : proc'[r] = proc[r] \/ proc'[r] = "dead"
  OBVIOUS
<1>6. RegisteredOK' /\ HomeOK'
  BY <1>5 DEF IInv, RegisteredOK, HomeOK, Live, TypeOK
<1>7. ASSUME ~GraceCancel PROVE Exclusive'
  <2> SUFFICES ASSUME NEW o \in Ops, pc'[o] \in Critical
               PROVE  \/ entries[conv[o]] \in {NoProc, held[o]}
                      \/ proc'[entries[conv[o]]] = "dead"
    BY <1>3 DEF Exclusive
  <2> QED  BY <1>3, <1>5, <1>7 DEF IInv, Tidy, Exclusive, TypeOK
<1>8. ASSUME ~GraceCancel PROVE Tracked'
  <2> SUFFICES ASSUME NEW p \in Procs, Live(p)', entries[home[p]] # p
               PROVE  \E o \in Ops : pc'[o] \in Critical /\ held'[o] = p /\ conv[o] = home[p]
    BY DEF Tracked
  <2>1. Live(p)
    BY <1>5 DEF Live
  <2>2. PICK o \in Ops : pc[o] \in Critical /\ held[o] = p /\ conv[o] = home[p]
    BY <1>8, <2>1 DEF IInv, Tidy, Tracked
  <2>3. o # op
    BY <1>8, <2>2 DEF Live
  <2> QED  BY <1>1, <2>2, <2>3 DEF IInv, TypeOK
<1>9. NoRespawnAfterRelease'
  BY <1>3 DEF IInv, NoRespawnAfterRelease, Ops
<1> QED  BY <1>1, <1>4, <1>6, <1>7, <1>8, <1>9 DEF IInv, Tidy

\* A cancellation, and the one that shutdown sends to the reaper.
LEMMA CancelStep ==
    ASSUME IInv, NEW op \in Ops, Cancel(op) PROVE IInv'
<1> USE DEF IInv, Cancel, procVars, callVars
<1>1. CASE pc[op] = "waiting" /\ GiveUp(op, "failed") /\ UNCHANGED cancelled
  <2>1. /\ pc' \in [Ops -> Phases] /\ lock' \in [Convs -> Seq(Ops)]
        /\ pc' = [pc EXCEPT ![op] = "failed"] /\ LockHeld'
    BY <1>1, GiveUpLock DEF Phases, Critical
  <2>2. TypeOK'
    BY <1>1, <2>1 DEF TypeOK
  <2>3. \A o \in Ops : pc[o] \in Critical \/ pc'[o] \in Critical =>
          /\ pc'[o] = pc[o] /\ conv'[o] = conv[o]
          /\ o \in Calls => sample'[o] = sample[o]
    BY <1>1, <2>1 DEF TypeOK, Critical
  <2> QED  BY <2>1, <2>2, <2>3, QuietStep
<1>2. CASE cancelled' = cancelled \cup {op} /\ UNCHANGED <<lock, pc>>
  <2>1. TypeOK' /\ LockHeld'
    BY <1>2 DEF TypeOK, LockHeld, Holds
  <2> QED  BY <1>2, <2>1, QuietStep
<1>3. CASE GraceCancel /\ pc[op] = "grace" /\ Leave(op, "failed") /\ UNCHANGED cancelled
  <2>1. /\ pc[op] \in Critical /\ conv[op] \in Convs /\ Holds(op)
        /\ "failed" \in Phases \ (Critical \cup {"waiting"})
    BY <1>3 DEF LockHeld, Phases, Critical
  <2>2. TypeOK'
    BY <1>3, <2>1, LeaveLock DEF TypeOK
  <2> QED  BY <1>3, <2>1, <2>2, LeaveStep
<1> QED  BY <1>1, <1>2, <1>3

LEMMA ShutdownBeginsStep ==
    ASSUME IInv, ShutdownBegins PROVE IInv'
<1> USE DEF IInv, ShutdownBegins, procVars, callVars
<1>1. "reaper" \in Ops
  BY DEF Ops
<1>2. CASE pc["reaper"] = "waiting" /\ GiveUp("reaper", "gone")
  <2>1. /\ pc' \in [Ops -> Phases] /\ lock' \in [Convs -> Seq(Ops)]
        /\ pc' = [pc EXCEPT !["reaper"] = "gone"] /\ LockHeld'
    BY <1>1, <1>2, GiveUpLock DEF Phases, Critical
  <2>2. TypeOK'
    BY <2>1 DEF TypeOK, Looping
  <2>3. \A o \in Ops : pc[o] \in Critical \/ pc'[o] \in Critical =>
          /\ pc'[o] = pc[o] /\ conv'[o] = conv[o]
          /\ o \in Calls => sample'[o] = sample[o]
    BY <1>2, <2>1 DEF TypeOK, Critical
  <2> QED  BY <2>1, <2>2, <2>3, QuietStep
<1>3. CASE pc["reaper"] = "idle" /\ pc' = [pc EXCEPT !["reaper"] = "gone"] /\ UNCHANGED lock
  <2>1. TypeOK' /\ LockHeld'
    BY <1>1, <1>3 DEF TypeOK, LockHeld, Holds, Phases, Critical, Looping
  <2>2. \A o \in Ops : pc[o] \in Critical \/ pc'[o] \in Critical => pc'[o] = pc[o]
    BY <1>3 DEF TypeOK, Critical
  <2> QED  BY <2>1, <2>2, QuietStep
<1>4. CASE UNCHANGED <<pc, lock>>
  <2>1. TypeOK' /\ LockHeld'
    BY <1>4 DEF TypeOK, LockHeld, Holds, Looping
  <2> QED  BY <1>4, <2>1, QuietStep
<1>5. CASE GraceCancel /\ pc["reaper"] = "grace" /\ Leave("reaper", "gone")
  <2>1. /\ pc["reaper"] \in Critical /\ conv["reaper"] \in Convs /\ Holds("reaper")
        /\ "gone" \in Phases \ (Critical \cup {"waiting"})
    BY <1>1, <1>5 DEF LockHeld, Phases, Critical
  <2>2. TypeOK'
    BY <1>1, <1>5, <2>1, LeaveLock DEF TypeOK, Looping
  <2> QED  BY <1>1, <1>5, <2>1, <2>2, LeaveStep
<1> QED  BY <1>2, <1>3, <1>4, <1>5

\* The holder begins to close the entry of its conversation, which a release
\* unregisters and a call leaves in place.
LEMMA BeginCloseStep ==
    ASSUME IInv, TypeOK', NEW op \in Ops, pc[op] = "waiting", conv[op] \in Convs, Holds(op),
           entries[conv[op]] # NoProc, BeginClose(op, entries[conv[op]]),
           UNCHANGED <<conv, sample>>,
           \/ /\ op \in Calls /\ sample[op] = gen[conv[op]] /\ UNCHANGED <<entries, gen>>
           \/ /\ op \notin Calls /\ gen' = [gen EXCEPT ![conv[op]] = @ + 1]
              /\ entries' = [entries EXCEPT ![conv[op]] = NoProc]
    PROVE  IInv'
<1> DEFINE e == entries[conv[op]]
<1>1. /\ e \in Procs /\ home[e] = conv[op] /\ proc[e] \in {"alive", "dead"}
  BY DEF IInv, TypeOK, RegisteredOK
<1>2. /\ pc' = [pc EXCEPT ![op] = "aclose"] /\ held' = [held EXCEPT ![op] = e]
      /\ UNCHANGED <<lock, proc, home>>
  BY DEF BeginClose
<1>3. /\ pc'[op] = "aclose" /\ held'[op] = e
      /\ \A o \in Ops \ {op} : pc'[o] = pc[o] /\ held'[o] = held[o]
  BY <1>2 DEF IInv, TypeOK
<1>4. ASSUME NEW o \in Ops, o # op, pc[o] \in Critical
      PROVE  /\ conv[o] \in Convs /\ conv[o] # conv[op]
             /\ entries'[conv[o]] = entries[conv[o]] /\ gen'[conv[o]] = gen[conv[o]]
  BY <1>4, OthersElsewhere DEF IInv, TypeOK
<1>5. entries'[conv[op]] \in {NoProc, e}
  BY DEF IInv, TypeOK
<1>6. LockHeld'
  BY <1>2, <1>3 DEF IInv, LockHeld, Holds, Critical
<1>7. HeldOK'
  BY <1>1, <1>2, <1>3 DEF IInv, HeldOK, Critical
<1>8. RegisteredOK' /\ HomeOK'
  BY <1>2 DEF IInv, RegisteredOK, HomeOK, Live, TypeOK
<1>9. ASSUME ~GraceCancel PROVE Exclusive'
  BY <1>2, <1>3, <1>4, <1>5, <1>9 DEF IInv, Tidy, Exclusive
<1>10. ASSUME ~GraceCancel PROVE Tracked'
  <2> SUFFICES ASSUME NEW p \in Procs, Live(p)', entries'[home[p]] # p
               PROVE  \E o \in Ops : pc'[o] \in Critical /\ held'[o] = p /\ conv[o] = home[p]
    BY <1>2 DEF Tracked
  <2>1. Live(p)
    BY <1>2 DEF Live
  <2>2. CASE entries[home[p]] = p
    <3>1. home[p] = conv[op] /\ e = p
      BY <2>1, <2>2 DEF IInv, HomeOK, TypeOK
    <3> QED  BY <1>3, <3>1 DEF Critical
  <2>3. CASE entries[home[p]] # p
    <3>1. PICK o \in Ops : pc[o] \in Critical /\ held[o] = p /\ conv[o] = home[p]
      BY <1>10, <2>1, <2>3 DEF IInv, Tidy, Tracked
    <3> QED  BY <1>3, <3>1 DEF Critical
  <2> QED  BY <2>2, <2>3
<1>11. NoRespawnAfterRelease'
  BY ZenonT(30), <1>3, <1>4 DEF IInv, NoRespawnAfterRelease, Ops, TypeOK
<1> QED  BY <1>6, <1>7, <1>8, <1>9, <1>10, <1>11 DEF IInv, Tidy

\* A call creates a subprocess once nothing live is left of its conversation.
LEMMA SpawnStep ==
    ASSUME IInv, TypeOK', NEW op \in Calls, conv[op] \in Convs, Holds(op),
           sample[op] = gen[conv[op]],
           NEW ps \in [Procs -> {"unborn", "starting", "alive", "dead"}],
           \A r \in Procs : ps[r] = proc[r] \/ (pc[op] \in Critical /\ r = held[op]),
           pc[op] \in Critical => ps[held[op]] = "dead",
           ~GraceCancel /\ entries[conv[op]] # NoProc => ps[entries[conv[op]]] = "dead",
           NEW p \in Procs, ps[p] = "unborn",
           proc' = [ps EXCEPT ![p] = "starting"],
           home' = [home EXCEPT ![p] = conv[op]],
           held' = [held EXCEPT ![op] = p],
           pc' = [pc EXCEPT ![op] = "spawning"],
           UNCHANGED <<lock, entries, gen, conv, sample>>
    PROVE  IInv'
<1>1. op \in Ops
  BY DEF Ops
<1>2. /\ pc'[op] = "spawning" /\ held'[op] = p /\ home'[p] = conv[op] /\ proc'[p] = "starting"
      /\ \A o \in Ops \ {op} : pc'[o] = pc[o] /\ held'[o] = held[o]
      /\ \A r \in Procs \ {p} : home'[r] = home[r] /\ proc'[r] = ps[r]
  BY <1>1 DEF IInv, TypeOK
<1>3. proc[p] = "unborn"
  BY DEF IInv, HeldOK
<1>4. ASSUME NEW o \in Ops, o # op, pc[o] \in Critical
      PROVE  /\ conv[o] \in Convs /\ conv[o] # conv[op] /\ held[o] \in Procs
             /\ held[o] # p /\ proc'[held[o]] = proc[held[o]] /\ home'[held[o]] = home[held[o]]
  <2>1. /\ conv[o] \in Convs /\ conv[o] # conv[op] /\ held[o] \in Procs
        /\ pc[op] \in Critical => held[o] # held[op]
    BY <1>1, <1>4, OthersElsewhere
  <2>2. proc[held[o]] # "unborn"
    BY <1>4 DEF IInv, HeldOK
  <2> QED  BY <1>2, <1>3, <2>1, <2>2
<1>5. ASSUME NEW c \in Convs, entries[c] # NoProc
      PROVE  /\ entries[c] \in Procs \ {p} /\ home'[entries[c]] = home[entries[c]]
             /\ proc'[entries[c]] = proc[entries[c]] \/ proc'[entries[c]] = "dead"
  <2>1. entries[c] \in Procs
    BY <1>5 DEF IInv, TypeOK
  <2>2. proc[entries[c]] \in {"alive", "dead"}
    BY <1>5 DEF IInv, RegisteredOK
  <2>3. \A r \in Procs : ps[r] = proc[r] \/ ps[r] = "dead"
    OBVIOUS
  <2> QED  BY <1>2, <1>3, <2>1, <2>2, <2>3
<1>6. LockHeld'
  BY <1>1, <1>2 DEF IInv, LockHeld, Holds, Critical
<1>7. HeldOK'
  BY <1>2, <1>4 DEF IInv, HeldOK, Critical
<1>8. RegisteredOK'
  BY <1>5 DEF IInv, RegisteredOK
<1>9. HomeOK'
  BY <1>2 DEF IInv, HomeOK, Live
<1>10. ASSUME ~GraceCancel PROVE Exclusive'
  <2>1. ASSUME NEW o \in Ops, pc'[o] \in Critical
        PROVE  \/ entries[conv[o]] \in {NoProc, held'[o]}
               \/ proc'[entries[conv[o]]] = "dead"
    <3>1. CASE o = op
      BY <1>2, <1>5, <1>10, <3>1
    <3>2. CASE o # op
      BY <1>2, <1>4, <1>5, <1>10, <2>1, <3>2 DEF IInv, Tidy, Exclusive
    <3> QED  BY <3>1, <3>2
  <2> QED  BY <2>1 DEF Exclusive
<1>11. ASSUME ~GraceCancel PROVE Tracked'
  <2> SUFFICES ASSUME NEW q \in Procs, Live(q)', entries[home'[q]] # q
               PROVE  \E o \in Ops : pc'[o] \in Critical /\ held'[o] = q /\ conv[o] = home'[q]
    BY DEF Tracked
  <2>1. CASE q = p
    BY <1>1, <1>2, <2>1 DEF Critical
  <2>2. CASE q # p
    <3>1. Live(q) /\ home'[q] = home[q] /\ (pc[op] \in Critical => q # held[op])
      BY <1>2, <2>2 DEF Live
    <3>2. PICK o \in Ops : pc[o] \in Critical /\ held[o] = q /\ conv[o] = home[q]
      BY <1>11, <3>1 DEF IInv, Tidy, Tracked
    <3> QED  BY <1>2, <3>1, <3>2
  <2> QED  BY <2>1, <2>2
<1>12. NoRespawnAfterRelease'
  BY <1>2 DEF IInv, NoRespawnAfterRelease, Ops
<1> QED  BY <1>6, <1>7, <1>8, <1>9, <1>10, <1>11, <1>12 DEF IInv, Tidy

\* A close is over: what was closed is dead in ps.
LEMMA CloseDoneStep ==
    ASSUME IInv, NEW op \in Ops, pc[op] \in {"aclose", "grace"},
           NEW ps \in [Procs -> {"unborn", "starting", "alive", "dead"}],
           \A r \in Procs : ps[r] = proc[r] \/ r = held[op],
           ps[held[op]] = "dead", CloseDone(op, ps)
    PROVE  IInv'
<1> USE DEF CloseDone, callVars
<1>1. pc[op] \in Critical /\ conv[op] \in Convs /\ Holds(op) /\ held[op] \in Procs
  BY DEF IInv, LockHeld, HeldOK, Critical
<1>2. ~GraceCancel /\ entries[conv[op]] # NoProc => ps[entries[conv[op]]] = "dead"
  BY <1>1 DEF IInv, Tidy, Exclusive, TypeOK
<1>3. CASE ~Replaces(op) \/ (proc' = ps /\ Leave(op, "failed") /\ UNCHANGED <<home, config, held>>)
  <2>1. PICK phase \in Phases \ (Critical \cup {"waiting"}) :
           Leave(op, phase) /\ proc' = ps /\ UNCHANGED <<home, config, held>>
    BY <1>3, AfterClosePhase DEF Phases, Critical
  <2>2. TypeOK'
    BY <1>1, <2>1, LeaveLock DEF IInv, TypeOK
  <2> QED  BY <1>1, <2>1, <2>2, LeaveStep
<1>4. CASE Replaces(op) /\ ~(proc' = ps /\ Leave(op, "failed") /\ UNCHANGED <<home, config, held>>)
  <2>1. op \in Calls
    BY <1>4 DEF Replaces
  <2>2. PICK p \in Procs :
           /\ ps[p] = "unborn"
           /\ proc' = [ps EXCEPT ![p] = "starting"]
           /\ home' = [home EXCEPT ![p] = conv[op]]
           /\ config' = [config EXCEPT ![p] = want[op]]
           /\ held' = [held EXCEPT ![op] = p]
           /\ pc' = [pc EXCEPT ![op] = "spawning"]
           /\ UNCHANGED lock
    BY <1>4 DEF Spawn
  <2>3. TypeOK'
    BY <1>1, <2>1, <2>2 DEF IInv, TypeOK, Phases, Critical
  <2>4. sample[op] = gen[conv[op]]
    BY <1>1, <2>1 DEF IInv, NoRespawnAfterRelease
  <2> QED  BY <1>1, <1>2, <2>1, <2>2, <2>3, <2>4, SpawnStep
<1> QED  BY <1>3, <1>4

LEMMA CloseSteps ==
    ASSUME IInv, NEW op \in Ops, Aclosed(op) \/ GraceOver(op) PROVE IInv'
<1>1. CASE pc[op] = "aclose" /\ proc[held[op]] = "alive" /\ Aclosed(op)
  <2>1. /\ pc' = [pc EXCEPT ![op] = "grace"]
        /\ UNCHANGED <<mgr, entries, gen, inFlight, lock, procVars, callVars, held, cancelled,
                       todo, old, turns>>
    BY <1>1 DEF Aclosed
  <2> USE DEF procVars, callVars
  <2>2. pc'[op] = "grace" /\ \A o \in Ops \ {op} : pc'[o] = pc[o]
    BY <2>1 DEF IInv, TypeOK
  <2>3. TypeOK'
    BY <2>1 DEF IInv, TypeOK, Phases, Critical
  <2>4. LockHeld' /\ HeldOK' /\ RegisteredOK' /\ HomeOK'
    BY <1>1, <2>1, <2>2
       DEF IInv, LockHeld, Holds, HeldOK, RegisteredOK, HomeOK, Live, Critical
  <2>5. NoRespawnAfterRelease'
    BY <1>1, <2>1, <2>2 DEF IInv, NoRespawnAfterRelease, Critical, Ops
  <2>6. ASSUME ~GraceCancel PROVE Exclusive' /\ Tracked'
    <3>1. Exclusive'
      BY <1>1, <2>1, <2>2, <2>6 DEF IInv, Tidy, Exclusive, Critical
    <3>2. Tracked'
      BY <1>1, <2>1, <2>2, <2>6 DEF IInv, Tidy, Tracked, Live, Critical
    <3> QED  BY <3>1, <3>2
  <2> QED  BY <2>3, <2>4, <2>5, <2>6 DEF IInv, Tidy
<1>2. CASE pc[op] = "aclose" /\ proc[held[op]] # "alive" /\ Aclosed(op)
  <2>1. proc[held[op]] = "dead" /\ CloseDone(op, proc)
    BY <1>2 DEF IInv, HeldOK, Critical, Aclosed
  <2> QED  BY <1>2, <2>1, CloseDoneStep DEF IInv, TypeOK
<1>3. CASE GraceOver(op)
  <2>1. pc[op] = "grace" /\ held[op] \in Procs
    BY <1>3 DEF GraceOver, GraceEnds, IInv, HeldOK, Critical
  <2> DEFINE ps == [proc EXCEPT ![held[op]] = "dead"]
  <2>2. /\ ps \in [Procs -> {"unborn", "starting", "alive", "dead"}]
        /\ \A r \in Procs : ps[r] = proc[r] \/ r = held[op]
        /\ ps[held[op]] = "dead"
    BY <2>1 DEF IInv, TypeOK
  <2>3. CloseDone(op, ps)
    BY <1>3 DEF GraceOver
  <2> QED  BY <2>1, <2>2, <2>3, CloseDoneStep
<1> QED  BY <1>1, <1>2, <1>3 DEF Aclosed

\* Unregister, by a release, by shutdown or by the reaper.
LEMMA UnregisterStep ==
    ASSUME IInv, NEW op \in Ops \ Calls, pc[op] = "waiting", Holds(op), Unregister(op),
           UNCHANGED <<mgr, inFlight, callVars, cancelled, todo, old, turns>>
    PROVE  IInv'
<1> USE DEF Unregister, callVars, procVars
<1>1. conv[op] \in Convs
  BY DEF IInv, LockHeld
<1>2. gen' \in [Convs -> Nat] /\ entries' \in [Convs -> Procs \cup {NoProc}]
  BY <1>1 DEF IInv, TypeOK
<1>3. CASE entries[conv[op]] = NoProc /\ Leave(op, AfterClose(op)) /\ UNCHANGED <<procVars, held>>
  <2>1. AfterClose(op) \in Phases \ (Critical \cup {"waiting"})
    BY AfterClosePhase
  <2>2. TypeOK'
    BY <1>1, <1>2, <1>3, <2>1, LeaveLock DEF IInv, TypeOK
  <2>3. entries' = entries
    BY <1>3 DEF IInv, TypeOK
  <2> QED  BY <1>1, <1>3, <2>1, <2>2, <2>3, LeaveStep DEF Critical
<1>4. CASE entries[conv[op]] # NoProc /\ BeginClose(op, entries[conv[op]])
  <2>1. TypeOK'
    BY <1>1, <1>2, <1>4 DEF BeginClose, IInv, TypeOK, Phases, Critical
  <2> QED  BY <1>1, <1>4, <2>1, BeginCloseStep
<1> QED  BY <1>3, <1>4

LEMMA ReleaseSteps ==
    ASSUME IInv, NEW op \in Ops, EnterRelease(op) \/ (op = "reaper" /\ EnterReap) PROVE IInv'
<1>1. CASE EnterRelease(op)
  <2>1. op \in Ops \ Calls
    BY <1>1, ConstantsAssumption DEF EnterRelease
  <2> QED  BY <1>1, <2>1, UnregisterStep DEF EnterRelease
<1>2. CASE op = "reaper" /\ EnterReap /\ Unregister("reaper")
  <2>1. op \in Ops \ Calls
    BY <1>2, ConstantsAssumption
  <2> QED  BY <1>2, <2>1, UnregisterStep DEF EnterReap
<1>3. CASE op = "reaper" /\ EnterReap /\ Leave("reaper", "idle")
           /\ UNCHANGED <<entries, gen, procVars, held>>
  <2>1. conv[op] \in Convs /\ Holds(op) /\ pc[op] \notin Critical
    BY <1>3 DEF EnterReap, IInv, LockHeld, Critical
  <2>2. "idle" \in Phases \ (Critical \cup {"waiting"})
    BY DEF Phases, Critical
  <2>3. TypeOK'
    BY <1>3, <2>1, <2>2, LeaveLock DEF EnterReap, IInv, TypeOK, callVars, procVars
  <2> QED  BY <1>3, <2>1, <2>2, <2>3, LeaveStep DEF EnterReap, callVars, procVars
<1> QED  BY <1>1, <1>2, <1>3 DEF EnterReap

LEMMA EnterGetClientStep ==
    ASSUME IInv, NEW op \in Ops, EnterGetClient(op) PROVE IInv'
<1> DEFINE p == entries[conv[op]]
<1> USE DEF callVars, procVars
<1>1. op \in Calls /\ conv[op] \in Convs /\ Holds(op) /\ pc[op] = "waiting" /\ pc[op] \notin Critical
  BY DEF EnterGetClient, IInv, LockHeld, Critical
<1>2. /\ {"failed", "served"} \subseteq Phases \ (Critical \cup {"waiting"})
      /\ ~Refused(op) => sample[op] = gen[conv[op]]
  BY DEF Phases, Critical, Refused
<1>3. UNCHANGED <<mgr, entries, gen, inFlight, callVars, cancelled, todo, turns>>
  BY DEF EnterGetClient
<1>4. CASE \E phase \in {"failed", "served"} : Leave(op, phase) /\ UNCHANGED procVars
           /\ held' \in {held, [held EXCEPT ![op] = p]} /\ p # NoProc /\ old' \in SUBSET Convs
  <2>1. TypeOK'
    BY <1>1, <1>2, <1>3, <1>4, LeaveLock DEF IInv, TypeOK
  <2> QED  BY <1>1, <1>2, <1>3, <1>4, <2>1, LeaveStep DEF IInv, TypeOK
<1>5. CASE Leave(op, "failed") /\ UNCHANGED <<procVars, held, old>>
  <2>1. TypeOK'
    BY <1>1, <1>2, <1>3, <1>5, LeaveLock DEF IInv, TypeOK
  <2> QED  BY <1>1, <1>2, <1>3, <1>5, <2>1, LeaveStep
<1>6. CASE ~Refused(op) /\ p # NoProc /\ BeginClose(op, p) /\ UNCHANGED old
  <2>1. TypeOK'
    BY <1>1, <1>3, <1>6 DEF BeginClose, IInv, TypeOK, Phases, Critical
  <2> QED  BY <1>1, <1>2, <1>3, <1>6, <2>1, BeginCloseStep
<1>7. CASE ~Refused(op) /\ p = NoProc /\ Spawn(op, proc) /\ UNCHANGED <<closed, old>>
           /\ ~(proc' = proc /\ Leave(op, "failed") /\ UNCHANGED <<home, config, held>>)
  <2>1. PICK q \in Procs :
           /\ proc[q] = "unborn"
           /\ proc' = [proc EXCEPT ![q] = "starting"]
           /\ home' = [home EXCEPT ![q] = conv[op]]
           /\ config' = [config EXCEPT ![q] = want[op]]
           /\ held' = [held EXCEPT ![op] = q]
           /\ pc' = [pc EXCEPT ![op] = "spawning"]
           /\ UNCHANGED lock
    BY <1>7 DEF Spawn
  <2>2. TypeOK'
    BY <1>1, <1>3, <1>7, <2>1 DEF IInv, TypeOK, Phases, Critical
  <2> QED  BY <1>1, <1>2, <1>3, <1>7, <2>1, <2>2, SpawnStep DEF IInv, TypeOK
<1> QED  BY <1>4, <1>5, <1>6, <1>7 DEF EnterGetClient, Serve, IInv, TypeOK

\* The subprocess is registered, or discarded when shutdown began.
LEMMA SpawnReadyStep ==
    ASSUME IInv, NEW op \in Ops, SpawnReady(op) PROVE IInv'
<1> DEFINE p == held[op]
<1> USE DEF callVars
<1>1. /\ pc[op] = "spawning" /\ pc[op] \in Critical /\ conv[op] \in Convs /\ Holds(op)
      /\ p \in Procs /\ home[p] = conv[op] /\ proc[p] = "starting"
      /\ proc' = [proc EXCEPT ![p] = "alive"]
      /\ UNCHANGED <<mgr, gen, inFlight, home, config, callVars, cancelled, todo, turns>>
  BY DEF SpawnReady, IInv, LockHeld, HeldOK, Critical
<1>2. ASSUME NEW o \in Ops, o # op, pc[o] \in Critical
      PROVE  /\ conv[o] # conv[op] /\ conv[o] \in Convs
             /\ held[o] # p /\ held[o] \in Procs /\ proc'[held[o]] = proc[held[o]]
  BY <1>1, <1>2, OthersElsewhere DEF IInv, TypeOK
<1>3. ASSUME NEW c \in Convs, entries[c] # NoProc
      PROVE  entries[c] # p /\ proc'[entries[c]] = proc[entries[c]]
  <2>1. proc[entries[c]] \in {"alive", "dead"}
    BY <1>3 DEF IInv, RegisteredOK
  <2>2. entries[c] \in Procs
    BY <1>3 DEF IInv, TypeOK
  <2> QED  BY <1>1, <2>1, <2>2 DEF IInv, TypeOK
<1>4. ASSUME ~GraceCancel PROVE entries[conv[op]] = NoProc \/ proc[entries[conv[op]]] = "dead"
  BY <1>1, <1>3, <1>4 DEF IInv, Tidy, Exclusive
<1>5. ASSUME NEW r \in Procs, Live(r)'
      PROVE  \/ r = p
             \/ /\ Live(r)
                /\ ~GraceCancel /\ home[r] \in Convs => entries[conv[op]] # r
  BY <1>1, <1>4, <1>5, ConstantsAssumption DEF Live, IInv, TypeOK
<1>6. HomeOK'
  BY <1>1, <1>5 DEF IInv, HomeOK
<1>7. CASE /\ entries' = [entries EXCEPT ![conv[op]] = p] /\ Serve(op, p) /\ UNCHANGED closed
  <2>1. /\ Leave(op, "served") /\ "served" \in Phases \ (Critical \cup {"waiting"})
        /\ held' = held /\ old' \in SUBSET Convs
    BY <1>7 DEF Serve, Phases, Critical, IInv, TypeOK
  <2>2. pc' = [pc EXCEPT ![op] = "served"] /\ LockHeld' /\ TypeOK'
    BY <1>1, <1>7, <2>1, LeaveLock DEF IInv, TypeOK
  <2>3. \A o \in Ops : pc'[o] \in Critical => o # op /\ pc[o] = pc'[o]
    BY <2>1, <2>2 DEF IInv, TypeOK, Critical
  <2>4. /\ entries'[conv[op]] = p
        /\ \A c \in Convs : c # conv[op] => entries'[c] = entries[c]
    BY <1>1, <1>7 DEF IInv, TypeOK
  <2>5. HeldOK'
    BY <1>1, <1>2, <2>1, <2>3 DEF IInv, HeldOK
  <2>6. RegisteredOK'
    <3> SUFFICES ASSUME NEW c \in Convs, entries'[c] # NoProc
                 PROVE  /\ proc'[entries'[c]] \in {"alive", "dead"}
                        /\ home'[entries'[c]] = c
      BY DEF RegisteredOK
    <3>1. CASE c = conv[op]
      <4>1. entries'[c] = p /\ proc'[p] = "alive"
        BY <1>1, <2>4, <3>1 DEF IInv, TypeOK
      <4> QED  BY <1>1, <3>1, <4>1
    <3>2. CASE c # conv[op]
      <4>1. entries'[c] = entries[c] /\ entries[c] # NoProc
        BY <2>4, <3>2
      <4>2. proc'[entries[c]] = proc[entries[c]]
        BY <1>3, <4>1
      <4> QED  BY <1>1, <4>1, <4>2 DEF IInv, RegisteredOK
    <3> QED  BY <3>1, <3>2
  <2>7. ASSUME ~GraceCancel PROVE Exclusive'
    BY <1>1, <1>2, <1>3, <2>1, <2>3, <2>4, <2>7 DEF IInv, Tidy, Exclusive
  <2>8. ASSUME ~GraceCancel PROVE Tracked'
    <3> SUFFICES ASSUME NEW r \in Procs, Live(r)', entries'[home[r]] # r
                 PROVE  \E o \in Ops : pc'[o] \in Critical /\ held[o] = r /\ conv[o] = home[r]
      BY <1>1, <2>1 DEF Tracked
    <3>1. r # p /\ Live(r) /\ home[r] \in Convs
      BY <1>1, <1>5, <2>4 DEF IInv, HomeOK
    <3>2. entries[home[r]] # r
      BY <1>5, <2>4, <2>8, <3>1
    <3>3. PICK o \in Ops : pc[o] \in Critical /\ held[o] = r /\ conv[o] = home[r]
      BY <2>8, <3>1, <3>2 DEF IInv, Tidy, Tracked
    <3> QED  BY <2>2, <3>1, <3>3 DEF IInv, TypeOK
  <2>9. NoRespawnAfterRelease'
    BY <1>1, <2>3 DEF IInv, NoRespawnAfterRelease, Ops
  <2> QED  BY <1>6, <2>2, <2>5, <2>6, <2>7, <2>8, <2>9 DEF IInv, Tidy
<1>8. CASE /\ pc' = [pc EXCEPT ![op] = "aclose"] /\ closed' = closed \cup {p}
           /\ UNCHANGED <<entries, held, lock, old>>
  <2>1. pc'[op] = "aclose" /\ \A o \in Ops \ {op} : pc'[o] = pc[o]
    BY <1>8 DEF IInv, TypeOK
  <2>2. TypeOK'
    BY <1>1, <1>8 DEF IInv, TypeOK, Phases, Critical
  <2>3. LockHeld'
    BY <1>1, <1>8, <2>1 DEF IInv, LockHeld, Holds
  <2>4. HeldOK'
    BY <1>1, <1>2, <1>8, <2>1 DEF IInv, HeldOK, TypeOK
  <2>5. RegisteredOK'
    BY <1>1, <1>3, <1>8 DEF IInv, RegisteredOK
  <2>6. ASSUME ~GraceCancel PROVE Exclusive'
    <3>1. ASSUME NEW o \in Ops, pc'[o] \in Critical
          PROVE  entries[conv[o]] \in {NoProc, held[o]} \/ proc'[entries[conv[o]]] = "dead"
      <4>1. pc[o] \in Critical /\ conv[o] \in Convs
        BY <1>1, <2>1, <3>1 DEF IInv, LockHeld
      <4>2. entries[conv[o]] \in {NoProc, held[o]} \/ proc[entries[conv[o]]] = "dead"
        BY <2>6, <4>1 DEF IInv, Tidy, Exclusive
      <4> QED  BY <1>3, <4>1, <4>2
    <3> QED  BY <1>1, <1>8, <3>1 DEF Exclusive
  <2>7. ASSUME ~GraceCancel PROVE Tracked'
    <3> SUFFICES ASSUME NEW r \in Procs, Live(r)', entries[home[r]] # r
                 PROVE  \E o \in Ops : pc'[o] \in Critical /\ held[o] = r /\ conv[o] = home[r]
      BY <1>1, <1>8 DEF Tracked
    <3>1. Live(r)
      BY <1>1, <1>5 DEF Live
    <3>2. PICK o \in Ops : pc[o] \in Critical /\ held[o] = r /\ conv[o] = home[r]
      BY <2>7, <3>1 DEF IInv, Tidy, Tracked
    <3> QED  BY <2>1, <3>2 DEF Critical
  <2>8. NoRespawnAfterRelease'
    BY <1>1, <2>1 DEF IInv, NoRespawnAfterRelease, Ops
  <2> QED  BY <1>6, <2>2, <2>3, <2>4, <2>5, <2>6, <2>7, <2>8 DEF IInv, Tidy
<1> QED  BY <1>7, <1>8 DEF SpawnReady

LEMMA SpawnAbortsStep ==
    ASSUME IInv, NEW op \in Ops, SpawnAborts(op) PROVE IInv'
<1> USE DEF callVars
<1>1. /\ pc[op] \in Critical /\ conv[op] \in Convs /\ Holds(op) /\ held[op] \in Procs
      /\ Leave(op, "failed") /\ proc' = [proc EXCEPT ![held[op]] = "dead"]
      /\ UNCHANGED <<mgr, entries, gen, inFlight, home, config, closed, callVars, held,
                     cancelled, todo, old, turns>>
  BY DEF SpawnAborts, Aborted, IInv, LockHeld, HeldOK, Critical
<1>2. "failed" \in Phases \ (Critical \cup {"waiting"})
  BY DEF Phases, Critical
<1>3. TypeOK'
  BY <1>1, <1>2, LeaveLock DEF IInv, TypeOK
<1>4. \A r \in Procs : proc'[r] = proc[r] \/ r = held[op]
  BY <1>1 DEF IInv, TypeOK
<1>5. proc'[held[op]] = "dead"
  BY <1>1 DEF IInv, TypeOK
<1> QED  BY <1>1, <1>2, <1>3, <1>4, <1>5, LeaveStep

LEMMA CrashStep ==
    ASSUME IInv, NEW p \in Procs, Crash(p) PROVE IInv'
<1> USE DEF callVars
<1>1. /\ proc[p] = "alive" /\ proc' = [proc EXCEPT ![p] = "dead"]
      /\ UNCHANGED <<mgr, entries, gen, inFlight, lock, home, config, closed, pc, callVars,
                     held, cancelled, todo, old, turns>>
  BY DEF Crash
<1>2. proc'[p] = "dead" /\ \A r \in Procs \ {p} : proc'[r] = proc[r]
  BY <1>1 DEF IInv, TypeOK
<1>3. TypeOK' /\ LockHeld'
  BY <1>1 DEF IInv, TypeOK, LockHeld, Holds
<1>4. HeldOK'
  BY <1>1, <1>2 DEF IInv, HeldOK
<1>5. RegisteredOK' /\ HomeOK'
  BY <1>1, <1>2 DEF IInv, RegisteredOK, HomeOK, Live, TypeOK
<1>6. NoRespawnAfterRelease'
  BY <1>1 DEF IInv, NoRespawnAfterRelease
<1>7. ASSUME ~GraceCancel PROVE Exclusive'
  BY <1>1, <1>2, <1>7 DEF IInv, Tidy, Exclusive, TypeOK, LockHeld
<1>8. ASSUME ~GraceCancel PROVE Tracked'
  BY <1>1, <1>2, <1>8 DEF IInv, Tidy, Tracked, Live
<1> QED  BY <1>3, <1>4, <1>5, <1>6, <1>7, <1>8 DEF IInv, Tidy

LEMMA NextInductive == IInv /\ [Next]_vars => IInv'
<1> SUFFICES ASSUME IInv, [Next]_vars PROVE IInv'
  OBVIOUS
<1>1. CASE Environment
  BY <1>1, GetClientStep, ReleaseStep, CancelStep, BookkeepingStep, PickStep, CrashStep,
     ShutdownBeginsStep DEF Environment
<1>2. CASE ShutdownStep
  BY <1>2, BookkeepingStep, PickStep DEF ShutdownStep
<1>3. CASE \E op \in Ops : TaskStep(op)
  BY <1>3, EnterGetClientStep, ReleaseSteps, CloseSteps, SpawnReadyStep, SpawnAbortsStep
     DEF TaskStep
<1>4. CASE UNCHANGED vars
  BY <1>4 DEF vars, callVars, procVars, IInv, TypeOK, LockHeld, Holds, HeldOK, RegisteredOK,
     HomeOK, Tidy, Exclusive, Tracked, Live, NoRespawnAfterRelease
<1> QED  BY <1>1, <1>2, <1>3, <1>4 DEF Next

-----------------------------------------------------------------------------
(* The reaper and the turns, and what shutdown leaves behind *)

\* Only calls spawn, and what a call was given is a subprocess of its
\* conversation.
ServedOK ==
    \A op \in Ops :
        /\ pc[op] \in {"spawning", "served"} => op \in Calls
        /\ pc[op] = "served" =>
              held[op] \in Procs /\ home[held[op]] = conv[op] /\ proc[held[op]] # "unborn"

\* A turn on the conversation the reaper closes waits behind it, and has
\* sampled the generation the reaper left.
ReapOK ==
    pc["reaper"] \in Critical =>
        \A op \in turns : conv[op] = conv["reaper"] =>
            pc[op] = "failed" \/ (pc[op] = "waiting" /\ sample[op] = gen[conv[op]])

\* shutdown is done with a conversation.
Drained(c) ==
    /\ pc["shutdown"] # "idle" /\ c \notin todo["shutdown"]
    /\ pc["shutdown"] \in Critical \cup {"waiting"} => conv["shutdown"] # c

\* Nothing is registered, closed or spawned on a conversation shutdown is done
\* with: a call that comes late is refused.
DrainOK ==
    /\ pc["shutdown"] # "idle" => mgr # "started"
    /\ mgr = "stopped" => pc["shutdown"] = "done" /\ todo["shutdown"] = {}
    /\ pc["shutdown"] \in Critical => entries[conv["shutdown"]] = NoProc
    /\ \A c \in Convs : Drained(c) =>
          entries[c] = NoProc /\ \A op \in Ops : pc[op] \in Critical => conv[op] # c

\* What a task does when it enters, goes on in or leaves the spawn lock.
TaskEffect(op) ==
    /\ conv[op] \in Convs /\ Holds(op) /\ pc[op] \in Critical \cup {"waiting"}
    /\ UNCHANGED <<mgr, callVars, todo, turns>>
    /\ \A o \in Ops \ {op} : pc'[o] = pc[o] /\ held'[o] = held[o]
    /\ \A c \in Convs \ {conv[op]} : entries'[c] = entries[c] /\ gen'[c] = gen[c]
    /\ \A p \in Procs : /\ home'[p] = home[p] \/ proc[p] = "unborn"
                        /\ proc'[p] = "unborn" => proc[p] = "unborn"
    /\ pc'[op] \in {"spawning", "served"} => op \in Calls
    /\ pc'[op] = "served" =>
          held'[op] \in Procs /\ home'[held'[op]] = conv[op] /\ proc'[held'[op]] # "unborn"
    /\ pc'[op] # "waiting" /\ (op = "shutdown" => pc'[op] # "idle")
    /\ pc[op] = "waiting" =>
          /\ entries'[conv[op]] \in {NoProc, entries[conv[op]]}
          /\ op = "shutdown" => entries'[conv[op]] = NoProc
    /\ pc[op] = "waiting" /\ pc'[op] \in Critical =>
          /\ entries[conv[op]] = NoProc => mgr = "started"
          /\ op = "reaper" => ~Busy(conv[op])
    /\ pc[op] \in Critical => gen' = gen /\ (op \notin Calls => entries' = entries)

LEMMA EnterEffect ==
    ASSUME IInv, NEW op \in Ops,
           EnterGetClient(op) \/ EnterRelease(op) \/ (op = "reaper" /\ EnterReap)
    PROVE  TaskEffect(op)
<1> USE DEF IInv, TypeOK, callVars, procVars
<1>1. pc[op] = "waiting" /\ conv[op] \in Convs /\ Holds(op) /\ pc[op] \notin Critical
  BY DEF EnterGetClient, EnterRelease, EnterReap, LockHeld, Critical
<1>2. CASE EnterGetClient(op)
  <2> DEFINE p == entries[conv[op]]
  <2>1. /\ op \in Calls /\ op # "reaper" /\ op # "shutdown"
        /\ UNCHANGED <<mgr, entries, gen, inFlight, callVars, cancelled, todo, turns>>
    BY <1>2, ConstantsAssumption DEF EnterGetClient
  <2>2. CASE Leave(op, "failed") /\ UNCHANGED <<procVars, held, old>>
    BY <1>1, <2>1, <2>2 DEF TaskEffect, Leave, Critical
  <2>3. CASE p # NoProc /\ BeginClose(op, p) /\ UNCHANGED old
    BY <1>1, <2>1, <2>3 DEF TaskEffect, BeginClose, Critical
  <2>4. CASE p # NoProc /\ Serve(op, p) /\ UNCHANGED procVars
    <3>1. p \in Procs
      BY <1>1, <2>4
    <3>2. home[p] = conv[op] /\ proc[p] # "unborn"
      BY <1>1, <2>4 DEF RegisteredOK
    <3>3. /\ pc' = [pc EXCEPT ![op] = "served"] /\ held' = [held EXCEPT ![op] = p]
          /\ UNCHANGED procVars
      BY <2>4 DEF Serve, Leave
    <3> QED  BY <1>1, <2>1, <3>1, <3>2, <3>3 DEF TaskEffect, Critical
  <2>5. CASE ~Refused(op) /\ p = NoProc /\ Spawn(op, proc) /\ UNCHANGED <<closed, old>>
    <3>1. mgr = "started"
      BY <2>5 DEF Refused
    <3>2. CASE proc' = proc /\ Leave(op, "failed") /\ UNCHANGED <<home, config, held>>
      BY <1>1, <2>1, <2>5, <3>2 DEF TaskEffect, Leave, Critical
    <3>3. CASE \E q \in Procs :
             /\ proc[q] = "unborn"
             /\ proc' = [proc EXCEPT ![q] = "starting"]
             /\ home' = [home EXCEPT ![q] = conv[op]]
             /\ held' = [held EXCEPT ![op] = q]
             /\ pc' = [pc EXCEPT ![op] = "spawning"]
      BY <1>1, <2>1, <2>5, <3>1, <3>3 DEF TaskEffect, Critical
    <3> QED  BY <2>5, <3>2, <3>3 DEF Spawn
  <2> QED  BY <1>2, <2>2, <2>3, <2>4, <2>5 DEF EnterGetClient
<1>3. CASE op = "reaper" /\ EnterReap /\ Leave("reaper", "idle")
           /\ UNCHANGED <<entries, gen, procVars, held>>
  BY <1>1, <1>3, ConstantsAssumption DEF EnterReap, TaskEffect, Leave, Critical
<1>4. CASE /\ op \notin Calls /\ Unregister(op) /\ (op = "reaper" => ~Spared(conv[op]))
           /\ UNCHANGED <<mgr, inFlight, callVars, cancelled, todo, old, turns>>
  <2>1. /\ \A c \in Convs \ {conv[op]} : entries'[c] = entries[c] /\ gen'[c] = gen[c]
        /\ entries'[conv[op]] = NoProc
        /\ UNCHANGED <<proc, home>>
    BY <1>1, <1>4 DEF Unregister, BeginClose
  <2>2. op = "reaper" => ~Busy(conv[op])
    BY <1>4 DEF Spared
  <2>3. CASE entries[conv[op]] = NoProc /\ Leave(op, AfterClose(op)) /\ UNCHANGED held
    <3>1. /\ AfterClose(op) \notin Critical \cup {"waiting", "served", "spawning"}
          /\ op = "shutdown" => AfterClose(op) # "idle"
      BY ConstantsAssumption DEF AfterClose, Ops, Critical
    <3> QED  BY <1>1, <1>4, <2>1, <2>2, <2>3, <3>1 DEF TaskEffect, Leave
  <2>4. CASE entries[conv[op]] # NoProc /\ BeginClose(op, entries[conv[op]])
    BY <1>1, <1>4, <2>1, <2>2, <2>4 DEF TaskEffect, BeginClose, Critical
  <2> QED  BY <1>4, <2>3, <2>4 DEF Unregister
<1>5. CASE EnterRelease(op)
  BY <1>4, <1>5, ConstantsAssumption DEF EnterRelease
<1>6. CASE op = "reaper" /\ EnterReap
  BY <1>3, <1>4, <1>6, ConstantsAssumption DEF EnterReap
<1> QED  BY <1>2, <1>5, <1>6

LEMMA CloseEffect ==
    ASSUME IInv, ServedOK, NEW op \in Ops,
           Aclosed(op) \/ GraceOver(op) \/ SpawnReady(op) \/ SpawnAborts(op)
    PROVE  TaskEffect(op)
<1> USE DEF IInv, TypeOK, callVars, procVars
<1>1. /\ pc[op] \in Critical /\ pc[op] # "waiting" /\ conv[op] \in Convs /\ Holds(op)
      /\ held[op] \in Procs /\ home[held[op]] = conv[op] /\ proc[held[op]] # "unborn"
  BY DEF Aclosed, GraceOver, GraceEnds, SpawnReady, SpawnAborts, LockHeld, HeldOK, Critical
<1>2. ASSUME NEW ps \in [Procs -> {"unborn", "starting", "alive", "dead"}],
             \A p \in Procs : ps[p] = "unborn" => proc[p] = "unborn", CloseDone(op, ps)
      PROVE  TaskEffect(op)
  <2>1. UNCHANGED <<mgr, entries, gen, inFlight, closed, callVars, cancelled, todo, old, turns>>
    BY <1>2 DEF CloseDone
  <2>2. CASE ~Replaces(op) \/ (proc' = ps /\ Leave(op, "failed") /\ UNCHANGED <<home, config, held>>)
    <3>1. /\ AfterClose(op) \notin Critical \cup {"waiting", "served"}
          /\ op = "shutdown" => AfterClose(op) # "idle"
      BY ConstantsAssumption DEF AfterClose, Ops, Critical
    <3>2. "failed" \notin Critical \cup {"waiting", "served", "idle"}
      BY DEF Critical
    <3>3. PICK phase \in {AfterClose(op), "failed"} :
             Leave(op, phase) /\ proc' = ps /\ UNCHANGED <<home, config, held>>
      BY <1>2, <2>2 DEF CloseDone
    <3>4. /\ phase \notin Critical \cup {"waiting", "served"}
          /\ op = "shutdown" => phase # "idle"
      BY <3>1, <3>2, <3>3
    <3> QED  BY <1>1, <1>2, <2>1, <3>3, <3>4 DEF TaskEffect, Leave, Critical
  <2>3. CASE op \in Calls /\ Spawn(op, ps)
             /\ ~(proc' = ps /\ Leave(op, "failed") /\ UNCHANGED <<home, config, held>>)
    <3>1. PICK q \in Procs :
             /\ ps[q] = "unborn"
             /\ proc' = [ps EXCEPT ![q] = "starting"]
             /\ home' = [home EXCEPT ![q] = conv[op]]
             /\ held' = [held EXCEPT ![op] = q]
             /\ pc' = [pc EXCEPT ![op] = "spawning"]
      BY <2>3 DEF Spawn
    <3>2. proc[q] = "unborn"
      BY <1>2, <3>1
    <3> QED  BY <1>1, <1>2, <2>1, <2>3, <3>1, <3>2, ConstantsAssumption DEF TaskEffect, Critical
  <2> QED  BY <1>2, <2>2, <2>3 DEF CloseDone, Replaces
<1>3. CASE Aclosed(op)
  <2>1. CASE /\ pc' = [pc EXCEPT ![op] = "grace"]
             /\ UNCHANGED <<mgr, entries, gen, inFlight, lock, procVars, callVars, held,
                            cancelled, todo, old, turns>>
    BY <1>1, <2>1 DEF TaskEffect, Critical
  <2>2. CASE CloseDone(op, proc)
    BY <1>2, <2>2
  <2> QED  BY <1>3, <2>1, <2>2 DEF Aclosed
<1>4. CASE GraceOver(op)
  <2> DEFINE ps == [proc EXCEPT ![held[op]] = "dead"]
  <2>1. /\ ps \in [Procs -> {"unborn", "starting", "alive", "dead"}]
        /\ \A p \in Procs : ps[p] = "unborn" => proc[p] = "unborn"
    BY <1>1
  <2> QED  BY <1>2, <1>4, <2>1 DEF GraceOver
<1>5. CASE SpawnReady(op)
  <2>1. /\ op \in Calls /\ op # "shutdown" /\ op # "reaper"
    BY <1>5, ConstantsAssumption DEF SpawnReady, ServedOK
  <2>2. /\ proc' = [proc EXCEPT ![held[op]] = "alive"]
        /\ UNCHANGED <<mgr, gen, inFlight, home, config, callVars, cancelled, todo, turns>>
    BY <1>5 DEF SpawnReady
  <2>3. CASE /\ entries' = [entries EXCEPT ![conv[op]] = held[op]]
             /\ Serve(op, held[op])
    <3>1. pc' = [pc EXCEPT ![op] = "served"] /\ held' = held
      BY <2>3 DEF Serve, Leave
    <3> QED  BY <1>1, <2>1, <2>2, <2>3, <3>1 DEF TaskEffect, Critical
  <2>4. CASE pc' = [pc EXCEPT ![op] = "aclose"] /\ UNCHANGED <<entries, held>>
    BY <1>1, <2>1, <2>2, <2>4 DEF TaskEffect, Critical
  <2> QED  BY <1>5, <2>3, <2>4 DEF SpawnReady
<1>6. CASE SpawnAborts(op)
  <2>1. /\ proc' = [proc EXCEPT ![held[op]] = "dead"] /\ pc' = [pc EXCEPT ![op] = "failed"]
        /\ UNCHANGED <<mgr, entries, gen, inFlight, home, config, closed, callVars, held,
                       cancelled, todo, old, turns>>
    BY <1>6 DEF SpawnAborts, Aborted, Leave
  <2> QED  BY <1>1, <2>1 DEF TaskEffect, Critical
<1> QED  BY <1>3, <1>4, <1>5, <1>6

\* Whatever a task does with the lock of one conversation leaves the reaper's
\* and shutdown's conversations as they should be.
LEMMA TaskKeeps ==
    ASSUME IInv, ServedOK, ReapOK, DrainOK, NEW op \in Ops, TaskEffect(op)
    PROVE  ServedOK' /\ ReapOK' /\ DrainOK'
<1> USE DEF TaskEffect, callVars
<1>1. {"reaper", "shutdown"} \subseteq Ops /\ Calls \subseteq Ops
      /\ {"reaper", "shutdown"} \cap Calls = {}
  BY ConstantsAssumption DEF Ops
<1>2. ServedOK'
  BY DEF ServedOK, Critical
<1>3. ReapOK'
  <2> SUFFICES ASSUME pc'["reaper"] \in Critical, NEW o \in turns, conv[o] = conv["reaper"]
               PROVE  pc'[o] = "failed" \/ (pc'[o] = "waiting" /\ sample[o] = gen'[conv[o]])
    BY DEF ReapOK
  <2>1. o \in Ops /\ o # "reaper"
    BY <1>1 DEF IInv, TypeOK
  <2>2. CASE op = "reaper"
    <3>1. pc[op] \in Critical
      BY <2>2 DEF Busy
    <3> QED  BY <2>1, <2>2, <3>1 DEF ReapOK
  <2>3. CASE op # "reaper"
    <3>1. pc["reaper"] \in Critical /\ conv["reaper"] # conv[op] /\ conv["reaper"] \in Convs
      BY <1>1, <2>3, MutualExclusion DEF IInv, LockHeld
    <3> QED  BY <2>1, <3>1 DEF ReapOK
  <2> QED  BY <2>2, <2>3
<1>4. DrainOK'
  <2>1. pc["shutdown"] # "idle" <=> pc'["shutdown"] # "idle"
    BY <1>1 DEF Critical
  <2>2. ASSUME pc'["shutdown"] \in Critical PROVE entries'[conv["shutdown"]] = NoProc
    <3>1. CASE op = "shutdown"
      BY <1>1, <2>2, <3>1 DEF DrainOK
    <3>2. CASE op # "shutdown"
      <4>1. pc["shutdown"] \in Critical /\ conv["shutdown"] # conv[op] /\ conv["shutdown"] \in Convs
        BY <1>1, <2>2, <3>2, MutualExclusion DEF IInv, LockHeld
      <4> QED  BY <4>1 DEF DrainOK
    <3> QED  BY <3>1, <3>2
  <2>3. ASSUME NEW c \in Convs, Drained(c)'
        PROVE  entries'[c] = NoProc /\ \A o \in Ops : pc'[o] \in Critical => conv[o] # c
    <3>1. CASE Drained(c)
      <4>1. entries[c] = NoProc /\ \A o \in Ops : pc[o] \in Critical => conv[o] # c
        BY <3>1 DEF DrainOK
      <4>2. mgr # "started"
        BY <3>1 DEF DrainOK, Drained
      <4>3. CASE conv[op] = c
        BY <4>1, <4>2, <4>3
      <4>4. CASE conv[op] # c
        BY <4>1, <4>4
      <4> QED  BY <4>3, <4>4
    <3>2. CASE ~Drained(c)
      <4>1. op = "shutdown" /\ conv[op] = c /\ pc'[op] \notin Critical
        BY <1>1, <2>1, <2>3, <3>2 DEF Drained
      <4>2. entries'[c] = NoProc
        BY <1>1, <4>1 DEF DrainOK
      <4>3. \A o \in Ops \ {op} : pc[o] \in Critical => conv[o] # c
        BY <4>1, MutualExclusion DEF IInv
      <4> QED  BY <4>1, <4>2, <4>3
    <3> QED  BY <3>1, <3>2
  <2>4. mgr' = "stopped" => pc'["shutdown"] = "done" /\ todo'["shutdown"] = {}
    <3>1. mgr = "stopped" => op # "shutdown"
      BY DEF DrainOK, Critical
    <3> QED  BY <1>1, <3>1 DEF DrainOK
  <2> QED  BY <2>1, <2>2, <2>3, <2>4 DEF DrainOK
<1> QED  BY <1>2, <1>3, <1>4

\* What the rest of the steps do: nobody begins to close, to spawn or to use a
\* subprocess, and a new turn samples the current generation.
QuietEffect ==
    /\ UNCHANGED <<entries, gen, home, held>>
    /\ \A p \in Procs : proc'[p] = "unborn" => proc[p] = "unborn"
    /\ \A o \in Ops : pc'[o] \in Critical \cup {"served"} => pc'[o] = pc[o] /\ conv'[o] = conv[o]
    /\ \A o \in turns' :
          \/ /\ o \in turns /\ conv'[o] = conv[o] /\ sample'[o] = sample[o]
             /\ pc'[o] \in {pc[o], "failed"}
          \/ pc'[o] = "waiting" /\ sample'[o] = gen[conv'[o]]

LEMMA QuietKeeps ==
    ASSUME IInv, ServedOK, ReapOK, QuietEffect PROVE ServedOK' /\ ReapOK'
<1>1. "reaper" \in Ops
  BY DEF Ops
<1>2. ServedOK'
  BY DEF ServedOK, QuietEffect, Critical
<1>3. ReapOK'
  BY <1>1 DEF ReapOK, QuietEffect
<1> QED  BY <1>2, <1>3

LEMMA EnvironmentEffect ==
    ASSUME IInv, TypeOK', Environment
    PROVE  /\ QuietEffect
           /\ mgr' \in {mgr, "stopping"} /\ (mgr # "started" => mgr' = mgr)
           /\ pc'["shutdown"] = pc["shutdown"] /\ conv'["shutdown"] = conv["shutdown"]
           /\ todo'["shutdown"] = todo["shutdown"]
<1> USE ConstantsAssumption DEF IInv, TypeOK, callVars, procVars, Ops, Looping
<1>1. ASSUME NEW op \in Calls, NEW c \in Convs, NEW w \in Wants, NEW b \in BOOLEAN,
             GetClient(op, c, w, b)
      PROVE  /\ pc' = [pc EXCEPT ![op] = "waiting"] /\ conv' = [conv EXCEPT ![op] = c]
             /\ sample' = [sample EXCEPT ![op] = gen[c]] /\ turns' \subseteq turns \cup {op}
             /\ UNCHANGED <<mgr, entries, gen, procVars, held, todo>>
  BY <1>1 DEF GetClient, Acquire
<1>2. CASE \E op \in Calls, c \in Convs, w \in Wants, t \in BOOLEAN : GetClient(op, c, w, t)
  BY <1>1, <1>2 DEF QuietEffect, Critical
<1>3. CASE \E op \in Releases, c \in Convs : Release(op, c)
  BY <1>3 DEF Release, Acquire, QuietEffect, Critical
<1>4. CASE \E op \in Ops : Cancel(op)
  BY <1>4 DEF Cancel, GiveUp, Leave, QuietEffect, Critical
<1>5. CASE \E op \in Ops : ResponseCreated(op) \/ TurnEnds(op) \/ TurnCancelled(op)
  BY <1>5 DEF ResponseCreated, TurnEnds, TurnCancelled, QuietEffect, Critical
<1>6. CASE \E stale \in SUBSET Convs : ReaperPass(stale)
  BY <1>6 DEF ReaperPass, QuietEffect, Critical
<1>7. CASE \E c \in Convs : ReaperPick(c)
  BY <1>7 DEF ReaperPick, Acquire, QuietEffect, Critical
<1>8. CASE \E p \in Procs : Crash(p)
  BY <1>8 DEF Crash, QuietEffect, Critical
<1>9. CASE ShutdownBegins
  BY <1>9 DEF ShutdownBegins, GiveUp, Leave, QuietEffect, Critical
<1> QED  BY <1>2, <1>3, <1>4, <1>5, <1>6, <1>7, <1>8, <1>9 DEF Environment

LEMMA ShutdownKeeps ==
    ASSUME IInv, ServedOK, ReapOK, DrainOK, ShutdownStep PROVE ServedOK' /\ ReapOK' /\ DrainOK'
<1> USE DEF IInv, TypeOK, callVars, procVars
<1>1. {"reaper", "shutdown"} \subseteq Ops /\ Calls \subseteq Ops
      /\ {"reaper", "shutdown"} \cap Calls = {} /\ "shutdown" \in Looping
  BY ConstantsAssumption DEF Ops, Looping
<1>2. CASE ShutdownLists
  <2>1. QuietEffect
    BY <1>1, <1>2 DEF ShutdownLists, QuietEffect, Critical
  <2>2. /\ mgr' = "stopping" /\ pc' = [pc EXCEPT !["shutdown"] = "drain"]
        /\ todo'["shutdown"] = {c \in Convs : ToDrain(c)}
        /\ UNCHANGED <<entries, conv>>
    BY <1>1, <1>2 DEF ShutdownLists
  <2>3. \A c \in Convs : Drained(c)' =>
          entries[c] = NoProc /\ \A op \in Ops : pc'[op] \in Critical => conv[op] # c
    BY <1>1, <2>2 DEF Drained, ToDrain
  <2> QED  BY <1>1, <2>1, <2>2, <2>3, QuietKeeps DEF DrainOK, Critical
<1>3. CASE \E c \in Convs : ShutdownPick(c)
  <2>1. PICK c \in Convs : ShutdownPick(c)
    BY <1>3
  <2>2. /\ pc["shutdown"] = "drain" /\ pc' = [pc EXCEPT !["shutdown"] = "waiting"]
        /\ conv' = [conv EXCEPT !["shutdown"] = c]
        /\ todo' = [todo EXCEPT !["shutdown"] = @ \ {c}]
        /\ UNCHANGED <<mgr, entries, gen, proc, home, held, sample, turns>>
    BY <2>1 DEF ShutdownPick, Acquire
  <2>3. QuietEffect
    BY <1>1, <2>2 DEF QuietEffect, Critical
  <2>4. pc'["shutdown"] = "waiting" /\ conv'["shutdown"] = c
        /\ todo'["shutdown"] = todo["shutdown"] \ {c}
        /\ \A op \in Ops \ {"shutdown"} : pc'[op] = pc[op] /\ conv'[op] = conv[op]
    BY <1>1, <2>2
  <2>5. mgr # "stopped"
    BY <2>2 DEF DrainOK
  <2>6. \A d \in Convs : Drained(d)' => Drained(d)
    BY <2>2, <2>4 DEF Drained, Critical
  <2>7. \A op \in Ops : pc'[op] \in Critical => pc[op] \in Critical /\ conv'[op] = conv[op]
    BY <2>4 DEF Critical
  <2> QED  BY <1>1, <2>2, <2>3, <2>4, <2>5, <2>6, <2>7, QuietKeeps DEF DrainOK, Critical
<1>4. CASE ShutdownEnds
  <2>1. QuietEffect
    BY <1>1, <1>4 DEF ShutdownEnds, QuietEffect, Critical
  <2>2. /\ pc["shutdown"] = "drain" /\ todo["shutdown"] = {} /\ mgr' = "stopped"
        /\ pc' = [pc EXCEPT !["shutdown"] = "done"] /\ UNCHANGED <<entries, conv, todo>>
    BY <1>4 DEF ShutdownEnds
  <2>3. \A c \in Convs : Drained(c)' => Drained(c)
    BY <1>1, <2>2 DEF Drained, Critical
  <2>4. \A op \in Ops : pc'[op] \in Critical => pc[op] \in Critical
    BY <1>1, <2>2 DEF Critical
  <2> QED  BY <1>1, <2>1, <2>2, <2>3, <2>4, QuietKeeps DEF DrainOK, Critical
<1> QED  BY <1>2, <1>3, <1>4 DEF ShutdownStep

LEMMA OutcomesInductive ==
    ASSUME IInv, ServedOK, ReapOK, DrainOK, IInv', [Next]_vars
    PROVE  ServedOK' /\ ReapOK' /\ DrainOK'
<1>1. CASE Environment
  <2>1. /\ QuietEffect
        /\ mgr' \in {mgr, "stopping"} /\ (mgr # "started" => mgr' = mgr)
        /\ pc'["shutdown"] = pc["shutdown"] /\ conv'["shutdown"] = conv["shutdown"]
        /\ todo'["shutdown"] = todo["shutdown"]
    BY <1>1, EnvironmentEffect DEF IInv
  <2>2. \A c \in Convs : Drained(c)' => Drained(c)
    BY <2>1 DEF Drained
  <2> QED  BY <2>1, <2>2, QuietKeeps DEF DrainOK, QuietEffect
<1>2. CASE \E op \in Ops : TaskStep(op)
  BY <1>2, EnterEffect, CloseEffect, TaskKeeps DEF TaskStep
<1>3. CASE UNCHANGED vars
  BY <1>3 DEF vars, callVars, procVars, ServedOK, ReapOK, DrainOK, Drained
<1> QED  BY <1>1, <1>2, <1>3, ShutdownKeeps DEF Next

LEMMA OutcomesInit == Init => ServedOK /\ ReapOK /\ DrainOK
BY ConstantsAssumption DEF Init, ServedOK, ReapOK, DrainOK, Drained, Critical, Ops, Looping

-----------------------------------------------------------------------------
(* What a call returns *)

\* A closed subprocess is dead, or in the hands of the task that closes it.
ClosedOK ==
    \A p \in closed :
        proc[p] = "dead" \/ \E op \in Ops : pc[op] \in {"aclose", "grace"} /\ held[op] = p

\* A step of one task, or of none, that resurrects nobody, leaves the closes of
\* the others alone, and goes on with its own or has it end in a death.
LEMMA ClosedFrame ==
    ASSUME IInv, ClosedOK, NEW op \in Ops,
           \A p \in Procs : proc[p] = "dead" => proc'[p] = "dead",
           \A o \in Ops \ {op} : pc[o] \in {"aclose", "grace"} =>
               pc'[o] = pc[o] /\ held'[o] = held[o],
           pc[op] \in {"aclose", "grace"} =>
               \/ pc'[op] \in {"aclose", "grace"} /\ held'[op] = held[op]
               \/ proc'[held[op]] = "dead",
           \A p \in closed' \ closed : pc'[op] = "aclose" /\ held'[op] = p
    PROVE  ClosedOK'
<1> SUFFICES ASSUME NEW p \in closed'
             PROVE  \/ proc'[p] = "dead"
                    \/ \E o \in Ops : pc'[o] \in {"aclose", "grace"} /\ held'[o] = p
  BY DEF ClosedOK
<1>1. CASE p \notin closed
  BY <1>1
<1>2. CASE p \in closed /\ proc[p] = "dead"
  BY <1>2 DEF IInv, TypeOK
<1>3. CASE p \in closed /\ proc[p] # "dead"
  <2>1. PICK o \in Ops : pc[o] \in {"aclose", "grace"} /\ held[o] = p
    BY <1>3 DEF ClosedOK
  <2>2. CASE o = op
    BY <2>1, <2>2
  <2>3. CASE o # op
    BY <2>1, <2>3
  <2> QED  BY <2>2, <2>3
<1> QED  BY <1>1, <1>2, <1>3

\* get_client begins the close of an entry it may not use, release and the
\* reaper that of the entry they took out.
LEMMA EnterClosed ==
    ASSUME IInv, ClosedOK, NEW op \in Ops,
           EnterGetClient(op) \/ EnterRelease(op) \/ (op = "reaper" /\ EnterReap)
    PROVE  ClosedOK'
<1> USE DEF IInv, TypeOK, callVars, procVars
<1>1. pc[op] = "waiting"
  BY DEF EnterGetClient, EnterRelease, EnterReap
<1>2. ASSUME NEW phase, Leave(op, phase), UNCHANGED <<proc, closed>>,
             \A o \in Ops \ {op} : held'[o] = held[o]
      PROVE  ClosedOK'
  BY <1>1, <1>2, ClosedFrame DEF Leave
<1>3. ASSUME NEW p, BeginClose(op, p) PROVE ClosedOK'
  BY <1>1, <1>3, ClosedFrame DEF BeginClose
<1>4. ASSUME Spawn(op, proc), UNCHANGED closed PROVE ClosedOK'
  <2>1. CASE proc' = proc /\ Leave(op, "failed") /\ UNCHANGED <<home, config, held>>
    BY <1>2, <1>4, <2>1
  <2>2. CASE \E q \in Procs :
           /\ proc[q] = "unborn" /\ proc' = [proc EXCEPT ![q] = "starting"]
           /\ held' = [held EXCEPT ![op] = q] /\ pc' = [pc EXCEPT ![op] = "spawning"]
    BY <1>1, <1>4, <2>2, ClosedFrame
  <2> QED  BY <1>4, <2>1, <2>2 DEF Spawn
<1>5. CASE EnterGetClient(op)
  BY <1>2, <1>3, <1>4, <1>5 DEF EnterGetClient, Serve
<1>6. CASE EnterRelease(op)
  BY <1>2, <1>3, <1>6 DEF EnterRelease, Unregister
<1>7. CASE op = "reaper" /\ EnterReap
  BY <1>2, <1>3, <1>7 DEF EnterReap, Unregister
<1> QED  BY <1>5, <1>6, <1>7

\* A close ends only once its subprocess is dead.
LEMMA LeaveClosed ==
    ASSUME IInv, ClosedOK, NEW op \in Ops,
           Aclosed(op) \/ GraceOver(op) \/ SpawnReady(op) \/ SpawnAborts(op)
    PROVE  ClosedOK'
<1> USE DEF IInv, TypeOK, callVars, procVars
<1>1. pc[op] \in Critical /\ held[op] \in Procs
  BY DEF Aclosed, GraceOver, GraceEnds, SpawnReady, SpawnAborts, HeldOK, Critical
<1>2. ASSUME NEW ps \in [Procs -> {"unborn", "starting", "alive", "dead"}],
             \A p \in Procs : proc[p] = "dead" => ps[p] = "dead",
             ps[held[op]] = "dead", CloseDone(op, ps)
      PROVE  ClosedOK'
  <2>1. UNCHANGED closed
    BY <1>2 DEF CloseDone
  <2>2. CASE \E phase : Leave(op, phase) /\ proc' = ps /\ UNCHANGED held
    BY <1>1, <1>2, <2>1, <2>2, ClosedFrame DEF Leave
  <2>3. CASE \E q \in Procs :
           /\ ps[q] = "unborn" /\ proc' = [ps EXCEPT ![q] = "starting"]
           /\ held' = [held EXCEPT ![op] = q] /\ pc' = [pc EXCEPT ![op] = "spawning"]
    <3>1. PICK q \in Procs :
             /\ ps[q] = "unborn" /\ proc' = [ps EXCEPT ![q] = "starting"]
             /\ held' = [held EXCEPT ![op] = q] /\ pc' = [pc EXCEPT ![op] = "spawning"]
      BY <2>3
    <3>2. proc'[held[op]] = "dead" /\ \A p \in Procs : proc[p] = "dead" => proc'[p] = "dead"
      BY <1>1, <1>2, <3>1
    <3> QED  BY <2>1, <3>1, <3>2, ClosedFrame
  <2> QED  BY <1>2, <2>2, <2>3 DEF CloseDone, Spawn
<1>3. CASE Aclosed(op)
  <2>1. CASE pc' = [pc EXCEPT ![op] = "grace"] /\ UNCHANGED <<procVars, held>>
    BY <1>1, <2>1, ClosedFrame
  <2>2. CASE proc[held[op]] # "alive" /\ CloseDone(op, proc)
    <3>1. proc[held[op]] = "dead"
      BY <1>1, <1>3, <2>2 DEF HeldOK, Aclosed
    <3> QED  BY <1>2, <2>2, <3>1
  <2> QED  BY <1>3, <2>1, <2>2 DEF Aclosed
<1>4. CASE GraceOver(op)
  <2> DEFINE ps == [proc EXCEPT ![held[op]] = "dead"]
  <2>1. /\ ps \in [Procs -> {"unborn", "starting", "alive", "dead"}]
        /\ \A p \in Procs : proc[p] = "dead" => ps[p] = "dead"
        /\ ps[held[op]] = "dead"
    BY <1>1
  <2> QED  BY <1>2, <1>4, <2>1 DEF GraceOver
<1>5. CASE SpawnReady(op)
  <2>1. pc[op] = "spawning" /\ proc[held[op]] = "starting"
    BY <1>5 DEF SpawnReady, HeldOK, Critical
  <2>2. proc' = [proc EXCEPT ![held[op]] = "alive"]
    BY <1>5 DEF SpawnReady
  <2>3. CASE Serve(op, held[op]) /\ UNCHANGED closed
    BY <1>1, <2>1, <2>2, <2>3, ClosedFrame DEF Serve, Leave
  <2>4. CASE /\ pc' = [pc EXCEPT ![op] = "aclose"] /\ closed' = closed \cup {held[op]}
             /\ UNCHANGED held
    BY <1>1, <2>1, <2>2, <2>4, ClosedFrame
  <2> QED  BY <1>5, <2>3, <2>4 DEF SpawnReady
<1>6. CASE SpawnAborts(op)
  BY <1>1, <1>6, ClosedFrame DEF SpawnAborts, Aborted, Leave
<1> QED  BY <1>3, <1>4, <1>5, <1>6

\* Nothing else touches a close, unless a cancellation lands after SIGTERM.
LEMMA OthersClosed ==
    ASSUME IInv, ClosedOK, ~GraceCancel, Environment \/ ShutdownStep PROVE ClosedOK'
<1> USE ConstantsAssumption DEF IInv, TypeOK, callVars, procVars
<1>1. "reaper" \in Ops /\ "shutdown" \in Ops /\ Calls \subseteq Ops /\ Releases \subseteq Ops
  BY DEF Ops
<1>2. ASSUME NEW op \in Ops, NEW c \in Convs, pc[op] \notin {"aclose", "grace"},
             Acquire(op, c), UNCHANGED <<procVars, held>>
      PROVE  ClosedOK'
  BY <1>2, ClosedFrame DEF Acquire
<1>3. CASE \E op \in Calls, c \in Convs, w \in Wants, t \in BOOLEAN : GetClient(op, c, w, t)
  BY <1>1, <1>2, <1>3 DEF GetClient
<1>4. CASE \E op \in Releases, c \in Convs : Release(op, c)
  BY <1>1, <1>2, <1>4 DEF Release
<1>5. CASE \E op \in Ops : Cancel(op)
  BY <1>5, ClosedFrame DEF Cancel, GiveUp
<1>6. CASE \E op \in Ops : ResponseCreated(op) \/ TurnEnds(op) \/ TurnCancelled(op)
  BY <1>6, ClosedFrame DEF ResponseCreated, TurnEnds, TurnCancelled
<1>7. CASE \E stale \in SUBSET Convs : ReaperPass(stale)
  BY <1>1, <1>7, ClosedFrame DEF ReaperPass
<1>8. CASE \E c \in Convs : ReaperPick(c)
  BY <1>1, <1>2, <1>8 DEF ReaperPick
<1>9. CASE \E p \in Procs : Crash(p)
  BY <1>1, <1>9, ClosedFrame DEF Crash
<1>10. CASE ShutdownBegins
  BY <1>1, <1>10, ClosedFrame DEF ShutdownBegins, GiveUp
<1>11. CASE \E c \in Convs : ShutdownPick(c)
  BY <1>1, <1>2, <1>11 DEF ShutdownPick
<1>12. CASE ShutdownLists \/ ShutdownEnds
  BY ZenonT(30), <1>1, <1>12, ClosedFrame DEF ShutdownLists, ShutdownEnds
<1> QED  BY <1>3, <1>4, <1>5, <1>6, <1>7, <1>8, <1>9, <1>10, <1>11, <1>12
         DEF Environment, ShutdownStep

LEMMA ClosedInductive ==
    ASSUME ~GraceCancel PROVE IInv /\ ClosedOK /\ [Next]_vars => ClosedOK'
<1> SUFFICES ASSUME IInv, ClosedOK, [Next]_vars PROVE ClosedOK'
  OBVIOUS
<1>1. CASE \E op \in Ops : TaskStep(op)
  BY <1>1, EnterClosed, LeaveClosed DEF TaskStep
<1>2. CASE UNCHANGED vars
  BY <1>2 DEF vars, procVars, ClosedOK
<1> QED  BY <1>1, <1>2, OthersClosed DEF Next

\* get_client returns the registered entry or what it has just spawned.  The
\* entry is alive, so if it were closed its closer would hold the lock; what
\* was just spawned is starting.
LEMMA ServedOpen ==
    ASSUME IInv, ServedOK, ClosedOK, NEW op \in Ops, TaskStep(op),
           pc[op] # "served", pc'[op] = "served"
    PROVE  held'[op] \notin closed'
<1> USE DEF IInv, TypeOK, callVars, procVars
<1>1. CASE EnterGetClient(op)
  <2> DEFINE p == entries[conv[op]]
  <2>1. pc[op] = "waiting" /\ Holds(op) /\ conv[op] \in Convs
    BY <1>1 DEF EnterGetClient, LockHeld
  <2>2. p # NoProc /\ ~Unusable(op, p) /\ Serve(op, p) /\ UNCHANGED procVars
    BY <1>1 DEF EnterGetClient, Leave, BeginClose, Spawn
  <2>3. p \in Procs /\ proc[p] # "dead" /\ home[p] = conv[op]
    BY <2>1, <2>2 DEF RegisteredOK, Unusable
  <2>4. ASSUME p \in closed PROVE FALSE
    <3>1. PICK o \in Ops : pc[o] \in {"aclose", "grace"} /\ held[o] = p
      BY <2>3, <2>4 DEF ClosedOK
    <3>2. pc[o] \in Critical /\ conv[o] = conv[op]
      BY <2>3, <3>1 DEF Critical, HeldOK
    <3>3. o = op
      BY <2>1, <3>2, MutualExclusion
    <3> QED  BY <2>1, <3>1, <3>3
  <2> QED  BY <2>2, <2>4 DEF Serve
<1>2. CASE SpawnReady(op)
  <2>1. pc[op] = "spawning" /\ proc[held[op]] = "starting" /\ held[op] \in Procs
    BY <1>2 DEF SpawnReady, HeldOK, Critical
  <2>2. Serve(op, held[op]) /\ UNCHANGED closed
    BY <1>2 DEF SpawnReady
  <2>3. ASSUME held[op] \in closed PROVE FALSE
    <3>1. PICK o \in Ops : pc[o] \in {"aclose", "grace"} /\ held[o] = held[op]
      BY <2>1, <2>3 DEF ClosedOK
    <3> QED  BY <2>1, <3>1 DEF HeldOK, Critical
  <2> QED  BY <2>1, <2>2, <2>3 DEF Serve
<1>3. AfterClose(op) # "served"
  BY DEF AfterClose, Ops
<1>4. CASE EnterRelease(op) \/ (op = "reaper" /\ EnterReap)
  BY <1>3, <1>4 DEF EnterRelease, EnterReap, Unregister, BeginClose, Leave
<1>5. CASE Aclosed(op) \/ GraceOver(op)
  BY <1>3, <1>5 DEF Aclosed, GraceOver, CloseDone, Spawn, Leave
<1>6. CASE SpawnAborts(op)
  BY <1>6 DEF SpawnAborts, Leave
<1> QED  BY <1>1, <1>2, <1>4, <1>5, <1>6 DEF TaskStep

LEMMA ReturnsOpen ==
    ASSUME IInv, IInv', ServedOK, ClosedOK, [Next]_vars, NEW op \in Calls,
           pc[op] # "served", pc'[op] = "served"
    PROVE  held'[op] \notin closed'
<1>1. op \in Ops /\ op # "shutdown"
  BY ConstantsAssumption DEF Ops
<1>2. CASE Environment
  BY <1>1, <1>2, EnvironmentEffect DEF QuietEffect, IInv
<1>3. CASE ShutdownStep
  BY <1>1, <1>3 DEF ShutdownStep, ShutdownLists, ShutdownPick, ShutdownEnds, Acquire, IInv, TypeOK
<1>4. ASSUME NEW o \in Ops, TaskStep(o) PROVE held'[op] \notin closed'
  <2>1. TaskEffect(o)
    BY <1>4, EnterEffect, CloseEffect DEF TaskStep
  <2>2. o = op
    BY <1>1, <2>1 DEF TaskEffect
  <2> QED  BY <1>4, <2>2, ServedOpen
<1>5. CASE UNCHANGED vars
  BY <1>5 DEF vars
<1> QED  BY <1>2, <1>3, <1>4, <1>5 DEF Next

-----------------------------------------------------------------------------
(* Nobody keeps or loses a lock *)

\* The phases of a task that holds or waits for a spawn lock.
InLine == Critical \cup {"waiting"}

\* The line of every spawn lock is made of the tasks that close, spawn or wait
\* on its conversation: each of them once, and nobody else.
LockQueue ==
    /\ \A c \in Convs :
          /\ \A i \in DOMAIN lock[c] : conv[lock[c][i]] = c /\ pc[lock[c][i]] \in InLine
          /\ \A i, j \in DOMAIN lock[c] : lock[c][i] = lock[c][j] => i = j
    /\ \A op \in Ops : pc[op] \in InLine =>
          \E i \in DOMAIN lock[conv[op]] : lock[conv[op]][i] = op

\* One who joins a line where he is not yet.
LEMMA JoinLine ==
    ASSUME NEW S, NEW s \in Seq(S), NEW e \in S,
           \A i, j \in DOMAIN s : s[i] = s[j] => i = j,
           \A i \in DOMAIN s : s[i] # e
    PROVE  LET t == Append(s, e)
           IN  /\ \A i, j \in DOMAIN t : t[i] = t[j] => i = j
               /\ \A j \in DOMAIN t : t[j] = e \/ \E k \in DOMAIN s : t[j] = s[k]
               /\ \A k \in DOMAIN s : \E j \in DOMAIN t : t[j] = s[k]
               /\ \E j \in DOMAIN t : t[j] = e
<1> DEFINE t == Append(s, e)
<1>1. /\ Len(s) \in Nat /\ DOMAIN s = 1 .. Len(s) /\ DOMAIN t = 1 .. Len(s) + 1
      /\ \A i \in 1 .. Len(s) : t[i] = s[i]
      /\ t[Len(s) + 1] = e
  BY AppendProperties
<1> HIDE DEF t
<1>2. \A j \in DOMAIN t : (j \in DOMAIN s /\ t[j] = s[j]) \/ (j = Len(s) + 1 /\ t[j] = e)
  BY <1>1
<1>3. \A j \in DOMAIN s : j \in DOMAIN t /\ t[j] = s[j]
  BY <1>1
<1>4. Len(s) + 1 \in DOMAIN t
  BY <1>1
<1>5. \A i, j \in DOMAIN t : t[i] = t[j] => i = j
  BY <1>2
<1> QED  BY <1>1, <1>2, <1>3, <1>4, <1>5 DEF t

\* One who leaves a line, from its head or from any place.
LEMMA LeaveLine ==
    ASSUME NEW S, NEW s \in Seq(S), NEW i \in DOMAIN s, NEW t,
           t = RemoveAt(s, i) \/ (i = 1 /\ t = Tail(s)),
           \A j, k \in DOMAIN s : s[j] = s[k] => j = k
    PROVE  /\ \A j, k \in DOMAIN t : t[j] = t[k] => j = k
           /\ \A j \in DOMAIN t : t[j] # s[i] /\ \E k \in DOMAIN s : t[j] = s[k]
           /\ \A k \in DOMAIN s : s[k] # s[i] => \E j \in DOMAIN t : t[j] = s[k]
<1>1. Len(s) \in Nat \ {0} /\ DOMAIN s = 1 .. Len(s) /\ i \in 1 .. Len(s)
  OBVIOUS
<1>2. /\ DOMAIN t = 1 .. Len(s) - 1
      /\ \A j \in 1 .. Len(s) - 1 : t[j] = IF j < i THEN s[j] ELSE s[j + 1]
  <2>1. CASE i = 1 /\ t = Tail(s)
    BY <1>1, <2>1
  <2>2. CASE t = RemoveAt(s, i)
    <3> DEFINE a == SubSeq(s, 1, i - 1)
    <3> DEFINE b == SubSeq(s, i + 1, Len(s))
    <3>1. /\ a \in Seq(S) /\ Len(a) = i - 1
          /\ \A j \in 1 .. i - 1 : a[j] = s[j]
      BY <1>1
    <3>2. /\ b \in Seq(S) /\ Len(b) = Len(s) - i
          /\ \A j \in 1 .. Len(s) - i : b[j] = s[i + j]
      BY <1>1
    <3>3. t = a \o b
      BY <2>2 DEF RemoveAt
    <3> HIDE DEF a, b
    <3>4. /\ t \in Seq(S) /\ Len(t) = Len(a) + Len(b)
          /\ \A j \in 1 .. Len(a) + Len(b) :
                t[j] = IF j <= Len(a) THEN a[j] ELSE b[j - Len(a)]
      BY SMTT(30), <3>1, <3>2, <3>3, ConcatProperties
    <3>5. Len(a) + Len(b) = Len(s) - 1
      BY <1>1, <3>1, <3>2
    <3>6. DOMAIN t = 1 .. Len(s) - 1
      BY <3>4, <3>5
    <3>7. ASSUME NEW j \in 1 .. Len(s) - 1 PROVE t[j] = IF j < i THEN s[j] ELSE s[j + 1]
      <4>1. CASE j < i
        BY <1>1, <3>1, <3>4, <3>5, <4>1
      <4>2. CASE ~(j < i)
        <5>1. j - (i - 1) \in 1 .. Len(s) - i /\ i + (j - (i - 1)) = j + 1
          BY <1>1, <4>2
        <5>2. b[j - (i - 1)] = s[j + 1]
          BY <3>2, <5>1
        <5>3. t[j] = b[j - (i - 1)]
          BY <1>1, <3>1, <3>4, <3>5, <4>2
        <5> QED  BY <4>2, <5>2, <5>3
      <4> QED  BY <4>1, <4>2
    <3> QED  BY <3>6, <3>7
  <2> QED  BY <2>1, <2>2
<1> DEFINE from(j) == IF j < i THEN j ELSE j + 1
<1>3. \A j \in DOMAIN t : from(j) \in DOMAIN s /\ from(j) # i /\ t[j] = s[from(j)]
  BY <1>1, <1>2
<1>4. \A j, k \in DOMAIN t : from(j) = from(k) => j = k
  BY <1>1, <1>2
<1>5. \A k \in DOMAIN s : k # i => \E j \in DOMAIN t : from(j) = k
  <2> SUFFICES ASSUME NEW k \in DOMAIN s, k # i PROVE \E j \in DOMAIN t : from(j) = k
    OBVIOUS
  <2>1. CASE k < i
    <3>1. k \in DOMAIN t /\ from(k) = k
      BY <1>1, <1>2, <2>1
    <3> QED  BY <3>1
  <2>2. CASE k > i
    <3>1. k - 1 \in DOMAIN t /\ from(k - 1) = k
      BY <1>1, <1>2, <2>2
    <3> QED  BY <3>1
  <2> QED  BY <1>1, <2>1, <2>2
<1> HIDE DEF from
<1>6. \A j, k \in DOMAIN t : t[j] = t[k] => j = k
  BY <1>3, <1>4
<1>7. \A j \in DOMAIN t : t[j] # s[i] /\ \E k \in DOMAIN s : t[j] = s[k]
  BY <1>3
<1>8. \A k \in DOMAIN s : s[k] # s[i] => \E j \in DOMAIN t : t[j] = s[k]
  BY <1>3, <1>5
<1> QED  BY <1>6, <1>7, <1>8

LEMMA LineJoined ==
    ASSUME IInv, LockQueue, NEW op \in Ops, NEW c \in Convs, pc[op] \notin InLine,
           Acquire(op, c)
    PROVE  LockQueue'
<1> DEFINE t == Append(lock[c], op)
<1>1. lock[c] \in Seq(Ops) /\ \A i \in DOMAIN lock[c] : lock[c][i] # op
  BY DEF IInv, TypeOK, LockQueue
<1>2. /\ \A i, j \in DOMAIN t : t[i] = t[j] => i = j
      /\ \A j \in DOMAIN t : t[j] = op \/ \E k \in DOMAIN lock[c] : t[j] = lock[c][k]
      /\ \A k \in DOMAIN lock[c] : \E j \in DOMAIN t : t[j] = lock[c][k]
      /\ \E j \in DOMAIN t : t[j] = op
  BY <1>1, JoinLine DEF LockQueue
<1>3. /\ lock'[c] = t /\ \A d \in Convs \ {c} : lock'[d] = lock[d]
      /\ pc'[op] = "waiting" /\ conv'[op] = c
      /\ \A o \in Ops \ {op} : pc'[o] = pc[o] /\ conv'[o] = conv[o]
  BY DEF Acquire, IInv, TypeOK
<1> HIDE DEF t
<1>4. \A d \in Convs : \A i \in DOMAIN lock[d] : lock[d][i] \in Ops \ {op}
  BY DEF IInv, TypeOK, LockQueue
<1>5. ASSUME NEW d \in Convs
      PROVE  /\ \A i \in DOMAIN lock'[d] : conv'[lock'[d][i]] = d /\ pc'[lock'[d][i]] \in InLine
             /\ \A i, j \in DOMAIN lock'[d] : lock'[d][i] = lock'[d][j] => i = j
  <2>1. CASE d = c
    <3>1. ASSUME NEW i \in DOMAIN t PROVE conv'[t[i]] = d /\ pc'[t[i]] \in InLine
      BY <1>2, <1>3, <1>4, <2>1 DEF LockQueue, InLine
    <3> QED  BY <1>2, <1>3, <2>1, <3>1
  <2>2. CASE d # c
    BY <1>3, <1>4, <2>2 DEF LockQueue
  <2> QED  BY <2>1, <2>2
<1>6. ASSUME NEW o \in Ops, pc'[o] \in InLine
      PROVE  \E i \in DOMAIN lock'[conv'[o]] : lock'[conv'[o]][i] = o
  <2>1. CASE o = op
    BY <1>2, <1>3, <2>1
  <2>2. CASE o # op
    <3>1. conv[o] \in Convs /\ \E i \in DOMAIN lock[conv[o]] : lock[conv[o]][i] = o
      BY <1>3, <1>6, <2>2 DEF IInv, LockHeld, LockQueue, InLine
    <3> QED  BY <1>2, <1>3, <2>2, <3>1
  <2> QED  BY <2>1, <2>2
<1> QED  BY <1>5, <1>6 DEF LockQueue

LEMMA LineLeft ==
    ASSUME IInv, LockQueue, NEW op \in Ops, conv[op] \in Convs,
           NEW i \in DOMAIN lock[conv[op]], lock[conv[op]][i] = op, NEW t,
           t = RemoveAt(lock[conv[op]], i) \/ (i = 1 /\ t = Tail(lock[conv[op]])),
           lock' = [lock EXCEPT ![conv[op]] = t],
           NEW phase, phase \notin InLine, pc' = [pc EXCEPT ![op] = phase], UNCHANGED conv
    PROVE  LockQueue'
<1> DEFINE s == lock[conv[op]]
<1>1. s \in Seq(Ops) /\ \A j, k \in DOMAIN s : s[j] = s[k] => j = k
  BY DEF IInv, TypeOK, LockQueue
<1>2. /\ \A j, k \in DOMAIN t : t[j] = t[k] => j = k
      /\ \A j \in DOMAIN t : t[j] # op /\ \E k \in DOMAIN s : t[j] = s[k]
      /\ \A k \in DOMAIN s : s[k] # op => \E j \in DOMAIN t : t[j] = s[k]
  <2>1. i \in DOMAIN s /\ s[i] = op /\ (t = RemoveAt(s, i) \/ (i = 1 /\ t = Tail(s)))
    OBVIOUS
  <2> HIDE DEF s
  <2> QED  BY SMTT(30), <1>1, <2>1, LeaveLine
<1>3. /\ lock'[conv[op]] = t /\ \A d \in Convs \ {conv[op]} : lock'[d] = lock[d]
      /\ pc'[op] = phase /\ \A o \in Ops \ {op} : pc'[o] = pc[o]
  BY DEF IInv, TypeOK
<1>4. \A d \in Convs : \A k \in DOMAIN lock[d] : lock[d][k] \in Ops
  BY DEF IInv, TypeOK
<1>5. ASSUME NEW d \in Convs
      PROVE  /\ \A k \in DOMAIN lock'[d] : conv[lock'[d][k]] = d /\ pc'[lock'[d][k]] \in InLine
             /\ \A j, k \in DOMAIN lock'[d] : lock'[d][j] = lock'[d][k] => j = k
  <2>1. CASE d = conv[op]
    <3>1. ASSUME NEW j \in DOMAIN t PROVE conv[t[j]] = d /\ pc'[t[j]] \in InLine
      <4>1. PICK k \in DOMAIN s : t[j] = s[k]
        BY <1>2
      <4>2. t[j] # op /\ t[j] \in Ops /\ conv[t[j]] = d /\ pc[t[j]] \in InLine
        BY <1>2, <1>4, <2>1, <4>1 DEF LockQueue
      <4> QED  BY <1>3, <4>2
    <3> QED  BY <1>2, <1>3, <2>1, <3>1
  <2>2. CASE d # conv[op]
    <3>1. \A k \in DOMAIN lock[d] : lock[d][k] \in Ops \ {op}
      BY <1>4, <2>2 DEF LockQueue
    <3> QED  BY <1>3, <2>2, <3>1 DEF LockQueue
  <2> QED  BY <2>1, <2>2
<1>6. ASSUME NEW o \in Ops, pc'[o] \in InLine
      PROVE  \E k \in DOMAIN lock'[conv[o]] : lock'[conv[o]][k] = o
  <2>1. o # op /\ pc[o] \in InLine
    BY <1>3, <1>6
  <2>2. conv[o] \in Convs /\ \E k \in DOMAIN lock[conv[o]] : lock[conv[o]][k] = o
    BY <2>1 DEF IInv, LockHeld, LockQueue, InLine
  <2> QED  BY <1>2, <1>3, <2>1, <2>2
<1> QED  BY <1>5, <1>6 DEF LockQueue

LEMMA LineHeadLeft ==
    ASSUME IInv, LockQueue, NEW op \in Ops, conv[op] \in Convs, Holds(op), NEW phase,
           phase \notin InLine, Leave(op, phase), UNCHANGED conv
    PROVE  LockQueue'
<1>1. lock[conv[op]] \in Seq(Ops) /\ lock[conv[op]] # <<>>
  BY DEF IInv, TypeOK, Holds
<1>2. 1 \in DOMAIN lock[conv[op]] /\ lock[conv[op]][1] = op
  BY <1>1 DEF Holds
<1> QED  BY <1>2, LineLeft DEF Leave

LEMMA LineGivenUp ==
    ASSUME IInv, LockQueue, NEW op \in Ops, conv[op] \in Convs, NEW phase,
           phase \notin InLine, GiveUp(op, phase), UNCHANGED conv
    PROVE  LockQueue'
<1>1. PICK i \in DOMAIN lock[conv[op]] :
         /\ lock[conv[op]][i] = op
         /\ lock' = [lock EXCEPT ![conv[op]] = RemoveAt(lock[conv[op]], i)]
  BY DEF GiveUp
<1>2. pc' = [pc EXCEPT ![op] = phase]
  BY DEF GiveUp
<1> QED  BY <1>1, <1>2, LineLeft

\* A step that touches no line, and moves its task at most within the lock or
\* outside of it.
LEMMA LineKept ==
    ASSUME IInv, LockQueue, UNCHANGED <<lock, conv>>,
           \A o \in Ops : pc'[o] = pc[o] \/ (pc[o] \in InLine <=> pc'[o] \in InLine)
    PROVE  LockQueue'
<1>1. \A c \in Convs : \A i \in DOMAIN lock[c] : lock[c][i] \in Ops
  BY DEF IInv, TypeOK
<1> QED  BY <1>1 DEF LockQueue

LEMMA EnvironmentLine ==
    ASSUME IInv, LockQueue, Environment \/ ShutdownStep PROVE LockQueue'
<1> USE ConstantsAssumption DEF callVars, InLine, Critical
<1>1. "reaper" \in Ops /\ "shutdown" \in Ops /\ Calls \subseteq Ops /\ Releases \subseteq Ops
  BY DEF Ops
<1>2. \A op \in Ops : pc[op] \in InLine => conv[op] \in Convs /\ (pc[op] = "grace" => Holds(op))
  BY DEF IInv, LockHeld
<1>3. CASE \E op \in Calls, c \in Convs, w \in Wants, t \in BOOLEAN : GetClient(op, c, w, t)
  BY <1>1, <1>3, LineJoined DEF GetClient
<1>4. CASE \E op \in Releases, c \in Convs : Release(op, c)
  BY <1>1, <1>4, LineJoined DEF Release
<1>5. ASSUME NEW op \in Ops, Cancel(op) PROVE LockQueue'
  <2>1. CASE pc[op] = "waiting" /\ GiveUp(op, "failed")
    BY <1>2, <1>5, <2>1, LineGivenUp DEF Cancel
  <2>2. CASE pc[op] = "grace" /\ Leave(op, "failed")
    BY <1>2, <1>5, <2>2, LineHeadLeft DEF Cancel
  <2>3. CASE UNCHANGED <<lock, pc>>
    BY <1>5, <2>3, LineKept DEF Cancel
  <2> QED  BY <1>5, <2>1, <2>2, <2>3 DEF Cancel
<1>6. CASE \E op \in Ops : ResponseCreated(op) \/ TurnEnds(op) \/ TurnCancelled(op)
  BY <1>6, LineKept DEF ResponseCreated, TurnEnds, TurnCancelled
<1>7. CASE \E stale \in SUBSET Convs : ReaperPass(stale)
  BY <1>7, LineKept DEF ReaperPass
<1>8. CASE \E c \in Convs : ReaperPick(c)
  BY <1>1, <1>8, LineJoined DEF ReaperPick
<1>9. CASE \E p \in Procs : Crash(p)
  BY <1>9, LineKept DEF Crash
<1>10. CASE ShutdownBegins
  <2>1. CASE pc["reaper"] = "idle" /\ pc' = [pc EXCEPT !["reaper"] = "gone"] /\ UNCHANGED lock
    BY <1>1, <1>10, <2>1, LineKept DEF ShutdownBegins, IInv, TypeOK
  <2>2. CASE pc["reaper"] = "waiting" /\ GiveUp("reaper", "gone")
    BY <1>1, <1>2, <1>10, <2>2, LineGivenUp DEF ShutdownBegins
  <2>3. CASE UNCHANGED <<pc, lock>>
    BY <1>10, <2>3, LineKept DEF ShutdownBegins
  <2>4. CASE pc["reaper"] = "grace" /\ Leave("reaper", "gone")
    BY <1>1, <1>2, <1>10, <2>4, LineHeadLeft DEF ShutdownBegins
  <2> QED  BY <1>10, <2>1, <2>2, <2>3, <2>4 DEF ShutdownBegins
<1>11. CASE \E c \in Convs : ShutdownPick(c)
  BY <1>1, <1>11, LineJoined DEF ShutdownPick
<1>12. CASE ShutdownLists \/ ShutdownEnds
  BY <1>1, <1>12, LineKept DEF ShutdownLists, ShutdownEnds, IInv, TypeOK
<1> QED  BY <1>3, <1>4, <1>5, <1>6, <1>7, <1>8, <1>9, <1>10, <1>11, <1>12
         DEF Environment, ShutdownStep

\* A task that has the lock goes on under it, or leaves it.
LEMMA TaskLine ==
    ASSUME IInv, LockQueue, NEW op \in Ops, TaskStep(op) PROVE LockQueue'
<1> USE DEF callVars, procVars
<1>1. conv[op] \in Convs /\ Holds(op) /\ pc[op] \in InLine /\ UNCHANGED conv
  BY DEF TaskStep, EnterGetClient, EnterRelease, EnterReap, Aclosed, CloseDone, GraceOver, GraceEnds,
         SpawnReady, SpawnAborts, IInv, LockHeld, InLine, Critical
<1>2. ASSUME NEW phase, Leave(op, phase), phase \notin InLine PROVE LockQueue'
  BY <1>1, <1>2, LineHeadLeft
<1>3. ASSUME NEW phase \in {"aclose", "grace", "spawning"}, pc' = [pc EXCEPT ![op] = phase],
             UNCHANGED lock
      PROVE  LockQueue'
  BY <1>1, <1>3, LineKept DEF InLine, Critical, IInv, TypeOK
<1>4. AfterClose(op) \notin InLine /\ {"failed", "served", "idle"} \cap InLine = {}
  BY AfterClosePhase DEF InLine, Critical
<1>5. ASSUME NEW ps, Spawn(op, ps) PROVE LockQueue'
  BY <1>2, <1>3, <1>4, <1>5 DEF Spawn
<1>6. CASE EnterGetClient(op)
  BY <1>2, <1>3, <1>4, <1>5, <1>6 DEF EnterGetClient, BeginClose, Serve
<1>7. CASE EnterRelease(op)
  BY <1>2, <1>3, <1>4, <1>7 DEF EnterRelease, Unregister, BeginClose
<1>8. CASE op = "reaper" /\ EnterReap
  BY <1>2, <1>3, <1>4, <1>8 DEF EnterReap, Unregister, BeginClose
<1>9. CASE Aclosed(op) \/ GraceOver(op)
  BY <1>2, <1>3, <1>4, <1>5, <1>9 DEF Aclosed, GraceOver, CloseDone
<1>10. CASE SpawnReady(op)
  BY <1>2, <1>3, <1>4, <1>10 DEF SpawnReady, Serve
<1>11. CASE SpawnAborts(op)
  BY <1>2, <1>4, <1>11 DEF SpawnAborts
<1> QED  BY <1>6, <1>7, <1>8, <1>9, <1>10, <1>11 DEF TaskStep

LEMMA LineInductive == IInv /\ LockQueue /\ [Next]_vars => LockQueue'
<1>1. IInv /\ LockQueue /\ UNCHANGED vars => LockQueue'
  BY LineKept DEF vars, callVars
<1> QED  BY <1>1, EnvironmentLine, TaskLine DEF Next

-----------------------------------------------------------------------------
(* The theorems *)

\* Type correctness of the manager, its subprocesses and the tasks that work on
\* them, wherever a cancellation lands.
THEOREM TypeCorrect == Spec => []TypeOK
<1>1. IInv => TypeOK
  BY DEF IInv
<1> QED  BY <1>1, InitInductive, NextInductive, PTL DEF Spec

\* get_client, release, shutdown and the reaper never let two subprocesses of
\* one conversation live at once, whatever crashes or is cancelled, except in
\* the wait after SIGTERM.
THEOREM NeverTwoProcesses == ASSUME ~GraceCancel PROVE Spec => []OneLiveProcess
<1>1. IInv => OneLiveProcess
  BY TrackedOnce
<1> QED  BY <1>1, InitInductive, NextInductive, PTL DEF Spec

\* No live subprocess is forgotten: it is registered or in the hands of the
\* task that holds its conversation's spawn lock.
THEOREM NeverLeaks == ASSUME ~GraceCancel PROVE Spec => []Tracked
<1>1. IInv => Tracked
  BY DEF IInv, Tidy
<1> QED  BY <1>1, InitInductive, NextInductive, PTL DEF Spec

\* A get_client that waited behind a release fails instead of respawning what
\* the release tore down.
THEOREM ReleaseIsFinal == Spec => []NoRespawnAfterRelease
<1>1. IInv => NoRespawnAfterRelease
  BY DEF IInv
<1> QED  BY <1>1, InitInductive, NextInductive, PTL DEF Spec

\* A reap never closes what a running turn uses, nor fails a turn that waits
\* behind it.
THEOREM ReaperNeverTakesATurn == Spec => []ReaperSparesTurns
<1>1. IInv /\ ServedOK /\ ReapOK => ReaperSparesTurns
  <2> SUFFICES ASSUME IInv, ServedOK, ReapOK, pc["reaper"] \in {"aclose", "grace"},
                      NEW op \in turns
               PROVE  /\ pc[op] = "served" => held[op] # held["reaper"]
                      /\ pc[op] = "waiting" /\ conv[op] = conv["reaper"] =>
                            sample[op] = gen[conv[op]]
    BY DEF ReaperSparesTurns
  <2>1. "reaper" \in Ops /\ op \in Ops /\ pc["reaper"] \in Critical
    BY DEF Ops, IInv, TypeOK, Critical
  <2>2. home[held["reaper"]] = conv["reaper"]
    BY <2>1 DEF IInv, HeldOK
  <2> QED  BY <2>1, <2>2 DEF ServedOK, ReapOK
<1>2. Init => ServedOK /\ ReapOK /\ DrainOK
  BY OutcomesInit
<1> QED  BY <1>1, <1>2, InitInductive, NextInductive, OutcomesInductive, PTL DEF Spec

\* When shutdown has returned, no subprocess is left, not even one that was
\* being spawned when it began.
THEOREM ShutdownLeavesNothing == ASSUME ~GraceCancel PROVE Spec => []ShutdownClean
<1>1. IInv /\ DrainOK => ShutdownClean
  <2> SUFFICES ASSUME IInv, DrainOK, mgr = "stopped", NEW p \in Procs, Live(p) PROVE FALSE
    BY DEF ShutdownClean
  <2>1. home[p] \in Convs /\ Drained(home[p])
    BY DEF IInv, HomeOK, DrainOK, Drained, Critical
  <2>2. p # NoProc
    BY ConstantsAssumption
  <2> QED  BY <2>1, <2>2 DEF IInv, Tidy, Tracked, DrainOK
<1>2. Init => ServedOK /\ ReapOK /\ DrainOK
  BY OutcomesInit
<1> QED  BY <1>1, <1>2, InitInductive, NextInductive, OutcomesInductive, PTL DEF Spec

\* get_client never hands out a subprocess whose client was closed, be it by
\* the call itself or by one that was cancelled in the close before it.
THEOREM OnlyOpenClients == ASSUME ~GraceCancel PROVE Spec => ServesOpenClient
<1>1. Init => ClosedOK
  BY DEF Init, ClosedOK
<1>2. IInv /\ IInv' /\ ServedOK /\ ClosedOK /\ [Next]_vars =>
        [\A op \in Calls :
            pc[op] # "served" /\ pc'[op] = "served" => held'[op] \notin closed']_vars
  BY ReturnsOpen
<1> QED  BY <1>1, <1>2, InitInductive, NextInductive, OutcomesInit, OutcomesInductive,
            ClosedInductive, PTL DEF Spec, ServesOpenClient

\* The spawn lock of a conversation is held or waited for by exactly the tasks
\* that close, spawn or wait on it, each once, wherever a cancellation, a
\* failed spawn or a close that raises takes one out: no task keeps a lock it
\* is done with, none is forgotten in the line, none waits on its own.  It is
\* what the liveness of get_client and shutdown rests on.
THEOREM NoLockIsLost == Spec => []LockQueue
<1>1. Init => LockQueue
  BY DEF Init, LockQueue, InLine, Critical
<1> QED  BY <1>1, InitInductive, NextInductive, LineInductive, PTL DEF Spec
=============================================================================
