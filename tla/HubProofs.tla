------------------------------ MODULE HubProofs ------------------------------
(***************************************************************************)
(* Proofs about Hub: its types and limits, that no broadcast meets a       *)
(* closed channel, and that between ticks the clients are up to date, for  *)
(* any number of dashboards and ticks and any limits.                      *)
(***************************************************************************)
EXTENDS Hub, FiniteSetTheorems, SequenceTheorems, TLAPS

----------------------------------------------------------------------------
(* Types                                                                    *)

TickType == [step : {"idle", "updated", "read", "waiting", "sending"},
             snap : Versions \union {Nothing},
             left : SUBSET Streams, alone : BOOLEAN]
StreamType == [step : {"closed", "join", "write", "select", "leave"},
               frame : Versions \union {Nothing}]

\* TypeOK, with a finite set of clients, so that they can be counted, and with
\* a snapshot in the hands of every tick that broadcasts.
Typed ==
    /\ TypeOK
    /\ IsFiniteSet(clients)
    /\ \A t \in Ticks :
          tick[t].step \in {"read", "waiting", "sending"} => tick[t].snap \in Versions

LEMMA TypedInit == Init => Typed
<1> SUFFICES ASSUME Init PROVE Typed
    OBVIOUS
<1>1. IsFiniteSet({}) /\ Cardinality({}) = 0
    BY FS_EmptySet
<1>2. <<>> \in Seq(Versions) /\ Len(<<>>) = 0
    OBVIOUS
<1>3. \A s \in Streams : Len(queue[s]) <= Buffer
    BY <1>2, HubAssumption DEF Init
<1> QED
    BY <1>1, <1>2, <1>3, HubAssumption DEF Init, Typed, TypeOK, Versions, Idle, Closed

\* What the steps of a tick do to its record.
LEMMA TickRecords ==
    ASSUME Typed, NEW t \in Ticks
    PROVE  /\ tick[t] \in TickType
           /\ [tick[t] EXCEPT !.alone = FALSE] \in TickType
           /\ [tick[t] EXCEPT !.step = "read", !.snap = snapshot] \in TickType
           /\ [tick[t] EXCEPT !.step = "sending", !.left = clients] \in TickType
           /\ [tick[t] EXCEPT !.step = "waiting"] \in TickType
           /\ \A s : [tick[t] EXCEPT !.left = @ \ {s}] \in TickType
           /\ Idle \in TickType
           /\ [Idle EXCEPT !.step = "updated", !.alone = Settled] \in TickType
<1>1. tick[t] \in TickType /\ snapshot \in Versions /\ clients \subseteq Streams
    BY DEF Typed, TypeOK, TickType
<1>2. Settled \in BOOLEAN
    BY DEF Settled
<1>3. Idle \in TickType
    BY DEF Idle, TickType
<1>4. [Idle EXCEPT !.step = "updated", !.alone = Settled] \in TickType
    BY <1>2, Zenon DEF Idle, TickType
<1>5. [tick[t] EXCEPT !.alone = FALSE] \in TickType
    BY <1>1 DEF TickType
<1>6. [tick[t] EXCEPT !.step = "read", !.snap = snapshot] \in TickType
    BY <1>1 DEF TickType
<1>7. [tick[t] EXCEPT !.step = "sending", !.left = clients] \in TickType
    BY <1>1 DEF TickType
<1>8. \A s : [tick[t] EXCEPT !.left = @ \ {s}] \in TickType
    BY <1>1 DEF TickType
<1>9. [tick[t] EXCEPT !.step = "waiting"] \in TickType
    BY <1>1 DEF TickType
<1> QED
    BY <1>1, <1>3, <1>4, <1>5, <1>6, <1>7, <1>8, <1>9

LEMMA TypedTick ==
    ASSUME Typed, NEW t \in Ticks, updateSnapshot(t) \/ TickStep(t)
    PROVE  Typed'
<1>0. tick \in [Ticks -> TickType]
    BY DEF Typed, TypeOK, TickType
<1>1. CASE updateSnapshot(t)
  <2>1. snapshot' \in Versions
      BY <1>1, HubAssumption DEF updateSnapshot, Typed, TypeOK, Versions
  <2>2. tick' \in [Ticks -> TickType]
      BY <1>1, TickRecords DEF updateSnapshot
  <2>3. \A u \in Ticks :
          tick'[u].step \in {"read", "waiting", "sending"} => tick'[u].snap \in Versions
      BY <1>0, <1>1 DEF updateSnapshot, Typed, Idle, TickType
  <2> QED
      BY <1>1, <2>1, <2>2, <2>3 DEF updateSnapshot, streamVars, Typed, TypeOK, TickType
<1>2. CASE GetStateSnapshot(t)
  <2>1. tick' = [tick EXCEPT ![t] = [tick[t] EXCEPT !.step = "read", !.snap = snapshot]]
      BY <1>2, <1>0 DEF GetStateSnapshot, TickType
  <2>2. tick' \in [Ticks -> TickType]
      BY <1>0, <2>1, TickRecords
  <2>3. \A u \in Ticks :
          tick'[u].step \in {"read", "waiting", "sending"} => tick'[u].snap \in Versions
      BY <1>0, <2>1 DEF Typed, TypeOK, TickType
  <2> QED
      BY <1>2, <2>2, <2>3 DEF GetStateSnapshot, streamVars, Typed, TypeOK, TickType
<1>3. CASE Broadcast(t)
  <2>1. tick' = [tick EXCEPT ![t] = [tick[t] EXCEPT !.step = "sending", !.left = clients]]
        /\ tick[t].step \in {"read", "waiting"}
      BY <1>3, <1>0 DEF Broadcast, TickType
  <2>2. tick' \in [Ticks -> TickType]
      BY <1>0, <2>1, TickRecords
  <2>3. \A u \in Ticks :
          tick'[u].step \in {"read", "waiting", "sending"} => tick'[u].snap \in Versions
      BY <1>0, <2>1 DEF Typed, TypeOK, TickType
  <2> QED
      BY <1>3, <2>2, <2>3 DEF Broadcast, streamVars, Typed, TypeOK, TickType
<1>4. CASE Sent(t)
  <2>1. tick' \in [Ticks -> TickType]
      BY <1>0, <1>4, TickRecords DEF Sent
  <2>2. \A u \in Ticks :
          tick'[u].step \in {"read", "waiting", "sending"} => tick'[u].snap \in Versions
      BY <1>0, <1>4 DEF Sent, Typed, Idle, TickType
  <2> QED
      BY <1>4, <2>1, <2>2 DEF Sent, streamVars, Typed, TypeOK, TickType
<1>5. ASSUME NEW s \in Streams, Send(t, s)
      PROVE  Typed'
  <2>1. tick' = [tick EXCEPT ![t] = [tick[t] EXCEPT !.left = @ \ {s}]]
        /\ tick[t].step = "sending"
      BY <1>5, <1>0 DEF Send, TickType
  <2>2. tick' \in [Ticks -> TickType]
      BY <1>0, <2>1, TickRecords
  <2>3. \A u \in Ticks :
          tick'[u].step \in {"read", "waiting", "sending"} => tick'[u].snap \in Versions
      BY <1>0, <2>1 DEF Typed, TypeOK, TickType
  <2>4. tick[t].snap \in Versions
      BY <2>1 DEF Typed
  <2>5. /\ queue' \in [Streams -> Seq(Versions)]
        /\ \A r \in Streams : Len(queue'[r]) <= Buffer
    <3>1. CASE Len(queue[s]) < Buffer
      <4>1. queue' = [queue EXCEPT ![s] = Append(queue[s], tick[t].snap)]
          BY <1>5, <3>1 DEF Send
      <4>2. queue[s] \in Seq(Versions)
          BY DEF Typed, TypeOK
      <4>3. /\ Append(queue[s], tick[t].snap) \in Seq(Versions)
            /\ Len(Append(queue[s], tick[t].snap)) <= Buffer
          BY <2>4, <3>1, <4>2, HubAssumption
      <4> QED
          BY <4>1, <4>3 DEF Typed, TypeOK
    <3>2. CASE ~(Len(queue[s]) < Buffer)
        BY <1>5, <3>2 DEF Send, Typed, TypeOK
    <3> QED
        BY <3>1, <3>2
  <2>6. lost' \subseteq Streams
      BY <1>5 DEF Send, Typed, TypeOK
  <2> QED
      BY <1>5, <2>2, <2>3, <2>5, <2>6 DEF Send, Typed, TypeOK, TickType
<1>6. CASE Wait(t)
  <2>1. tick' = [tick EXCEPT ![t] = [tick[t] EXCEPT !.step = "waiting"]]
        /\ tick[t].step = "read"
      BY <1>6, <1>0 DEF Wait, TickType
  <2>2. tick' \in [Ticks -> TickType]
      BY <1>0, <2>1, TickRecords
  <2>3. \A u \in Ticks :
          tick'[u].step \in {"read", "waiting", "sending"} => tick'[u].snap \in Versions
      BY <1>0, <2>1 DEF Typed, TypeOK, TickType
  <2> QED
      BY <1>6, <2>2, <2>3 DEF Wait, streamVars, Typed, TypeOK, TickType
<1> QED
    BY <1>1, <1>2, <1>3, <1>4, <1>5, <1>6 DEF TickStep

\* What the handler of a stream does.
StreamStep(s) ==
    \/ serveHTTP(s) \/ Lock(s) \/ EndRequest(s)
    \/ write(s) \/ writeFails(s) \/ Receive(s) \/ Heartbeat(s) \/ Done(s)

LEMMA TypedStream ==
    ASSUME Typed, NEW s \in Streams, StreamStep(s)
    PROVE  Typed'
<1>0. /\ stream \in [Streams -> StreamType] /\ stream[s] \in StreamType
      /\ queue[s] \in Seq(Versions) /\ Len(queue[s]) <= Buffer
      /\ 0 <= Buffer /\ Len(<<>>) = 0 /\ <<>> \in Seq(Versions)
    BY HubAssumption DEF Typed, TypeOK, StreamType
<1>1. CASE subscribe(s)
  <2>1. IsFiniteSet(clients') /\ Cardinality(clients') <= MaxClients
    <3>1. /\ IsFiniteSet(clients \union {s})
          /\ Cardinality(clients \union {s}) \in {Cardinality(clients), Cardinality(clients) + 1}
        BY FS_AddElement DEF Typed
    <3>2. Cardinality(clients) \in Nat
        BY FS_CardinalityType DEF Typed
    <3> QED
        BY <1>1, <3>1, <3>2, HubAssumption DEF subscribe
  <2> QED
      BY <1>0, <1>1, <2>1 DEF subscribe, Unlock, Typed, TypeOK, StreamType
<1>2. CASE write(s)
    BY <1>0, <1>2 DEF write, tickVars, Typed, TypeOK, StreamType
<1>3. CASE writeFails(s)
    BY <1>0, <1>3 DEF writeFails, tickVars, Typed, TypeOK, StreamType
<1>4. CASE Receive(s)
  <2>1. /\ Head(queue[s]) \in Versions /\ Tail(queue[s]) \in Seq(Versions)
        /\ Len(Tail(queue[s])) <= Buffer
      BY <1>0, <1>4, HubAssumption DEF Receive
  <2> QED
      BY <1>0, <1>4, <2>1 DEF Receive, tickVars, Typed, TypeOK, StreamType
<1>5. CASE Heartbeat(s)
    BY <1>0, <1>5 DEF Heartbeat, tickVars, Typed, TypeOK, StreamType
<1>6. CASE Done(s)
    BY <1>0, <1>6 DEF Done, tickVars, Typed, TypeOK, StreamType
<1>7. CASE Unsubscribe(s)
  <2>1. IsFiniteSet(clients') /\ Cardinality(clients') <= MaxClients
    <3>1. /\ IsFiniteSet(clients \ {s}) /\ Cardinality(clients \ {s}) \in Nat
          /\ Cardinality(clients \ {s}) <= Cardinality(clients)
        BY FS_Subset, FS_CardinalityType DEF Typed
    <3>2. Cardinality(clients) \in Nat
        BY FS_CardinalityType DEF Typed
    <3> QED
        BY <1>7, <3>1, <3>2, HubAssumption DEF Unsubscribe, Typed, TypeOK
  <2> QED
      BY <1>0, <1>7, <2>1 DEF Unsubscribe, Unlock, Typed, TypeOK, StreamType, Closed
<1>8. CASE EndRequest(s)
    BY <1>8 DEF EndRequest, tickVars, Typed, TypeOK
<1>9. CASE serveHTTP(s)
    BY <1>0, <1>9 DEF serveHTTP, tickVars, Typed, TypeOK, StreamType
<1>10. CASE refuse(s)
    BY <1>0, <1>10 DEF refuse, Unlock, Typed, TypeOK, StreamType, Closed
<1> QED
    BY <1>1, <1>2, <1>3, <1>4, <1>5, <1>6, <1>7, <1>8, <1>9, <1>10 DEF StreamStep, Lock

LEMMA TypedStep == Typed /\ [Next]_vars => Typed'
<1> SUFFICES ASSUME Typed, [Next]_vars PROVE Typed'
    OBVIOUS
<1>1. CASE SetMode
  <2>1. snapshot' \in Versions
      BY <1>1, HubAssumption DEF SetMode, Typed, TypeOK, Versions
  <2>2. tick' \in [Ticks -> TickType]
      BY <1>1, TickRecords DEF SetMode
  <2>3. \A u \in Ticks :
          tick'[u].step \in {"read", "waiting", "sending"} => tick'[u].snap \in Versions
    <3> SUFFICES ASSUME NEW u \in Ticks
                 PROVE  tick'[u].step = tick[u].step /\ tick'[u].snap = tick[u].snap
        BY DEF Typed
    <3>1. tick[u] \in TickType
        BY TickRecords
    <3>2. tick'[u] = [tick[u] EXCEPT !.alone = FALSE]
        BY <1>1 DEF SetMode
    <3> QED
        BY <3>1, <3>2 DEF TickType
  <2> QED
      BY <1>1, <2>1, <2>2, <2>3 DEF SetMode, streamVars, Typed, TypeOK, TickType
<1>2. CASE Signal
    BY <1>2 DEF Signal, tickVars, streamVars, Typed, TypeOK
<1>3. CASE Shutdown \/ ShutdownTimesOut
  <2>1. IsFiniteSet({}) /\ Cardinality({}) = 0
      BY FS_EmptySet
  <2>2. \A s \in Streams : Len(queue'[s]) <= Buffer
      BY <1>3, HubAssumption DEF Shutdown, ShutdownTimesOut, Gone
  <2>3. Gone /\ server' = "exited"
      BY <1>3 DEF Shutdown, ShutdownTimesOut
  <2> QED
      BY <2>1, <2>2, <2>3, HubAssumption DEF Gone, Typed, TypeOK, Versions, Idle, Closed
<1>4. CASE UNCHANGED vars
    BY <1>4 DEF vars, Typed, TypeOK
<1> QED
    BY <1>1, <1>2, <1>3, <1>4, TypedTick, TypedStream DEF Next, Exited, StreamStep

\* The hub stays below its limit of clients and every channel within its
\* capacity, whatever they are.
THEOREM HubTyped == Spec => []TypeOK
<1>1. Typed => TypeOK
    BY DEF Typed
<1> QED
    BY <1>1, TypedInit, TypedStep, PTL DEF Spec

----------------------------------------------------------------------------
(* The lock                                                                 *)

\* A tick that sends holds the lock, which only such a tick and one that waits
\* can, and serves registered clients; only a tick that sends has clients left.
LockInv ==
    \A t \in Ticks :
        /\ tick[t].step = "sending" => t \in readers
        /\ t \in readers => tick[t].step \in {"waiting", "sending"}
        /\ tick[t].left \subseteq clients
        /\ tick[t].left # {} => tick[t].step = "sending"

\* What each step does to the record of its tick; the others keep theirs.
LEMMA TickEffects ==
    ASSUME Typed, NEW t \in Ticks
    PROVE  /\ updateSnapshot(t) =>
                /\ tick'[t].step = "updated" /\ tick'[t].left = {}
                /\ tick'[t].alone => Settled
                /\ \A u \in Ticks : u # t =>
                     /\ tick'[u].step = tick[u].step /\ tick'[u].left = tick[u].left
                     /\ ~tick'[u].alone
           /\ GetStateSnapshot(t) =>
                /\ tick'[t].step = "read" /\ tick'[t].snap = snapshot
                /\ tick'[t].left = tick[t].left
                /\ tick'[t].alone = tick[t].alone
                /\ \A u \in Ticks : u # t => tick'[u] = tick[u]
           /\ Broadcast(t) =>
                /\ tick'[t].step = "sending" /\ tick'[t].snap = tick[t].snap
                /\ tick'[t].left = clients
                /\ tick'[t].alone = tick[t].alone
                /\ \A u \in Ticks : u # t => tick'[u] = tick[u]
           /\ Wait(t) =>
                /\ tick'[t].step = "waiting" /\ tick'[t].snap = tick[t].snap
                /\ tick'[t].left = tick[t].left
                /\ tick'[t].alone = tick[t].alone
                /\ \A u \in Ticks : u # t => tick'[u] = tick[u]
           /\ \A s \in Streams : Send(t, s) =>
                /\ tick'[t].step = tick[t].step /\ tick'[t].snap = tick[t].snap
                /\ tick'[t].left = tick[t].left \ {s}
                /\ tick'[t].alone = tick[t].alone
                /\ \A u \in Ticks : u # t => tick'[u] = tick[u]
<1>0. tick \in [Ticks -> TickType]
    BY DEF Typed, TypeOK, TickType
<1>1. ASSUME updateSnapshot(t)
      PROVE  /\ tick'[t].step = "updated" /\ tick'[t].left = {}
             /\ tick'[t].alone => Settled
             /\ \A u \in Ticks : u # t =>
                  /\ tick'[u].step = tick[u].step /\ tick'[u].left = tick[u].left
                  /\ ~tick'[u].alone
  <2>1. tick'[t] = [Idle EXCEPT !.step = "updated", !.alone = Settled]
      BY <1>1 DEF updateSnapshot
  <2>2. tick'[t].step = "updated" /\ tick'[t].left = {}
      BY <2>1 DEF Idle
  <2>3. tick'[t].alone => Settled
      BY <2>1, Zenon DEF Idle
  <2>4. \A u \in Ticks : u # t => tick'[u] = [tick[u] EXCEPT !.alone = FALSE]
      BY <1>1 DEF updateSnapshot
  <2>5. \A u \in Ticks : u # t =>
          /\ tick'[u].step = tick[u].step /\ tick'[u].left = tick[u].left
          /\ ~tick'[u].alone
      BY <1>0, <2>4 DEF TickType
  <2> QED
      BY <2>2, <2>3, <2>5
<1>2. ASSUME GetStateSnapshot(t)
      PROVE  /\ tick'[t].step = "read" /\ tick'[t].snap = snapshot
             /\ tick'[t].left = tick[t].left
             /\ tick'[t].alone = tick[t].alone
             /\ \A u \in Ticks : u # t => tick'[u] = tick[u]
    BY <1>0, <1>2 DEF GetStateSnapshot, TickType
<1>3. ASSUME Broadcast(t)
      PROVE  /\ tick'[t].step = "sending" /\ tick'[t].snap = tick[t].snap
             /\ tick'[t].left = clients
             /\ tick'[t].alone = tick[t].alone
             /\ \A u \in Ticks : u # t => tick'[u] = tick[u]
    BY <1>0, <1>3 DEF Broadcast, TickType
<1>4. ASSUME NEW s \in Streams, Send(t, s)
      PROVE  /\ tick'[t].step = tick[t].step /\ tick'[t].snap = tick[t].snap
             /\ tick'[t].left = tick[t].left \ {s}
             /\ tick'[t].alone = tick[t].alone
             /\ \A u \in Ticks : u # t => tick'[u] = tick[u]
    BY <1>0, <1>4 DEF Send, TickType
<1>5. ASSUME Wait(t)
      PROVE  /\ tick'[t].step = "waiting" /\ tick'[t].snap = tick[t].snap
             /\ tick'[t].left = tick[t].left
             /\ tick'[t].alone = tick[t].alone
             /\ \A u \in Ticks : u # t => tick'[u] = tick[u]
    BY <1>0, <1>5 DEF Wait, TickType
<1> QED
    BY <1>1, <1>2, <1>3, <1>4, <1>5

LEMMA LockStep == Typed /\ LockInv /\ [Next]_vars => LockInv'
<1> SUFFICES ASSUME Typed, LockInv, [Next]_vars PROVE LockInv'
    OBVIOUS
<1>0. tick \in [Ticks -> TickType]
    BY DEF Typed, TypeOK, TickType
<1>1. ASSUME NEW t \in Ticks, updateSnapshot(t) PROVE LockInv'
  <2>1. UNCHANGED <<readers, clients>> /\ tick[t].step = "idle"
      BY <1>1 DEF updateSnapshot, streamVars
  <2>2. \A u \in Ticks : u # t =>
          /\ tick'[u].step = tick[u].step /\ tick'[u].left = tick[u].left
      BY <1>1, TickEffects
  <2>3. tick'[t].step = "updated" /\ tick'[t].left = {}
      BY <1>1, TickEffects
  <2> QED
      BY <2>1, <2>2, <2>3 DEF LockInv
<1>2. ASSUME NEW t \in Ticks, GetStateSnapshot(t) PROVE LockInv'
    BY <1>0, <1>2, TickEffects DEF GetStateSnapshot, streamVars, LockInv
<1>3. ASSUME NEW t \in Ticks, Broadcast(t) PROVE LockInv'
    BY <1>0, <1>3, TickEffects DEF Broadcast, streamVars, LockInv
<1>4. ASSUME NEW t \in Ticks, NEW s \in Streams, Send(t, s) PROVE LockInv'
  <2>1. UNCHANGED <<readers, clients>> /\ tick[t].step = "sending"
      BY <1>4 DEF Send
  <2> QED
      BY <1>0, <1>4, <2>1, TickEffects DEF LockInv
<1>5. ASSUME NEW t \in Ticks, Sent(t) PROVE LockInv'
    BY <1>0, <1>5 DEF Sent, streamVars, LockInv, Idle
<1>6. ASSUME NEW t \in Ticks, Wait(t) PROVE LockInv'
  <2>1. UNCHANGED <<readers, clients>> /\ tick[t].step = "read"
      BY <1>6 DEF Wait, streamVars
  <2> QED
      BY <1>0, <1>6, <2>1, TickEffects DEF LockInv
<1>7. ASSUME NEW s \in Streams, Lock(s) PROVE LockInv'
  <2>1. readers = {} /\ tick' = tick /\ readers' = {t \in Ticks : tick[t].step = "waiting"}
      BY <1>7 DEF Lock, subscribe, refuse, Unsubscribe, Unlock
  <2>2. \A t \in Ticks : tick[t].left = {} /\ tick[t].step # "sending"
      BY <2>1 DEF LockInv
  <2> QED
      BY <2>1, <2>2 DEF LockInv
<1>8. ASSUME NEW s \in Streams,
             \/ serveHTTP(s) \/ write(s) \/ writeFails(s) \/ Receive(s)
             \/ Heartbeat(s) \/ Done(s) \/ EndRequest(s)
      PROVE  LockInv'
    BY <1>8 DEF serveHTTP, write, writeFails, Receive, Heartbeat, Done, EndRequest,
                tickVars, LockInv
<1>9. CASE SetMode
  <2>1. \A u \in Ticks : tick'[u].step = tick[u].step /\ tick'[u].left = tick[u].left
      BY <1>0, <1>9 DEF SetMode, TickType
  <2> QED
      BY <1>9, <2>1 DEF SetMode, streamVars, LockInv
<1>10. CASE Signal
    BY <1>10 DEF Signal, tickVars, streamVars, LockInv
<1>11. CASE Shutdown \/ ShutdownTimesOut
    BY <1>11 DEF Shutdown, ShutdownTimesOut, Gone, LockInv, Idle
<1>12. CASE UNCHANGED vars
    BY <1>12 DEF vars, LockInv
<1> QED
    BY <1>1, <1>2, <1>3, <1>4, <1>5, <1>6, <1>7, <1>8, <1>9, <1>10, <1>11, <1>12
    DEF Next, TickStep, Exited

\* However many ticks broadcast and dashboards come and go, no tick sends to a
\* channel that was closed after the broadcast began.
THEOREM NeverSendsOnClosed == Spec => []NoSendOnClosed
<1>1. Init => LockInv
    BY DEF Init, LockInv, Idle
<1>2. LockInv => NoSendOnClosed
    BY DEF LockInv, NoSendOnClosed
<1> QED
    BY <1>1, <1>2, TypedInit, TypedStep, LockStep, PTL DEF Spec

----------------------------------------------------------------------------
(* Up to date                                                               *)

\* A tick that is alone has no other beside it and carries the newest snapshot.
AloneInv ==
    \A t \in Ticks : tick[t].alone =>
        /\ tick[t].step # "idle"
        /\ \A u \in Ticks : u # t => tick[u].step = "idle"
        /\ tick[t].step \in {"read", "waiting", "sending"} => tick[t].snap = snapshot

\* A handler holds a frame only while it writes; clients are the streams that
\* are neither closed nor waiting to join.
FrameInv ==
    \A s \in Streams :
        /\ stream[s].step # "write" => stream[s].frame = Nothing
        /\ s \in clients <=> stream[s].step \notin {"closed", "join"}

\* The stream will be offered what a tick has in hand.
Awaits(s) ==
    \E t \in Ticks : \/ tick[t].step \in {"updated", "read", "waiting"}
                     \/ s \in tick[t].left

\* Between two ticks UpToDate holds since during a tick every client that
\* could have fallen behind is still to be served.
GivenInv ==
    \A s \in clients \ lost :
        stream[s].step # "leave" => Given(s) = snapshot \/ Awaits(s)

LEMMA AloneStep == Typed /\ AloneInv /\ [Next]_vars => AloneInv'
<1> SUFFICES ASSUME Typed, AloneInv, [Next]_vars PROVE AloneInv'
    OBVIOUS
<1>0. tick \in [Ticks -> TickType]
    BY DEF Typed, TypeOK, TickType
<1>1. ASSUME NEW t \in Ticks, updateSnapshot(t) PROVE AloneInv'
    BY <1>1, TickEffects DEF AloneInv, Settled
<1>2. ASSUME NEW t \in Ticks, GetStateSnapshot(t) PROVE AloneInv'
  <2>1. UNCHANGED snapshot /\ tick[t].step = "updated"
      BY <1>2 DEF GetStateSnapshot
  <2> QED
      BY <1>2, <2>1, TickEffects DEF AloneInv
<1>3. ASSUME NEW t \in Ticks, Broadcast(t) PROVE AloneInv'
  <2>1. UNCHANGED snapshot /\ tick[t].step \in {"read", "waiting"}
      BY <1>3 DEF Broadcast
  <2> QED
      BY <1>3, <2>1, TickEffects DEF AloneInv
<1>4. ASSUME NEW t \in Ticks, NEW s \in Streams, Send(t, s) PROVE AloneInv'
  <2>1. UNCHANGED snapshot
      BY <1>4 DEF Send
  <2> QED
      BY <1>4, <2>1, TickEffects DEF AloneInv
<1>5. ASSUME NEW t \in Ticks, Sent(t) PROVE AloneInv'
    BY <1>0, <1>5 DEF Sent, AloneInv, Idle
<1>6. ASSUME NEW s \in Streams, StreamStep(s) PROVE AloneInv'
  <2>1. tick' = tick /\ snapshot' = snapshot
      BY <1>6 DEF StreamStep, serveHTTP, Lock, subscribe, refuse, Unsubscribe, write,
                  writeFails, Receive, Heartbeat, Done, EndRequest, tickVars
  <2> QED
      BY <2>1 DEF AloneInv
<1>7. CASE SetMode
  <2>1. \A u \in Ticks : ~tick'[u].alone
      BY <1>0, <1>7 DEF SetMode, TickType
  <2> QED
      BY <2>1 DEF AloneInv
<1>8. CASE Signal
    BY <1>8 DEF Signal, tickVars, AloneInv
<1>9. CASE Shutdown \/ ShutdownTimesOut
    BY <1>9 DEF Shutdown, ShutdownTimesOut, Gone, AloneInv, Idle
<1>10. CASE UNCHANGED vars
    BY <1>10 DEF vars, AloneInv
<1>11. ASSUME NEW t \in Ticks, Wait(t) PROVE AloneInv'
  <2>1. UNCHANGED snapshot /\ tick[t].step = "read"
      BY <1>11 DEF Wait
  <2> QED
      BY <1>11, <2>1, TickEffects DEF AloneInv
<1> QED
    BY <1>1, <1>2, <1>3, <1>4, <1>5, <1>6, <1>7, <1>8, <1>9, <1>10, <1>11
    DEF Next, TickStep, StreamStep, Exited

LEMMA FrameStep == Typed /\ FrameInv /\ [Next]_vars => FrameInv'
<1> SUFFICES ASSUME Typed, FrameInv, [Next]_vars PROVE FrameInv'
    OBVIOUS
<1>0. stream \in [Streams -> StreamType]
    BY DEF Typed, TypeOK, StreamType
<1>1. CASE UNCHANGED <<stream, clients>>
    BY <1>1 DEF FrameInv
<1>2. ASSUME NEW t \in Ticks, updateSnapshot(t) \/ TickStep(t)
      PROVE  UNCHANGED <<stream, clients>>
    BY <1>2 DEF updateSnapshot, TickStep, GetStateSnapshot, Broadcast, Wait, Send, Sent,
                streamVars
<1>3. ASSUME NEW s \in Streams, subscribe(s) PROVE FrameInv'
    BY <1>0, <1>3 DEF subscribe, FrameInv, Closed, StreamType
<1>4. ASSUME NEW s \in Streams, write(s) PROVE FrameInv'
    BY <1>0, <1>4 DEF write, FrameInv, StreamType
<1>5. ASSUME NEW s \in Streams, writeFails(s) PROVE FrameInv'
    BY <1>0, <1>5 DEF writeFails, FrameInv, StreamType
<1>6. ASSUME NEW s \in Streams, Receive(s) PROVE FrameInv'
    BY <1>0, <1>6 DEF Receive, FrameInv, StreamType
<1>7. ASSUME NEW s \in Streams, Heartbeat(s) PROVE FrameInv'
    BY <1>0, <1>7 DEF Heartbeat, FrameInv, StreamType
<1>8. ASSUME NEW s \in Streams, Done(s) PROVE FrameInv'
    BY <1>0, <1>8 DEF Done, FrameInv, StreamType
<1>9. ASSUME NEW s \in Streams, Unsubscribe(s) PROVE FrameInv'
    BY <1>0, <1>9 DEF Unsubscribe, FrameInv, Closed, StreamType
<1>10. ASSUME NEW s \in Streams, EndRequest(s) PROVE UNCHANGED <<stream, clients>>
    BY <1>10 DEF EndRequest
<1>11. ASSUME SetMode \/ Signal \/ UNCHANGED vars PROVE UNCHANGED <<stream, clients>>
    BY <1>11 DEF SetMode, Signal, streamVars, vars
<1>12. CASE Shutdown \/ ShutdownTimesOut
    BY <1>12 DEF Shutdown, ShutdownTimesOut, Gone, FrameInv, Closed
<1>13. ASSUME NEW s \in Streams, serveHTTP(s) PROVE FrameInv'
    BY <1>0, <1>13 DEF serveHTTP, FrameInv, Closed, StreamType
<1>14. ASSUME NEW s \in Streams, refuse(s) PROVE FrameInv'
    BY <1>0, <1>14 DEF refuse, FrameInv, Closed, StreamType
<1> QED
    BY <1>1, <1>2, <1>3, <1>4, <1>5, <1>6, <1>7, <1>8, <1>9, <1>10, <1>11, <1>12,
       <1>13, <1>14
    DEF Next, Lock, Exited

\* The last element stays when the first is taken, if there are two.
LEMMA LastOfTail ==
    ASSUME NEW S, NEW q \in Seq(S), q # <<>>
    PROVE  /\ Len(q) = 1 => Tail(q) = <<>>
           /\ Len(q) # 1 => Tail(q) # <<>> /\ Tail(q)[Len(Tail(q))] = q[Len(q)]
<1>1. /\ Tail(q) \in Seq(S) /\ Len(Tail(q)) = Len(q) - 1
      /\ \A i \in 1 .. Len(Tail(q)) : Tail(q)[i] = q[i + 1]
    BY HeadTailProperties
<1>2. /\ Len(q) \in Nat \ {0} /\ Len(<<>>) = 0
      /\ Tail(q) # <<>> => Len(Tail(q)) \in Nat \ {0}
    BY <1>1, EmptySeq
<1>3. Len(q) # 1 => Len(Tail(q)) \in 1 .. Len(Tail(q))
    BY <1>1, <1>2
<1>4. Len(q) # 1 => Tail(q)[Len(Tail(q))] = q[Len(Tail(q)) + 1]
    BY <1>1, <1>3
<1>5. Len(Tail(q)) + 1 = Len(q)
    BY <1>1, <1>2
<1>6. Len(q) = 1 => Tail(q) = <<>>
    BY <1>1, <1>2
<1>7. Len(q) # 1 => Tail(q) # <<>>
  <2>1. Len(q) # 1 => Len(Tail(q)) # 0
      BY <1>1, <1>2
  <2> QED
      BY <1>2, <2>1
<1> QED
    BY <1>4, <1>5, <1>6, <1>7

\* The steps of its handler leave what a stream was given, until it leaves.
LEMMA GivenKept ==
    ASSUME Typed, FrameInv, NEW s \in Streams,
           write(s) \/ Receive(s) \/ Heartbeat(s) \/ EndRequest(s)
    PROVE  Given(s)' = Given(s)
<1>0. /\ stream \in [Streams -> StreamType] /\ shown \in [Streams -> Versions \union {Nothing}]
      /\ queue \in [Streams -> Seq(Versions)] /\ queue[s] \in Seq(Versions)
    BY DEF Typed, TypeOK, StreamType
<1>1. CASE write(s)
    BY <1>0, <1>1 DEF write, Given, StreamType
<1>2. CASE Receive(s)
  <2>1. /\ queue[s] # <<>> /\ stream[s].step = "select" /\ stream[s].frame = Nothing
        /\ queue'[s] = Tail(queue[s]) /\ stream'[s].frame = Head(queue[s])
      BY <1>0, <1>2 DEF Receive, FrameInv
  <2>2. Head(queue[s]) = queue[s][1] /\ Head(queue[s]) # Nothing
    <3>1. Head(queue[s]) \in Versions
        BY <1>0, <2>1
    <3> QED
        BY <3>1, HubAssumption DEF Versions, Nothing
  <2>3. CASE Len(queue[s]) = 1
    <3>1. Tail(queue[s]) = <<>>
        BY <1>0, <2>1, <2>3, LastOfTail
    <3> QED
        BY <2>1, <2>2, <2>3, <3>1 DEF Given
  <2>4. CASE Len(queue[s]) # 1
    <3>1. /\ Tail(queue[s]) # <<>>
          /\ Tail(queue[s])[Len(Tail(queue[s]))] = queue[s][Len(queue[s])]
        BY <1>0, <2>1, <2>4, LastOfTail
    <3> QED
        BY <2>1, <3>1 DEF Given
  <2> QED
      BY <2>3, <2>4
<1>3. CASE Heartbeat(s)
    BY <1>0, <1>3 DEF Heartbeat, Given, StreamType
<1>4. CASE EndRequest(s)
    BY <1>4 DEF EndRequest, Given
<1> QED
    BY <1>1, <1>2, <1>3, <1>4

LEMMA GivenStep ==
    Typed /\ LockInv /\ AloneInv /\ FrameInv /\ GivenInv /\ [Next]_vars => GivenInv'
<1> SUFFICES ASSUME Typed, LockInv, AloneInv, FrameInv, GivenInv, [Next]_vars
             PROVE  GivenInv'
    OBVIOUS
<1>0. /\ tick \in [Ticks -> TickType] /\ stream \in [Streams -> StreamType]
      /\ queue \in [Streams -> Seq(Versions)] /\ clients \subseteq Streams
    BY DEF Typed, TypeOK, TickType, StreamType
<1>1. ASSUME NEW t \in Ticks, updateSnapshot(t) PROVE GivenInv'
  <2>1. \A s : Awaits(s)'
      BY <1>1, TickEffects DEF Awaits
  <2> QED
      BY <2>1 DEF GivenInv
<1>2. ASSUME NEW t \in Ticks, GetStateSnapshot(t) PROVE GivenInv'
  <2>1. \A s : Awaits(s)'
      BY <1>2, TickEffects DEF Awaits
  <2> QED
      BY <2>1 DEF GivenInv
<1>3. ASSUME NEW t \in Ticks, Broadcast(t) PROVE GivenInv'
  <2>1. \A s \in clients : Awaits(s)'
      BY <1>3, TickEffects DEF Awaits
  <2>2. UNCHANGED clients
      BY <1>3 DEF Broadcast, streamVars
  <2> QED
      BY <2>1, <2>2 DEF GivenInv
<1>4. ASSUME NEW t \in Ticks, NEW r \in Streams, Send(t, r) PROVE GivenInv'
  <2>0. UNCHANGED <<clients, stream, shown, snapshot>> /\ tick[t].step = "sending"
        /\ r \in tick[t].left
      BY <1>4 DEF Send
  <2>1. ASSUME NEW s \in Streams, s # r PROVE Given(s)' = Given(s) /\ (Awaits(s) => Awaits(s)')
    <3>1. queue'[s] = queue[s]
        BY <1>0, <1>4, <2>1 DEF Send
    <3>2. Awaits(s) => Awaits(s)'
        BY <1>4, <2>1, TickEffects DEF Awaits
    <3> QED
        BY <2>0, <3>1, <3>2 DEF Given
  <2>2. \A s \in Streams : s # r => (s \in lost <=> s \in lost')
      BY <1>4 DEF Send
  <2>3. r \notin lost' => Given(r)' = snapshot
    <3> SUFFICES ASSUME r \notin lost' PROVE Given(r)' = snapshot
        OBVIOUS
    <3>1. tick[t].alone /\ Len(queue[r]) < Buffer
        BY <1>4 DEF Send
    <3>2. tick[t].snap = snapshot
        BY <2>0, <3>1 DEF AloneInv
    <3>3. queue'[r] = Append(queue[r], snapshot)
        BY <1>0, <1>4, <3>1, <3>2 DEF Send
    <3>4. queue[r] \in Seq(Versions) /\ snapshot \in Versions
        BY <1>0 DEF Typed, TypeOK
    <3>5. /\ Append(queue[r], snapshot) # <<>>
          /\ Append(queue[r], snapshot)[Len(Append(queue[r], snapshot))] = snapshot
        BY <3>4
    <3> QED
        BY <3>3, <3>5 DEF Given
  <2> QED
      BY <1>0, <2>0, <2>1, <2>2, <2>3 DEF GivenInv
<1>5. ASSUME NEW t \in Ticks, Sent(t) PROVE GivenInv'
  <2>1. UNCHANGED <<clients, stream, shown, snapshot, queue, lost>>
        /\ tick[t].step = "sending" /\ tick[t].left = {}
      BY <1>5 DEF Sent, streamVars
  <2>2. \A u \in Ticks : u # t => tick'[u] = tick[u]
      BY <1>0, <1>5 DEF Sent
  <2>3. \A s : Awaits(s) => Awaits(s)'
      BY <2>1, <2>2 DEF Awaits
  <2>4. \A s : Given(s)' = Given(s)
      BY <2>1 DEF Given
  <2> QED
      BY <2>1, <2>3, <2>4 DEF GivenInv
<1>6. ASSUME NEW r \in Streams, StreamStep(r) PROVE GivenInv'
  <2>1. tick' = tick /\ snapshot' = snapshot
      BY <1>6 DEF StreamStep, serveHTTP, Lock, subscribe, refuse, Unsubscribe, write,
                  writeFails, Receive, Heartbeat, Done, EndRequest, tickVars
  <2>2. \A s : Awaits(s)' <=> Awaits(s)
      BY <2>1 DEF Awaits
  <2>3. ASSUME NEW s \in Streams, s # r
        PROVE  /\ stream'[s] = stream[s] /\ Given(s)' = Given(s)
               /\ (s \in clients' <=> s \in clients) /\ (s \in lost' <=> s \in lost)
    <3>1. /\ stream'[s] = stream[s] /\ queue'[s] = queue[s] /\ shown'[s] = shown[s]
          /\ (s \in clients' <=> s \in clients) /\ (s \in lost' <=> s \in lost)
        BY <1>0, <1>6, <2>3
        DEF StreamStep, serveHTTP, Lock, subscribe, refuse, Unsubscribe, write, writeFails,
            Receive, Heartbeat, Done, EndRequest, Typed, TypeOK
    <3> QED
        BY <3>1 DEF Given
  <2>4. ASSUME r \in clients' \ lost', stream'[r].step # "leave"
        PROVE  /\ r \in clients \ lost /\ stream[r].step # "leave"
               /\ Given(r)' = Given(r)
    <3>1. ~subscribe(r) /\ ~Unsubscribe(r) /\ ~serveHTTP(r) /\ ~refuse(r)
      <4>1. ~subscribe(r) /\ ~Unsubscribe(r)
          BY <2>4 DEF subscribe, Unsubscribe
      <4>2. serveHTTP(r) \/ refuse(r) => r \in clients /\ stream[r].step \in {"closed", "join"}
          BY <2>4 DEF serveHTTP, refuse, Closed
      <4> QED
          BY <4>1, <4>2 DEF FrameInv
    <3>2. ~writeFails(r) /\ ~Done(r)
        BY <1>0, <2>4 DEF writeFails, Done, StreamType
    <3>3. write(r) \/ Receive(r) \/ Heartbeat(r) \/ EndRequest(r)
        BY <1>6, <3>1, <3>2 DEF StreamStep, Lock
    <3>4. UNCHANGED <<clients, lost>> /\ stream[r].step # "leave"
        BY <2>4, <3>3 DEF write, Receive, Heartbeat, EndRequest
    <3> QED
        BY <2>4, <3>3, <3>4, GivenKept
  <2>5. clients' \subseteq Streams /\ UNCHANGED snapshot
      BY <1>6, <2>1, TypedStream DEF Typed, TypeOK
  <2>6. ASSUME NEW s \in clients' \ lost', stream'[s].step # "leave"
        PROVE  /\ s \in clients \ lost /\ stream[s].step # "leave"
               /\ Given(s)' = Given(s)
    <3>1. CASE s = r
        BY <2>4, <2>6, <3>1
    <3>2. CASE s # r
        BY <2>3, <2>5, <2>6, <3>2
    <3> QED
        BY <3>1, <3>2
  <2> QED
      BY <2>2, <2>5, <2>6 DEF GivenInv
<1>7. CASE SetMode
  <2>1. clients' \ lost' = {}
      BY <1>7 DEF SetMode, streamVars
  <2> QED
      BY <2>1 DEF GivenInv
<1>8. CASE Shutdown \/ ShutdownTimesOut
  <2>1. clients' = {}
      BY <1>8 DEF Shutdown, ShutdownTimesOut, Gone
  <2> QED
      BY <2>1 DEF GivenInv
<1>9. CASE Signal
    BY <1>9 DEF Signal, tickVars, streamVars, GivenInv, Given, Awaits
<1>10. CASE UNCHANGED vars
    BY <1>10 DEF vars, GivenInv, Given, Awaits
<1>11. ASSUME NEW t \in Ticks, Wait(t) PROVE GivenInv'
  <2>1. \A s : Awaits(s)'
      BY <1>11, TickEffects DEF Awaits
  <2> QED
      BY <2>1 DEF GivenInv
<1> QED
    BY <1>1, <1>2, <1>3, <1>4, <1>5, <1>6, <1>7, <1>8, <1>9, <1>10, <1>11
    DEF Next, TickStep, StreamStep, Exited

\* Whatever the number of dashboards and ticks and the capacity of a channel:
\* between ticks, a client has been handed the controller's state but for the
\* exceptions of UpToDate.
THEOREM ClientsUpToDate == Spec => []UpToDate
<1>1. Init => LockInv /\ AloneInv /\ FrameInv /\ GivenInv
    BY DEF Init, LockInv, AloneInv, FrameInv, GivenInv, Idle, Closed
<1>2. Typed /\ LockInv /\ GivenInv => UpToDate
  <2> SUFFICES ASSUME LockInv, GivenInv, Settled, NEW s \in clients \ lost,
                      stream[s].step # "leave"
               PROVE  Given(s) = snapshot
      BY DEF UpToDate
  <2>1. ~Awaits(s)
      BY DEF Awaits, Settled, LockInv
  <2> QED
      BY <2>1 DEF GivenInv
<1> QED
    BY <1>1, <1>2, TypedInit, TypedStep, LockStep, AloneStep, FrameStep, GivenStep,
       PTL DEF Spec
=============================================================================
