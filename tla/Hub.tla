-------------------------------- MODULE Hub --------------------------------
(***************************************************************************)
(* The event hub: the streams of the dashboards that are connected to      *)
(* /events, the ticks of the controller that broadcast the state snapshot  *)
(* to them, and the end of the server, which waits for the streams.        *)
(*                                                                         *)
(* A snapshot is its number.  A stream stands for its handler and for the  *)
(* channel in h.clients.  What a tick does before its update, and what     *)
(* ends the context of a request, are modelled in Ticks and AuthSessions.  *)
(* A snapshot can always be encoded, and net/http can always flush.        *)
(***************************************************************************)
EXTENDS Integers, Sequences, FiniteSets

CONSTANTS
    Streams,      \* dashboards that connect to /events
    Stalling,     \* those that may stop reading without closing the connection
    Ticks,        \* Run's tick and those of forced refreshes
    MaxClients,   \* Hub.maxClients
    Buffer,       \* the capacity of a client's channel
    MaxVersion    \* bound: changes of the snapshot

ASSUME HubAssumption ==
    /\ Stalling \subseteq Streams
    /\ MaxClients \in Nat /\ Buffer \in Nat \ {0} /\ MaxVersion \in Nat

VARIABLES
    snapshot,   \* Controller.snapshot
    tick,       \* where each tick is
    readers,    \* ticks that Hub.mu is granted to for reading
    clients,    \* Hub.clients
    queue,      \* the channel of each client
    stream,     \* where the handler of each stream is
    ended,      \* streams whose request context is done
    shown,      \* the last snapshot each dashboard was sent since it connected
    server,     \* how far the shutdown is
    lost        \* history: dashboards that will not learn of the last change

vars == <<snapshot, tick, readers, clients, queue, stream, ended, shown,
          server, lost>>
tickVars == <<snapshot, tick, readers>>
streamVars == <<clients, queue, stream, ended, shown>>

Versions == 0 .. MaxVersion
Nothing == -1
Idle == [step |-> "idle", snap |-> Nothing, left |-> {}, alone |-> FALSE]
Closed == [step |-> "closed", frame |-> Nothing]

Init ==
    /\ snapshot = 0
    /\ tick = [t \in Ticks |-> Idle]
    /\ readers = {} /\ clients = {}
    /\ queue = [s \in Streams |-> <<>>]
    /\ stream = [s \in Streams |-> Closed]
    /\ ended = {}
    /\ shown = [s \in Streams |-> Nothing]
    /\ server = "serving"
    /\ lost = {}

\* The streams whose handlers wait for Hub.mu, to register or to unregister.
Writers == {s \in Streams : stream[s].step \in {"join", "leave"}}

\* The handler that has held the lock lets in the readers that came meanwhile,
\* before any other handler.
Unlock == readers' = {t \in Ticks : tick[t].step = "waiting"}

----------------------------------------------------------------------------
(* A tick publishes the snapshot                                            *)

Settled == \A t \in Ticks : tick[t].step = "idle"

\* Mutant: the snapshot to broadcast is read before it is updated.
updateSnapshotLate(t) ==
    /\ server # "exited" /\ tick[t].step = "idle" /\ snapshot < MaxVersion
    /\ snapshot' = snapshot + 1
    /\ tick' = [u \in Ticks |->
                  IF u = t THEN [Idle EXCEPT !.step = "read", !.snap = snapshot,
                                             !.alone = Settled]
                  ELSE [tick[u] EXCEPT !.alone = FALSE]]
    /\ UNCHANGED <<readers, streamVars, server, lost>>

\* updateSnapshot, or the error of the inverter that replaces it; a tick that
\* fails to read the car changes and publishes nothing.  A tick that began
\* before the process is to end may get here after.
updateSnapshot(t) ==
    /\ server # "exited" /\ tick[t].step = "idle" /\ snapshot < MaxVersion
    /\ snapshot' = snapshot + 1
    /\ tick' = [u \in Ticks |->
                  IF u = t THEN [Idle EXCEPT !.step = "updated", !.alone = Settled]
                  ELSE [tick[u] EXCEPT !.alone = FALSE]]
    /\ UNCHANGED <<readers, streamVars, server, lost>>

GetStateSnapshot(t) ==
    /\ tick[t].step = "updated"
    /\ tick' = [tick EXCEPT ![t].step = "read", ![t].snap = snapshot]
    /\ UNCHANGED <<snapshot, readers, streamVars, server, lost>>

\* Mutant: the clients are copied under the lock and served without it.
BroadcastCopy(t) ==
    /\ \/ tick[t].step = "read" /\ Writers = {}
       \/ tick[t].step = "waiting" /\ t \in readers
    /\ tick' = [tick EXCEPT ![t].step = "sending", ![t].left = clients]
    /\ readers' = readers \ {t}
    /\ UNCHANGED <<snapshot, streamVars, server, lost>>

\* Broadcast takes the lock for reading, unless a handler waits for it ...
Broadcast(t) ==
    /\ \/ tick[t].step = "read" /\ Writers = {}
       \/ tick[t].step = "waiting" /\ t \in readers
    /\ tick' = [tick EXCEPT ![t].step = "sending", ![t].left = clients]
    /\ readers' = readers \union {t}
    /\ UNCHANGED <<snapshot, streamVars, server, lost>>

\* ... and comes after that handler then ...
Wait(t) ==
    /\ tick[t].step = "read" /\ Writers # {}
    /\ tick' = [tick EXCEPT ![t].step = "waiting"]
    /\ UNCHANGED <<snapshot, readers, streamVars, server, lost>>

\* Mutant: the send waits for a place in the channel.
SendWaits(t, s) ==
    /\ tick[t].step = "sending" /\ s \in tick[t].left
    /\ Len(queue[s]) < Buffer
    /\ queue' = [queue EXCEPT ![s] = Append(@, tick[t].snap)]
    /\ tick' = [tick EXCEPT ![t].left = @ \ {s}]
    /\ UNCHANGED <<snapshot, readers, clients, stream, ended, shown, server, lost>>

\* ... offers the snapshot to every client in turn, and drops it where the
\* channel is full ...
Send(t, s) ==
    /\ tick[t].step = "sending" /\ s \in tick[t].left
    /\ tick' = [tick EXCEPT ![t].left = @ \ {s}]
    /\ IF Len(queue[s]) < Buffer
       THEN /\ queue' = [queue EXCEPT ![s] = Append(@, tick[t].snap)]
            /\ lost' = IF tick[t].alone THEN lost \ {s} ELSE lost \union {s}
       ELSE lost' = lost \union {s} /\ UNCHANGED queue
    /\ UNCHANGED <<snapshot, readers, clients, stream, ended, shown, server>>

\* ... and releases the lock.
Sent(t) ==
    /\ tick[t].step = "sending" /\ tick[t].left = {}
    /\ tick' = [tick EXCEPT ![t] = Idle]
    /\ readers' = readers \ {t}
    /\ UNCHANGED <<snapshot, streamVars, server, lost>>

\* SetMode changes the snapshot and tells nobody; nor does ForceRefresh, which
\* clears an error before its tick.
SetMode ==
    /\ server # "exited" /\ snapshot < MaxVersion
    /\ snapshot' = snapshot + 1
    /\ tick' = [t \in Ticks |-> [tick[t] EXCEPT !.alone = FALSE]]
    /\ lost' = clients
    /\ UNCHANGED <<readers, streamVars, server>>

----------------------------------------------------------------------------
(* The handler of a stream                                                  *)

\* serveHTTP: a request comes in, and its handler asks for the lock.
serveHTTP(s) ==
    /\ server = "serving" /\ stream[s] = Closed
    /\ stream' = [stream EXCEPT ![s].step = "join"]
    /\ UNCHANGED <<tickVars, clients, queue, ended, shown, server, lost>>

\* Mutant: one client too many.
subscribeOneMore(s) ==
    /\ stream[s].step = "join" /\ readers = {}
    /\ Cardinality(clients) <= MaxClients
    /\ Unlock
    /\ clients' = clients \union {s}
    /\ queue' = [queue EXCEPT ![s] = <<>>]
    /\ stream' = [stream EXCEPT ![s].step = "write"]
    /\ lost' = lost \union {s}
    /\ UNCHANGED <<snapshot, tick, ended, shown, server>>

\* The stream is registered, and greeted.  It gets no snapshot before the next
\* broadcast.
subscribe(s) ==
    /\ stream[s].step = "join" /\ readers = {}
    /\ Cardinality(clients) < MaxClients
    /\ Unlock
    /\ clients' = clients \union {s}
    /\ queue' = [queue EXCEPT ![s] = <<>>]
    /\ stream' = [stream EXCEPT ![s].step = "write"]
    /\ lost' = lost \union {s}
    /\ UNCHANGED <<snapshot, tick, ended, shown, server>>

\* The hub is full: the request is refused.
refuse(s) ==
    /\ stream[s].step = "join" /\ readers = {}
    /\ Cardinality(clients) >= MaxClients
    /\ Unlock
    /\ stream' = [stream EXCEPT ![s] = Closed]
    /\ ended' = ended \ {s}
    /\ UNCHANGED <<snapshot, tick, clients, queue, shown, server, lost>>

\* The greeting, a heartbeat or a snapshot reaches the dashboard.
write(s) ==
    /\ stream[s].step = "write"
    /\ shown' = IF stream[s].frame = Nothing THEN shown
                ELSE [shown EXCEPT ![s] = stream[s].frame]
    /\ stream' = [stream EXCEPT ![s] = [step |-> "select", frame |-> Nothing]]
    /\ UNCHANGED <<tickVars, clients, queue, ended, server, lost>>

\* Mutant: the handler returns before its deferred Unsubscribe is registered.
writeFailsEarly(s) ==
    /\ stream[s].step = "write"
    /\ stream' = [stream EXCEPT ![s] = Closed]
    /\ UNCHANGED <<tickVars, clients, queue, ended, shown, server, lost>>

\* Or the write fails, and the handler returns.
writeFails(s) ==
    /\ stream[s].step = "write"
    /\ stream' = [stream EXCEPT ![s] = [step |-> "leave", frame |-> Nothing]]
    /\ UNCHANGED <<tickVars, clients, queue, ended, shown, server, lost>>

\* Mutant: a snapshot is taken from the channel and not written.
ReceiveOnly(s) ==
    /\ stream[s].step = "select" /\ queue[s] # <<>>
    /\ queue' = [queue EXCEPT ![s] = Tail(@)]
    /\ UNCHANGED <<tickVars, clients, stream, ended, shown, server, lost>>

\* The three cases of the select: the channel, ...
Receive(s) ==
    /\ stream[s].step = "select" /\ queue[s] # <<>>
    /\ stream' = [stream EXCEPT ![s] = [step |-> "write", frame |-> Head(queue[s])]]
    /\ queue' = [queue EXCEPT ![s] = Tail(@)]
    /\ UNCHANGED <<tickVars, clients, ended, shown, server, lost>>

\* ... the ticker, ...
Heartbeat(s) ==
    /\ stream[s].step = "select"
    /\ stream' = [stream EXCEPT ![s].step = "write"]
    /\ UNCHANGED <<tickVars, clients, queue, ended, shown, server, lost>>

\* ... and the context of the request.
Done(s) ==
    /\ stream[s].step = "select" /\ s \in ended
    /\ stream' = [stream EXCEPT ![s].step = "leave"]
    /\ UNCHANGED <<tickVars, clients, queue, ended, shown, server, lost>>

\* The deferred call takes the lock; what the channel still holds is gone.
Unsubscribe(s) ==
    /\ stream[s].step = "leave" /\ readers = {}
    /\ Unlock
    /\ clients' = clients \ {s}
    /\ queue' = [queue EXCEPT ![s] = <<>>]
    /\ stream' = [stream EXCEPT ![s] = Closed]
    /\ shown' = [shown EXCEPT ![s] = Nothing]
    /\ ended' = ended \ {s} /\ lost' = lost \ {s}
    /\ UNCHANGED <<snapshot, tick, server>>

\* External: the dashboard disconnects, or its session ends.
EndRequest(s) ==
    /\ stream[s] # Closed /\ s \notin ended
    /\ ended' = ended \union {s}
    /\ UNCHANGED <<tickVars, clients, queue, stream, shown, server, lost>>

----------------------------------------------------------------------------
(* The end of the process                                                   *)

\* A signal: the context is cancelled and the servers accept nobody new.  The
\* contexts of the open requests are not derived from the cancelled one.
Signal ==
    /\ server = "serving" /\ server' = "stopping"
    /\ UNCHANGED <<tickVars, streamVars, lost>>

\* The process is gone, and its ticks and handlers with it.
Gone ==
    /\ snapshot' = 0 /\ tick' = [t \in Ticks |-> Idle]
    /\ readers' = {} /\ clients' = {}
    /\ queue' = [s \in Streams |-> <<>>]
    /\ stream' = [s \in Streams |-> Closed]
    /\ ended' = {} /\ shown' = [s \in Streams |-> Nothing] /\ lost' = {}

\* Shutdown returns when no handler is left, ...
Shutdown ==
    /\ server = "stopping" /\ \A s \in Streams : stream[s] = Closed
    /\ server' = "exited"
    /\ Gone

\* ... or with an error when its time is over before.
ShutdownTimesOut ==
    /\ server = "stopping" /\ \E s \in Streams : stream[s] # Closed
    /\ server' = "exited"
    /\ Gone

Exited == server = "exited" /\ UNCHANGED vars

----------------------------------------------------------------------------

\* What a handler does with the lock.
Lock(s) == subscribe(s) \/ refuse(s) \/ Unsubscribe(s)

TickStep(t) ==
    \/ GetStateSnapshot(t) \/ Broadcast(t) \/ Wait(t) \/ Sent(t)
    \/ \E s \in Streams : Send(t, s)

Next ==
    \/ \E t \in Ticks : updateSnapshot(t) \/ TickStep(t)
    \/ \E s \in Streams :
          \/ serveHTTP(s) \/ Lock(s) \/ EndRequest(s)
          \/ write(s) \/ writeFails(s) \/ Receive(s) \/ Heartbeat(s) \/ Done(s)
    \/ SetMode \/ Signal \/ Shutdown \/ ShutdownTimesOut \/ Exited

\* The goroutines run; select picks among its ready cases at random; handlers
\* that wait for the lock get it in turn; a dashboard that does not stall takes
\* the frames or breaks the connection.
Fairness ==
    /\ \A t \in Ticks : WF_vars(TickStep(t))
    /\ \A s \in Streams :
          /\ SF_vars(Lock(s)) /\ SF_vars(Receive(s)) /\ SF_vars(Done(s))
    /\ \A s \in Streams \ Stalling : WF_vars(write(s) \/ writeFails(s))

Spec == Init /\ [][Next]_vars /\ Fairness

----------------------------------------------------------------------------
(* Properties                                                               *)

\* The types; the hub holds at most its limit of clients, and a client's
\* channel at most its capacity.
TypeOK ==
    /\ snapshot \in Versions
    /\ tick \in [Ticks -> [step : {"idle", "updated", "read", "waiting", "sending"},
                           snap : Versions \union {Nothing},
                           left : SUBSET Streams, alone : BOOLEAN]]
    /\ readers \subseteq Ticks
    /\ clients \subseteq Streams /\ Cardinality(clients) <= MaxClients
    /\ queue \in [Streams -> Seq(Versions)]
    /\ \A s \in Streams : Len(queue[s]) <= Buffer
    /\ stream \in [Streams -> [step : {"closed", "join", "write", "select", "leave"},
                               frame : Versions \union {Nothing}]]
    /\ ended \subseteq Streams
    /\ shown \in [Streams -> Versions \union {Nothing}]
    /\ server \in {"serving", "stopping", "exited"}
    /\ lost \subseteq Streams

\* A broadcast meets no channel that its handler has closed meanwhile, which
\* would end the process: the clients it still has to serve are registered.
NoSendOnClosed == \A t \in Ticks : tick[t].left \subseteq clients

\* The last snapshot that was handed to the stream.
Given(s) ==
    IF queue[s] # <<>> THEN queue[s][Len(queue[s])]
    ELSE IF stream[s].frame # Nothing THEN stream[s].frame
    ELSE shown[s]

\* Between ticks every client has been handed the controller's state, or is
\* about to show it.  The exceptions: it joined after the last broadcast, its
\* channel was full, two ticks overlapped, or the mode was changed since.
UpToDate ==
    Settled => \A s \in clients \ lost :
                 stream[s].step # "leave" => Given(s) = snapshot

\* A dashboard that reads comes to show the state it is up to date with.
ShowsLatest ==
    \A s \in Streams \ Stalling :
        LET Current == Settled /\ s \in clients \ lost
        IN  Current ~> (shown[s] = snapshot \/ ~Current)

\* No dashboard, however slow, holds up the controller.
TicksNeverHeldUp ==
    \A t \in Ticks : tick[t].step # "idle" ~> tick[t].step = "idle"

\* The place of a stream whose request has ended is free in the end, if its
\* dashboard does not stall.
SlotsFreed ==
    \A s \in Streams \ Stalling :
        s \in ended ~> s \notin clients
=============================================================================
