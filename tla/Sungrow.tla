------------------------------ MODULE Sungrow ------------------------------
(***************************************************************************)
(* The WiNet-S session of internal/inverter/sungrow.go.  A poll makes sure *)
(* there is a session, reads the registers one after the other, and        *)
(* records how it went; a session the module rejects is replaced, with     *)
(* exponential backoff between logins.                                     *)
(*                                                                         *)
(* The controller's loop and a request that forces a refresh poll the same *)
(* client at the same time.  The client's mutex is held for one step of a  *)
(* poll only, so every action below is what happens under one lock, or one *)
(* exchange with the module between two locks.                             *)
(*                                                                         *)
(* The module (external) knows one session at a time: each login, of this  *)
(* client or of somebody else, makes every earlier token stale.  A token   *)
(* is therefore "live", "stale" or, as the empty string, "none".  The      *)
(* WebSocket carries the keepalives only, registers are read over HTTP: a  *)
(* session whose socket has died is still good for reading.                *)
(***************************************************************************)
EXTENDS Integers

CONSTANTS
    Registers,             \* registers read by a poll
    sessionResetAfter,
    reconnectBackoffBase, reconnectBackoffMax,  \* in units of Elapse
    MaxResets              \* bound: resets from which the delay is constant

\* The callers of GetPowerData: Run, and ForceRefresh in a request, whose
\* context ends when the client goes away.
Poller == {"run", "refresh"}

ASSUME SungrowAssumption ==
    /\ Registers \in Nat \ {0}
    /\ sessionResetAfter \in Nat \ {0}
    /\ reconnectBackoffBase \in Nat \ {0} /\ reconnectBackoffMax \in Nat
    /\ MaxResets \in 2 .. 18
    /\ reconnectBackoffBase * 2 ^ (MaxResets - 2) >= reconnectBackoffMax

VARIABLES
    token, failedPolls, resets,
    wsConn,      \* the WebSocket: "none", "open" or "dead"
    wait,        \* time until nextConnect
    pc,          \* where each poll is
    held,        \* token of the request being sent
    left,        \* registers still to be read
    retried,     \* the current register is read for the second time
    cancelled,   \* the poll's context has ended
    module,      \* external: "ok", "rejecting" or "failing"
    logins,      \* history: logins since the last good or overlapped poll
    strikes      \* history: what disturbed this poll, up to 2

client == <<token, wsConn, failedPolls, resets, wait>>
poll == <<pc, held, left, retried, cancelled>>
vars == <<client, poll, module, logins, strikes>>

Token == {"none", "live", "stale"}
Step == {"idle", "ensure", "ping", "replace", "backoff", "connect",
         "schedule", "read", "request", "good", "bad"}

Alone(p) == \A q \in Poller \ {p} : pc[q] = "idle"
Goto(p, step) == pc' = [pc EXCEPT ![p] = step]

----------------------------------------------------------------------------
(* Backoff                                                                  *)

Least(a, b) == IF a < b THEN a ELSE b

\* Mutant: the delay grows without a limit.
delayUncapped(n) ==
    IF n > 1 THEN reconnectBackoffBase * 2 ^ Least(n - 2, 16) ELSE 0

\* The first reset connects at once, later ones wait longer and longer.
delay(n) ==
    IF n > 1 THEN Least(reconnectBackoffBase * 2 ^ Least(n - 2, 16),
                        reconnectBackoffMax)
    ELSE 0

scheduleReconnectLocked ==
    /\ resets' = Least(resets + 1, MaxResets)
    /\ failedPolls' = 0
    /\ wait' = delay(resets + 1)

\* Closing a session drops the token and the socket.
closeSessionLocked == token' = "none" /\ wsConn' = "none"

----------------------------------------------------------------------------
(* A poll                                                                   *)

GetPowerData(p) ==
    /\ pc[p] = "idle"
    /\ Goto(p, "ensure")
    /\ left' = [left EXCEPT ![p] = Registers]
    /\ retried' = [retried EXCEPT ![p] = FALSE]
    /\ strikes' = [q \in Poller |->
                     IF q # p \/ ~Alone(p) \/ resets > 0 \/ module # "ok" THEN 2
                     ELSE IF token = "stale" \/ wsConn = "dead" THEN 1 ELSE 0]
    /\ logins' = IF Alone(p) THEN logins ELSE 0
    /\ UNCHANGED <<client, held, cancelled, module>>

\* Mutant: a client without a session replaces it like a dead one, which
\* starts the backoff again with every poll.
ensureSessionAlwaysPings(p) ==
    /\ pc[p] = "ensure"
    /\ Goto(p, "ping")
    /\ UNCHANGED <<client, held, left, retried, cancelled, module, logins, strikes>>

ensureSession(p) ==
    /\ pc[p] = "ensure"
    /\ Goto(p, IF token # "none" THEN "ping" ELSE "backoff")
    /\ UNCHANGED <<client, held, left, retried, cancelled, module, logins, strikes>>

\* The keepalive, over the socket.  A superseded session still answers it; so
\* do result codes other than those of a rejected token.  The library closes
\* a socket whose exchange is cancelled; the token stays.
ping(p) ==
    /\ pc[p] = "ping"
    /\ \/ /\ wsConn = "open" /\ ~cancelled[p] /\ module # "failing"
          /\ Goto(p, "read")
          /\ UNCHANGED wsConn
       \/ /\ cancelled[p]
          /\ Goto(p, "bad")
          /\ wsConn' \in {wsConn, IF wsConn = "open" THEN "dead" ELSE wsConn}
       \/ /\ wsConn # "open" \/ module # "ok"
          /\ ~cancelled[p]
          /\ Goto(p, "replace")
          /\ UNCHANGED wsConn
    /\ UNCHANGED <<token, failedPolls, resets, wait, held, left, retried,
                   cancelled, module, logins, strikes>>

\* Mutant: replacing a session does not count towards the backoff.
replaceSessionAtOnce(p) ==
    /\ pc[p] = "replace"
    /\ closeSessionLocked
    /\ Goto(p, "backoff")
    /\ UNCHANGED <<failedPolls, resets, wait, held, left, retried, cancelled,
                   module, logins, strikes>>

replaceSession(p) ==
    /\ pc[p] = "replace"
    /\ closeSessionLocked
    /\ scheduleReconnectLocked
    /\ Goto(p, "backoff")
    /\ UNCHANGED <<held, left, retried, cancelled, module, logins, strikes>>

waitForBackoff(p) ==
    /\ pc[p] = "backoff"
    /\ Goto(p, IF wait > 0 THEN "bad" ELSE "connect")
    /\ UNCHANGED <<client, held, left, retried, cancelled, module, logins, strikes>>

\* The module makes every earlier session stale.
Supersede == held' = [p \in Poller |-> IF held[p] = "live" THEN "stale"
                                       ELSE held[p]]

\* Connect closes the session there is, dials, logs in and asks for the
\* devices, all under the lock.  When it fails, the login may have gone through.
Connect(p) ==
    /\ pc[p] = "connect"
    /\ \/ /\ ~cancelled[p] /\ module # "failing"
          /\ token' = "live" /\ wsConn' = "open"
          /\ Supersede
          /\ Goto(p, "read")
       \/ /\ cancelled[p] \/ module # "ok"
          /\ closeSessionLocked
          /\ Supersede \/ UNCHANGED held
          /\ Goto(p, IF cancelled[p] THEN "bad" ELSE "schedule")
    /\ logins' = IF cancelled[p] \/ ~Alone(p) THEN logins
                 ELSE Least(logins + 1, MaxResets + 2)
    /\ UNCHANGED <<failedPolls, resets, wait, left, retried, cancelled, module,
                   strikes>>

\* reconnect, when Connect failed.
reconnectFailed(p) ==
    /\ pc[p] = "schedule"
    /\ scheduleReconnectLocked
    /\ Goto(p, "bad")
    /\ UNCHANGED <<token, wsConn, held, left, retried, cancelled, module, logins,
                   strikes>>

\* readRegister copies the token under the lock and sends it after.
readRegister(p) ==
    /\ pc[p] = "read"
    /\ held' = [held EXCEPT ![p] = token]
    /\ Goto(p, IF token = "none" THEN "bad" ELSE "request")
    /\ UNCHANGED <<client, left, retried, cancelled, module, logins, strikes>>

RegisterRead(p) ==
    /\ pc[p] = "request"
    /\ ~cancelled[p] /\ held[p] = "live" /\ module # "failing"
    /\ left' = [left EXCEPT ![p] = @ - 1]
    /\ retried' = [retried EXCEPT ![p] = FALSE]
    /\ held' = [held EXCEPT ![p] = "none"]
    /\ Goto(p, IF left[p] = 1 THEN "good" ELSE "read")
    /\ UNCHANGED <<client, cancelled, module, logins, strikes>>

\* Mutant: only 106 and 401 replace a session; 120 is an error like others.
SupersededIsAnError(p) ==
    /\ pc[p] = "request"
    /\ ~cancelled[p] /\ module # "failing"
    /\ held[p] = "stale" \/ module = "rejecting"
    /\ IF held[p] = "stale" \/ retried[p] THEN Goto(p, "bad") /\ UNCHANGED retried
       ELSE Goto(p, "replace") /\ retried' = [retried EXCEPT ![p] = TRUE]
    /\ held' = [held EXCEPT ![p] = "none"]
    /\ UNCHANGED <<client, left, cancelled, module, logins, strikes>>

\* Status 401, or result code 106, 401 or 120: readRegisterWithRetry replaces
\* the session and reads once more.
TokenExpired(p) ==
    /\ pc[p] = "request"
    /\ ~cancelled[p] /\ module # "failing"
    /\ held[p] = "stale" \/ module = "rejecting"
    /\ IF retried[p] THEN Goto(p, "bad") /\ UNCHANGED retried
       ELSE Goto(p, "replace") /\ retried' = [retried EXCEPT ![p] = TRUE]
    /\ held' = [held EXCEPT ![p] = "none"]
    /\ UNCHANGED <<client, left, cancelled, module, logins, strikes>>

\* Any other failure: transport, status, body, result code or value.
ReadFails(p) ==
    /\ pc[p] = "request"
    /\ cancelled[p] \/ module # "ok"
    /\ held' = [held EXCEPT ![p] = "none"]
    /\ Goto(p, "bad")
    /\ UNCHANGED <<client, left, retried, cancelled, module, logins, strikes>>

\* recordPoll after a good poll.
recordGood(p) ==
    /\ pc[p] = "good"
    /\ failedPolls' = 0 /\ resets' = 0 /\ wait' = 0
    /\ logins' = 0
    /\ Goto(p, "idle")
    /\ cancelled' = [cancelled EXCEPT ![p] = FALSE]
    /\ UNCHANGED <<token, wsConn, held, left, retried, module, strikes>>

\* recordPoll after a failed one: cancellations and failures without a
\* session do not count, and the session that fails too often is abandoned.
recordBad(p) ==
    /\ pc[p] = "bad"
    /\ LET counts == ~cancelled[p] /\ token # "none"
       IN  \/ ~counts /\ UNCHANGED client
           \/ /\ counts /\ failedPolls + 1 < sessionResetAfter
              /\ failedPolls' = failedPolls + 1
              /\ UNCHANGED <<token, wsConn, resets, wait>>
           \/ /\ counts /\ failedPolls + 1 >= sessionResetAfter
              /\ scheduleReconnectLocked
              /\ closeSessionLocked
    /\ Goto(p, "idle")
    /\ cancelled' = [cancelled EXCEPT ![p] = FALSE]
    /\ UNCHANGED <<held, left, retried, module, logins, strikes>>

----------------------------------------------------------------------------
(* The surroundings                                                         *)

\* The request that forced the refresh is given up by its client.
Cancel ==
    /\ pc["refresh"] # "idle" /\ ~cancelled["refresh"]
    /\ cancelled' = [cancelled EXCEPT !["refresh"] = TRUE]
    /\ UNCHANGED <<client, pc, held, left, retried, module, logins, strikes>>

\* Somebody logs in to the module's web interface.
ForeignLogin ==
    /\ token' = IF token = "live" THEN "stale" ELSE token
    /\ Supersede
    /\ strikes' = [p \in Poller |-> Least(strikes[p] + 1, 2)]
    /\ UNCHANGED <<wsConn, failedPolls, resets, wait, pc, left, retried,
                   cancelled, module, logins>>

\* The module or the network drops the connection.
ConnectionLost ==
    /\ wsConn = "open" /\ wsConn' = "dead"
    /\ strikes' = [p \in Poller |-> Least(strikes[p] + 1, 2)]
    /\ UNCHANGED <<token, failedPolls, resets, wait, poll, module, logins>>

\* "rejecting": logins succeed but the sessions are refused, or not; "failing":
\* nothing works.
ModuleChanges ==
    /\ \E m \in {"ok", "rejecting", "failing"} \ {module} : module' = m
    /\ strikes' = [p \in Poller |-> 2]
    /\ UNCHANGED <<client, poll, logins>>

Elapse ==
    /\ wait > 0
    /\ wait' = wait - 1
    /\ UNCHANGED <<token, wsConn, failedPolls, resets, poll, module, logins,
                   strikes>>

Init ==
    /\ token = "none" /\ wsConn = "none" /\ failedPolls = 0 /\ resets = 0 /\ wait = 0
    /\ pc = [p \in Poller |-> "idle"]
    /\ held = [p \in Poller |-> "none"]
    /\ left = [p \in Poller |-> 0]
    /\ retried = [p \in Poller |-> FALSE]
    /\ cancelled = [p \in Poller |-> FALSE]
    /\ module = "ok"
    /\ logins = 0
    /\ strikes = [p \in Poller |-> 0]

Poll(p) ==
    \/ GetPowerData(p) \/ ensureSession(p) \/ ping(p) \/ replaceSession(p)
    \/ waitForBackoff(p) \/ Connect(p) \/ reconnectFailed(p) \/ readRegister(p)
    \/ RegisterRead(p) \/ TokenExpired(p) \/ ReadFails(p)
    \/ recordGood(p) \/ recordBad(p)

Next ==
    \/ \E p \in Poller : Poll(p)
    \/ Cancel \/ ForeignLogin \/ ConnectionLost \/ ModuleChanges \/ Elapse

Spec == Init /\ [][Next]_vars

\* The ticker keeps polling, requests time out, and time passes.
FairSpec == Spec /\ WF_vars(Poll("run")) /\ WF_vars(Elapse)

----------------------------------------------------------------------------
(* Properties                                                               *)

\* The fields of SungrowClient and the steps of its polls.  A session is
\* given up before sessionResetAfter failures are counted, and no wait is
\* longer than reconnectBackoffMax.
TypeOK ==
    /\ token \in Token
    /\ wsConn \in {"none", "open", "dead"}
    /\ failedPolls \in 0 .. sessionResetAfter - 1
    /\ resets \in 0 .. MaxResets
    /\ wait \in 0 .. reconnectBackoffMax
    /\ pc \in [Poller -> Step]
    /\ held \in [Poller -> Token]
    /\ left \in [Poller -> 0 .. Registers]
    /\ retried \in [Poller -> BOOLEAN]
    /\ cancelled \in [Poller -> BOOLEAN]
    /\ module \in {"ok", "rejecting", "failing"}
    /\ logins \in Nat
    /\ strikes \in [Poller -> 0 .. 2]

\* README, "Backs off between repeated logins": every login after the first
\* is paid for by a reset, whose delay spaces them out, as long as polls do
\* not overlap.  Logins of polls that are cancelled meanwhile do not count.
LoginsBackedOff == resets < MaxResets => logins <= resets + 1

\* README, "another login now causes no missed update": a poll of a healthy
\* module that no other poll overlaps does not fail, although one thing goes
\* wrong before or during it: a foreign login, or the loss of the socket, also
\* by the cancelled keepalive of an earlier poll.
NoMissedUpdate == \A p \in Poller : pc[p] = "bad" => strikes[p] = 2 \/ cancelled[p]

\* Whatever session, counters and backoff earlier faults and overlapping
\* polls left behind, the loop reads a healthy module again.
RunRecovers ==
    /\ <>[](module = "ok" /\ pc["refresh"] = "idle")
    /\ <>[][~ForeignLogin]_vars
    => []<>(pc["run"] = "good")
=============================================================================
