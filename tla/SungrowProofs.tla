--------------------------- MODULE SungrowProofs ---------------------------
(***************************************************************************)
(* Proofs about Sungrow, for every number of registers, failure threshold  *)
(* and backoff schedule: the types with the limits of counters and waits,  *)
(* logins that are backed off, polls that one foreign login does not make  *)
(* fail, and the power that the registers' bytes stand for.                *)
(***************************************************************************)
EXTENDS MCSungrow, SequenceTheorems, TLAPS

\* What holds of the counters whatever the schedule's parameters are.
LEMMA Constants == MaxResets \in Nat /\ MaxResets >= 2
  BY SungrowAssumption

----------------------------------------------------------------------------
(* Types                                                                    *)

\* The powers of two that the capped shift can produce.
LEMMA Powers == \A k \in 0 .. 16 : 2 ^ k \in Nat
  <1> SUFFICES ASSUME NEW k \in 0 .. 16 PROVE 2 ^ k \in Nat
    OBVIOUS
  <1>1. \/ k = 0 \/ k = 1 \/ k = 2 \/ k = 3 \/ k = 4 \/ k = 5 \/ k = 6
        \/ k = 7 \/ k = 8 \/ k = 9 \/ k = 10 \/ k = 11 \/ k = 12
        \/ k = 13 \/ k = 14 \/ k = 15 \/ k = 16
    OBVIOUS
  <1>2. /\ 2 ^ 0 \in Nat /\ 2 ^ 1 \in Nat /\ 2 ^ 2 \in Nat /\ 2 ^ 3 \in Nat
        /\ 2 ^ 4 \in Nat /\ 2 ^ 5 \in Nat /\ 2 ^ 6 \in Nat /\ 2 ^ 7 \in Nat
        /\ 2 ^ 8 \in Nat /\ 2 ^ 9 \in Nat /\ 2 ^ 10 \in Nat
        /\ 2 ^ 11 \in Nat /\ 2 ^ 12 \in Nat /\ 2 ^ 13 \in Nat
        /\ 2 ^ 14 \in Nat /\ 2 ^ 15 \in Nat /\ 2 ^ 16 \in Nat
    OBVIOUS
  <1> QED
    BY <1>1, <1>2

\* However often the session was reset, the wait has its limit.
LEMMA DelayBounded ==
    ASSUME NEW n \in Nat PROVE delay(n) \in 0 .. reconnectBackoffMax
  <1>1. reconnectBackoffBase \in Nat /\ reconnectBackoffMax \in Nat
    BY SungrowAssumption
  <1>2. CASE n > 1
    <2>1. Least(n - 2, 16) \in 0 .. 16
      BY <1>2 DEF Least
    <2>2. PICK x \in Nat : x = 2 ^ Least(n - 2, 16)
      BY <2>1, Powers
    <2>3. reconnectBackoffBase * x \in Nat
      BY <1>1, <2>2
    <2>4. delay(n) = Least(reconnectBackoffBase * x, reconnectBackoffMax)
      BY <1>2, <2>2 DEF delay
    <2> QED
      BY <1>1, <2>3, <2>4 DEF Least
  <1>3. CASE ~(n > 1)
    BY <1>1, <1>3 DEF delay
  <1> QED
    BY <1>2, <1>3

\* What a reset leaves in the counters.
LEMMA Reset ==
    ASSUME TypeOK, scheduleReconnectLocked
    PROVE  /\ resets' \in 1 .. MaxResets /\ failedPolls' = 0
           /\ wait' \in 0 .. reconnectBackoffMax
           /\ resets = 0 => resets' = 1 /\ wait' = 0
  <1>1. resets \in Nat /\ resets <= MaxResets
    BY Constants DEF TypeOK
  <1>2. wait' \in 0 .. reconnectBackoffMax
    BY <1>1, DelayBounded DEF scheduleReconnectLocked
  <1>3. resets' \in 1 .. MaxResets /\ (resets = 0 => resets' = 1)
    BY <1>1, Constants DEF scheduleReconnectLocked, Least
  <1>4. resets = 0 => wait' = 0
    BY DEF scheduleReconnectLocked, delay
  <1> QED
    BY <1>2, <1>3, <1>4 DEF scheduleReconnectLocked

\* A poll that reads has a register left to read: without this TypeOK would
\* not be inductive.
Remaining ==
    \A p \in Poller : pc[p] \notin {"idle", "good", "bad"} => left[p] >= 1

\* A poll reads on only as long as there are registers.
LEMMA RemainingStep == TypeOK /\ Remaining /\ [Next]_vars => Remaining'
  <1> SUFFICES ASSUME TypeOK, Remaining, [Next]_vars PROVE Remaining'
    OBVIOUS
  <1>0. /\ pc \in [Poller -> Step] /\ left \in [Poller -> 0 .. Registers]
        /\ Registers >= 1 /\ Registers \in Nat
    BY SungrowAssumption DEF TypeOK
  <1>1. ASSUME NEW p \in Poller, GetPowerData(p) \/ RegisterRead(p)
        PROVE Remaining'
    BY <1>0, <1>1 DEF Remaining, GetPowerData, RegisterRead, Goto
  <1>2. ASSUME NEW p \in Poller,
               \/ ensureSession(p) \/ ping(p) \/ replaceSession(p)
               \/ waitForBackoff(p) \/ Connect(p) \/ reconnectFailed(p)
               \/ readRegister(p) \/ TokenExpired(p) \/ ReadFails(p)
               \/ recordGood(p) \/ recordBad(p)
        PROVE Remaining'
    <2>1. UNCHANGED left
      BY <1>2 DEF ensureSession, ping, replaceSession, waitForBackoff, Connect,
                  reconnectFailed, readRegister, TokenExpired, ReadFails,
                  recordGood, recordBad
    <2>2. /\ \A q \in Poller : q # p => pc'[q] = pc[q]
          /\ pc[p] \in {"idle", "good", "bad"}
               => pc'[p] \in {"idle", "good", "bad"}
      BY <1>0, <1>2
         DEF ensureSession, ping, replaceSession, waitForBackoff, Connect,
             reconnectFailed, readRegister, TokenExpired, ReadFails,
             recordGood, recordBad, Goto
    <2> QED
      BY <2>1, <2>2 DEF Remaining
  <1>3. CASE \/ Cancel \/ ForeignLogin \/ ConnectionLost \/ ModuleChanges
             \/ Elapse \/ UNCHANGED vars
    BY <1>3 DEF Remaining, Cancel, ForeignLogin, ConnectionLost, ModuleChanges,
                Elapse, poll, vars
  <1> QED
    BY <1>1, <1>2, <1>3 DEF Next, Poll

\* Every step keeps the types.
LEMMA TypeStep == TypeOK /\ Remaining /\ [Next]_vars => TypeOK'
  <1> SUFFICES ASSUME TypeOK, Remaining, [Next]_vars PROVE TypeOK'
    OBVIOUS
  <1> USE SungrowAssumption DEF TypeOK, Goto, Token, Step
  <1>1. ASSUME NEW p \in Poller, GetPowerData(p) PROVE TypeOK'
    BY <1>1 DEF GetPowerData, client
  <1>2. ASSUME NEW p \in Poller, ensureSession(p) PROVE TypeOK'
    BY <1>2 DEF ensureSession, client
  <1>3. ASSUME NEW p \in Poller, ping(p) PROVE TypeOK'
    BY <1>3 DEF ping, client
  <1>4. ASSUME NEW p \in Poller, replaceSession(p) PROVE TypeOK'
    BY <1>4, Reset, Constants DEF replaceSession, closeSessionLocked
  <1>5. ASSUME NEW p \in Poller, waitForBackoff(p) PROVE TypeOK'
    BY <1>5 DEF waitForBackoff, client
  <1>6. ASSUME NEW p \in Poller, Connect(p) PROVE TypeOK'
    <2>1. /\ token' \in Token /\ held' \in [Poller -> Token]
          /\ wsConn' \in {"none", "open", "dead"}
      BY <1>6 DEF Connect, closeSessionLocked, Supersede
    <2>2. pc' \in [Poller -> Step]
      BY <1>6 DEF Connect
    <2>3. logins' \in Nat
      BY <1>6, Constants DEF Connect, Least
    <2> QED
      BY <1>6, <2>1, <2>2, <2>3 DEF Connect
  <1>7. ASSUME NEW p \in Poller, reconnectFailed(p) PROVE TypeOK'
    BY <1>7, Reset, Constants DEF reconnectFailed
  <1>8. ASSUME NEW p \in Poller, readRegister(p) PROVE TypeOK'
    BY <1>8 DEF readRegister, client
  <1>9. ASSUME NEW p \in Poller, RegisterRead(p) PROVE TypeOK'
    BY <1>9 DEF RegisterRead, client, Remaining
  <1>10. ASSUME NEW p \in Poller, TokenExpired(p) PROVE TypeOK'
    BY <1>10 DEF TokenExpired, client
  <1>11. ASSUME NEW p \in Poller, ReadFails(p) PROVE TypeOK'
    BY <1>11 DEF ReadFails, client
  <1>12. ASSUME NEW p \in Poller, recordGood(p) PROVE TypeOK'
    BY <1>12 DEF recordGood
  <1>13. ASSUME NEW p \in Poller, recordBad(p) PROVE TypeOK'
    BY <1>13, Reset, Constants DEF recordBad, client, closeSessionLocked
  <1>14. CASE Cancel
    BY <1>14 DEF Cancel, client
  <1>15. CASE ForeignLogin
    BY <1>15 DEF ForeignLogin, Supersede, Least
  <1>16. CASE ModuleChanges
    BY <1>16 DEF ModuleChanges, client, poll
  <1>17. CASE Elapse
    BY <1>17 DEF Elapse, poll
  <1>18. CASE UNCHANGED vars
    BY <1>18 DEF vars, client, poll
  <1>19. CASE ConnectionLost
    BY <1>19 DEF ConnectionLost, poll, Least
  <1> QED
    BY <1>1, <1>2, <1>3, <1>4, <1>5, <1>6, <1>7, <1>8, <1>9, <1>10, <1>11,
       <1>12, <1>13, <1>14, <1>15, <1>16, <1>17, <1>18, <1>19 DEF Next, Poll

\* Counters and waits keep their limits, for every schedule.
THEOREM SungrowTyped == Spec => []TypeOK
  <1>1. Init => TypeOK /\ Remaining
    BY SungrowAssumption, Constants DEF Init, TypeOK, Remaining, Token, Step
  <1> QED
    BY <1>1, TypeStep, RemainingStep, PTL DEF Spec

----------------------------------------------------------------------------
(* Logins                                                                   *)

\* The part of TypeOK that counting needs.
Counting ==
    /\ token \in Token
    /\ pc \in [Poller -> Step]
    /\ resets \in Nat /\ logins \in Nat

\* LoginsBackedOff is not inductive: a poll about to log in must not have
\* used up its allowance.  A login that no reset has paid for yet left a
\* session behind, or a failure about to be scheduled, and nobody is on the
\* way to another login.
Paid ==
    \/ logins <= resets
    \/ resets >= MaxResets
    \/ /\ logins = resets + 1
       /\ token # "none" \/ \E p \in Poller : pc[p] = "schedule"
       /\ \A p \in Poller : pc[p] \notin {"backoff", "connect"}
       /\ \A p, q \in Poller : pc[p] # "idle" /\ pc[q] # "idle" => p = q

\* Every login is paid for: the inductive step, one case per action.
LEMMA StaysPaid == Counting /\ Paid /\ [Next]_vars => Paid'
  <1> SUFFICES ASSUME Counting, Paid, [Next]_vars PROVE Paid'
    OBVIOUS
  <1> USE DEF Counting, Paid, Goto, Least, Token, Step
  <1>1. ASSUME NEW p \in Poller, GetPowerData(p) PROVE Paid'
    <2>1. CASE Alone(p)
      BY <1>1, <2>1 DEF GetPowerData, client, Alone
    <2>2. CASE ~Alone(p)
      BY <1>1, <2>2 DEF GetPowerData, client
    <2> QED
      BY <2>1, <2>2
  <1>2. ASSUME NEW p \in Poller, ensureSession(p) PROVE Paid'
    BY <1>2 DEF ensureSession, client
  <1>3. ASSUME NEW p \in Poller, ping(p) PROVE Paid'
    BY <1>3 DEF ping, client
  <1>4. ASSUME NEW p \in Poller, replaceSession(p) PROVE Paid'
    BY <1>4, Constants
       DEF replaceSession, closeSessionLocked, scheduleReconnectLocked
  <1>5. ASSUME NEW p \in Poller, waitForBackoff(p) PROVE Paid'
    BY <1>5 DEF waitForBackoff, client
  <1>6. ASSUME NEW p \in Poller, Connect(p) PROVE Paid'
    <2>1. logins <= resets \/ resets >= MaxResets
      BY <1>6 DEF Connect
    <2>2. CASE cancelled[p] \/ ~Alone(p)
      BY <1>6, <2>1, <2>2 DEF Connect
    <2>3. CASE ~cancelled[p] /\ Alone(p)
      BY <1>6, <2>1, <2>3, Constants DEF Connect, Alone, closeSessionLocked
    <2> QED
      BY <2>2, <2>3
  <1>7. ASSUME NEW p \in Poller, reconnectFailed(p) PROVE Paid'
    BY <1>7, Constants DEF reconnectFailed, scheduleReconnectLocked
  <1>8. ASSUME NEW p \in Poller, readRegister(p) PROVE Paid'
    BY <1>8 DEF readRegister, client
  <1>9. ASSUME NEW p \in Poller, RegisterRead(p) PROVE Paid'
    BY <1>9 DEF RegisterRead, client
  <1>10. ASSUME NEW p \in Poller, TokenExpired(p) PROVE Paid'
    BY <1>10 DEF TokenExpired, client
  <1>11. ASSUME NEW p \in Poller, ReadFails(p) PROVE Paid'
    BY <1>11 DEF ReadFails, client
  <1>12. ASSUME NEW p \in Poller, recordGood(p) PROVE Paid'
    BY <1>12 DEF recordGood
  <1>13. ASSUME NEW p \in Poller, recordBad(p) PROVE Paid'
    <2>1. CASE UNCHANGED client
      BY <1>13, <2>1 DEF recordBad, client
    <2>2. CASE UNCHANGED <<token, resets, wait>>
      BY <1>13, <2>2 DEF recordBad
    <2>3. CASE scheduleReconnectLocked /\ closeSessionLocked
      BY <1>13, <2>3, Constants
         DEF recordBad, scheduleReconnectLocked, closeSessionLocked
    <2> QED
      BY <1>13, <2>1, <2>2, <2>3 DEF recordBad
  <1>14. CASE Cancel
    BY <1>14 DEF Cancel, client
  <1>15. CASE ForeignLogin
    BY <1>15 DEF ForeignLogin
  <1>16. CASE ModuleChanges
    BY <1>16 DEF ModuleChanges, client, poll
  <1>17. CASE Elapse
    BY <1>17 DEF Elapse, poll
  <1>18. CASE UNCHANGED vars
    BY <1>18 DEF vars, client, poll
  <1>19. CASE ConnectionLost
    BY <1>19 DEF ConnectionLost, poll
  <1> QED
    BY <1>1, <1>2, <1>3, <1>4, <1>5, <1>6, <1>7, <1>8, <1>9, <1>10, <1>11,
       <1>12, <1>13, <1>14, <1>15, <1>16, <1>17, <1>18, <1>19 DEF Next, Poll

\* For every register count, failure threshold and backoff schedule, polls
\* that do not overlap log in once more than the backoff counts, at most.
THEOREM LoginsAlwaysBackedOff == Spec => []LoginsBackedOff
  <1>1. Init => Paid
    BY DEF Init, Paid
  <1>2. TypeOK => Counting
    BY Constants DEF TypeOK, Counting
  <1>3. Counting /\ Paid => LoginsBackedOff
    BY Constants DEF Counting, Paid, LoginsBackedOff
  <1> QED
    BY <1>1, <1>2, <1>3, StaysPaid, SungrowTyped, PTL DEF Spec

----------------------------------------------------------------------------
(* Missed updates                                                           *)

\* A poll that nothing has disturbed more than once.
Undisturbed(p) == pc[p] # "idle" /\ strikes[p] < 2 /\ ~cancelled[p]

\* What such a poll meets: a healthy module that nobody else polls and no wait.
\* It resets the session at most once, for the one login that superseded it or
\* for its dead socket, and its token is the module's afterwards.
Smooth(p) ==
    /\ module = "ok" /\ wait = 0
    /\ \A q \in Poller : q # p => pc[q] = "idle"
    /\ pc[p] \notin {"schedule", "bad"}
    /\ resets <= strikes[p]
    /\ token = "stale" => strikes[p] = 1
    /\ pc[p] \in {"ensure", "ping"} =>
          resets = 0 /\ (wsConn = "dead" => strikes[p] = 1)
    /\ pc[p] = "replace" => resets = 0 /\ strikes[p] = 1
    /\ pc[p] \in {"ping", "read", "request"} => token # "none"
    /\ pc[p] = "request" => held[p] # "none"
    /\ pc[p] = "request" /\ held[p] = "stale" => strikes[p] = 1 /\ resets = 0
    /\ resets = 1 /\ pc[p] \notin {"backoff", "connect"} => token = "live"
    /\ retried[p] => resets = 1 \/ pc[p] = "replace"

\* NoMissedUpdate is a consequence; no wait is left behind where no reset is
\* counted, and a session has a socket.
SmoothInv ==
    /\ resets = 0 => wait = 0
    /\ token = "none" <=> wsConn = "none"
    /\ \A p \in Poller : Undisturbed(p) => Smooth(p)

\* The steps of a poll up to the session it reads with ...
Opening(p) ==
    \/ GetPowerData(p) \/ ensureSession(p) \/ ping(p) \/ replaceSession(p)
    \/ waitForBackoff(p) \/ Connect(p) \/ reconnectFailed(p)

\* ... and those that read and end.
Reading(p) ==
    \/ readRegister(p) \/ RegisterRead(p) \/ TokenExpired(p) \/ ReadFails(p)
    \/ recordGood(p) \/ recordBad(p)

\* What a step of one poll leaves of the other, and how it ends.
LEMMA OtherPoll ==
    ASSUME TypeOK, NEW p \in Poller, NEW q \in Poller, q # p, Poll(p)
    PROVE  /\ pc'[q] = pc[q] /\ cancelled'[q] = cancelled[q]
           /\ IF pc[p] = "idle" THEN strikes'[q] = 2 ELSE UNCHANGED strikes
  <1>0. /\ pc \in [Poller -> Step] /\ cancelled \in [Poller -> BOOLEAN]
        /\ strikes \in [Poller -> 0 .. 2]
    BY DEF TypeOK
  <1>1. CASE Opening(p)
    BY <1>0, <1>1
       DEF Opening, GetPowerData, ensureSession, ping, replaceSession,
           waitForBackoff, Connect, reconnectFailed, Goto
  <1>2. CASE Reading(p)
    BY <1>0, <1>2
       DEF Reading, readRegister, RegisterRead, TokenExpired, ReadFails,
           recordGood, recordBad, Goto
  <1> QED
    BY <1>1, <1>2 DEF Poll, Opening, Reading

\* A poll that is undisturbed after a step of its own was so before, or starts.
LEMMA OwnPoll ==
    ASSUME TypeOK, NEW p \in Poller, Poll(p), Undisturbed(p)'
    PROVE  GetPowerData(p) \/ Undisturbed(p)
  <1>0. /\ pc \in [Poller -> Step] /\ cancelled \in [Poller -> BOOLEAN]
        /\ strikes \in [Poller -> 0 .. 2]
    BY DEF TypeOK
  <1>1. CASE Opening(p)
    BY <1>0, <1>1
       DEF Opening, Undisturbed, GetPowerData, ensureSession, ping,
           replaceSession, waitForBackoff, Connect, reconnectFailed, Goto
  <1>2. CASE Reading(p)
    BY <1>0, <1>2
       DEF Reading, Undisturbed, readRegister, RegisterRead, TokenExpired,
           ReadFails, recordGood, recordBad, Goto
  <1> QED
    BY <1>1, <1>2 DEF Poll, Opening, Reading

\* A poll of a healthy module starts with no wait and at most one strike.
LEMMA StartSmooth ==
    ASSUME TypeOK, SmoothInv, NEW p \in Poller, GetPowerData(p), Undisturbed(p)'
    PROVE  Smooth(p)'
  <1>0. /\ pc \in [Poller -> Step] /\ strikes \in [Poller -> 0 .. 2]
        /\ retried \in [Poller -> BOOLEAN] /\ resets \in Nat
        /\ token \in Token
    BY Constants DEF TypeOK
  <1>1. /\ Alone(p) /\ resets = 0 /\ module = "ok"
        /\ strikes'[p] = IF token = "stale" \/ wsConn = "dead" THEN 1 ELSE 0
    BY <1>0 DEF GetPowerData, Undisturbed
  <1>2. /\ pc'[p] = "ensure" /\ ~retried'[p]
        /\ \A q \in Poller : q # p => pc'[q] = pc[q]
        /\ UNCHANGED <<token, wsConn, resets, wait, module>>
    BY <1>0 DEF GetPowerData, Goto, client
  <1> QED
    BY <1>1, <1>2 DEF SmoothInv, Smooth, Alone

\* It stays so at its own steps.
LEMMA StaysSmooth ==
    ASSUME TypeOK, NEW p \in Poller, Poll(p), Undisturbed(p), Smooth(p),
           token = "none" <=> wsConn = "none", Undisturbed(p)'
    PROVE  Smooth(p)'
  <1>0. /\ pc \in [Poller -> Step] /\ strikes \in [Poller -> 0 .. 2]
        /\ retried \in [Poller -> BOOLEAN] /\ resets \in Nat
        /\ cancelled \in [Poller -> BOOLEAN] /\ left \in [Poller -> 0 .. Registers]
        /\ token \in Token /\ held \in [Poller -> Token]
        /\ wsConn \in {"none", "open", "dead"}
    BY Constants DEF TypeOK
  <1> USE <1>0 DEF Undisturbed, Goto, Token
  <1>1. CASE ensureSession(p)
    BY <1>1 DEF Smooth, ensureSession, client
  <1>2. CASE ping(p)
    BY <1>2 DEF Smooth, ping, client
  <1>3. CASE replaceSession(p)
    <2>1. /\ resets' = 1 /\ wait' = 0 /\ token' = "none" /\ strikes'[p] = 1
          /\ pc'[p] = "backoff" /\ module' = "ok"
          /\ \A q \in Poller : q # p => pc'[q] = "idle"
      BY <1>3, Reset DEF replaceSession, closeSessionLocked, Smooth
    <2> QED
      BY <2>1 DEF Smooth
  <1>4. CASE waitForBackoff(p)
    BY <1>4 DEF Smooth, waitForBackoff, client
  <1>5. CASE Connect(p)
    <2>1. /\ token' = "live" /\ pc'[p] = "read"
          /\ \A q \in Poller : q # p => pc'[q] = "idle"
          /\ UNCHANGED <<resets, wait, module, strikes, retried>>
      BY <1>5 DEF Connect, Smooth
    <2> QED
      BY <1>5, <2>1 DEF Smooth, Connect
  <1>6. CASE readRegister(p)
    <2>1. /\ pc'[p] = "request" /\ held'[p] = token
          /\ \A q \in Poller : q # p => pc'[q] = "idle"
          /\ UNCHANGED <<token, resets, wait, module, strikes, retried>>
      BY <1>6 DEF readRegister, Smooth, client
    <2> QED
      BY <1>6, <2>1 DEF Smooth, readRegister
  <1>7. CASE RegisterRead(p)
    <2>1. /\ pc'[p] \in {"good", "read"} /\ ~retried'[p] /\ token # "none"
          /\ pc[p] = "request"
          /\ \A q \in Poller : q # p => pc'[q] = "idle"
          /\ UNCHANGED <<token, resets, wait, module, strikes>>
      BY <1>7 DEF RegisterRead, Smooth, client
    <2> QED
      BY <2>1 DEF Smooth
  <1>8. CASE TokenExpired(p)
    <2>1. held[p] = "stale" /\ pc[p] = "request"
      BY <1>8 DEF TokenExpired, Smooth
    <2>2. resets = 0 /\ strikes[p] = 1 /\ ~retried[p]
      BY <2>1 DEF Smooth
    <2>3. /\ pc'[p] = "replace"
          /\ \A q \in Poller : q # p => pc'[q] = "idle"
          /\ UNCHANGED <<token, resets, wait, module, strikes>>
      BY <1>8, <2>2 DEF TokenExpired, Smooth, client
    <2> QED
      BY <2>2, <2>3 DEF Smooth
  <1>9. ~ReadFails(p) /\ ~reconnectFailed(p) /\ ~recordBad(p) /\ ~GetPowerData(p)
    BY DEF ReadFails, reconnectFailed, recordBad, GetPowerData, Smooth
  <1>10. ~recordGood(p)
    BY DEF recordGood
  <1> QED
    BY <1>1, <1>2, <1>3, <1>4, <1>5, <1>6, <1>7, <1>8, <1>9, <1>10 DEF Poll

\* No reset, no wait: the counters are cleared together.
LEMMA NoResetNoWait ==
    ASSUME TypeOK, resets = 0 => wait = 0, [Next]_vars
    PROVE  resets' = 0 => wait' = 0
  <1>1. UNCHANGED <<resets, wait>> \/ scheduleReconnectLocked
          \/ (resets' = 0 /\ wait' = 0) \/ Elapse
    <2>1. ASSUME NEW p \in Poller, Opening(p)
          PROVE UNCHANGED <<resets, wait>> \/ scheduleReconnectLocked
      BY <2>1 DEF Opening, GetPowerData, ensureSession, ping, replaceSession,
                  waitForBackoff, Connect, reconnectFailed, client
    <2>2. ASSUME NEW p \in Poller, Reading(p)
          PROVE UNCHANGED <<resets, wait>> \/ scheduleReconnectLocked
                  \/ (resets' = 0 /\ wait' = 0)
      BY <2>2 DEF Reading, readRegister, RegisterRead, TokenExpired, ReadFails,
                  recordGood, recordBad, client
    <2>3. CASE Cancel \/ ForeignLogin \/ ConnectionLost \/ ModuleChanges
                 \/ UNCHANGED vars
      BY <2>3 DEF Cancel, ForeignLogin, ConnectionLost, ModuleChanges, client, vars
    <2> QED
      BY <2>1, <2>2, <2>3 DEF Next, Poll, Opening, Reading
  <1>2. scheduleReconnectLocked => resets' # 0
    BY Reset, Constants
  <1>3. Elapse => resets' # 0
    BY DEF Elapse
  <1> QED
    BY <1>1, <1>2, <1>3

\* The token and the socket come and go together.
LEMMA SocketKept ==
    ASSUME TypeOK, token = "none" <=> wsConn = "none", [Next]_vars
    PROVE  token' = "none" <=> wsConn' = "none"
  <1>1. ASSUME NEW p \in Poller, Opening(p)
        PROVE  token' = "none" <=> wsConn' = "none"
    BY <1>1 DEF Opening, GetPowerData, ensureSession, ping, replaceSession,
                waitForBackoff, Connect, reconnectFailed, client,
                closeSessionLocked
  <1>2. ASSUME NEW p \in Poller, Reading(p)
        PROVE  token' = "none" <=> wsConn' = "none"
    BY <1>2 DEF Reading, readRegister, RegisterRead, TokenExpired, ReadFails,
                recordGood, recordBad, client, closeSessionLocked
  <1>3. CASE \/ Cancel \/ ForeignLogin \/ ConnectionLost \/ ModuleChanges
             \/ Elapse \/ UNCHANGED vars
    BY <1>3 DEF Cancel, ForeignLogin, ConnectionLost, ModuleChanges, Elapse,
                client, vars
  <1> QED
    BY <1>1, <1>2, <1>3 DEF Next, Poll, Opening, Reading

\* The inductive step: the poll's own steps, the other poll's, the rest.
LEMMA SmoothStep == TypeOK /\ SmoothInv /\ [Next]_vars => SmoothInv'
  <1> SUFFICES ASSUME TypeOK, SmoothInv, [Next]_vars PROVE SmoothInv'
    OBVIOUS
  <1>1. resets' = 0 => wait' = 0
    BY NoResetNoWait DEF SmoothInv
  <1>3. token' = "none" <=> wsConn' = "none"
    BY SocketKept DEF SmoothInv
  <1>2. ASSUME NEW q \in Poller, Undisturbed(q)' PROVE Smooth(q)'
    <2>0. /\ strikes \in [Poller -> 0 .. 2] /\ held \in [Poller -> Token]
          /\ cancelled \in [Poller -> BOOLEAN] /\ resets \in Nat /\ token \in Token
      BY Constants DEF TypeOK
    <2>1. CASE Poll(q)
      BY <1>2, <2>1, OwnPoll, StartSmooth, StaysSmooth DEF SmoothInv
    <2>2. ASSUME NEW p \in Poller, p # q, Poll(p) PROVE FALSE
      <3>1. pc[p] # "idle" /\ Undisturbed(q)
        BY <1>2, <2>0, <2>2, OtherPoll DEF Undisturbed
      <3> QED
        BY <2>2, <3>1 DEF SmoothInv, Smooth
    <2>3. CASE ForeignLogin
      <3>1. Undisturbed(q) /\ strikes[q] = 0 /\ strikes'[q] = 1
        BY <1>2, <2>0, <2>3 DEF ForeignLogin, Undisturbed, Least
      <3>2. Smooth(q) /\ resets = 0
        BY <2>0, <3>1 DEF SmoothInv, Smooth
      <3>3. /\ UNCHANGED <<pc, wsConn, resets, wait, module, retried>>
            /\ token' = "none" <=> token = "none"
            /\ held'[q] = "none" <=> held[q] = "none"
        BY <2>0, <2>3 DEF ForeignLogin, Supersede, Token
      <3> QED
        BY <3>1, <3>2, <3>3 DEF Smooth
    <2>4. CASE ModuleChanges
      BY <1>2, <2>4 DEF ModuleChanges, Undisturbed
    <2>5. CASE Elapse
      <3>1. Undisturbed(q)
        BY <1>2, <2>5 DEF Elapse, Undisturbed, poll
      <3> QED
        BY <2>5, <3>1 DEF Elapse, SmoothInv, Smooth
    <2>6. CASE Cancel
      <3>1. Undisturbed(q)
        BY <1>2, <2>0, <2>6 DEF Cancel, Undisturbed
      <3> QED
        BY <2>6, <3>1 DEF Cancel, SmoothInv, Smooth, client
    <2>7. CASE UNCHANGED vars
      BY <1>2, <2>7 DEF vars, client, poll, SmoothInv, Smooth, Undisturbed
    <2>8. CASE ConnectionLost
      <3>1. Undisturbed(q) /\ strikes[q] = 0 /\ strikes'[q] = 1
        BY <1>2, <2>0, <2>8 DEF ConnectionLost, Undisturbed, Least, poll
      <3>2. Smooth(q) /\ resets = 0
        BY <2>0, <3>1 DEF SmoothInv, Smooth
      <3>3. UNCHANGED <<pc, token, held, resets, wait, module, retried>>
        BY <2>8 DEF ConnectionLost, poll
      <3> QED
        BY <3>1, <3>2, <3>3 DEF Smooth
    <2> QED
      BY <2>1, <2>2, <2>3, <2>4, <2>5, <2>6, <2>7, <2>8 DEF Next
  <1> QED
    BY <1>1, <1>2, <1>3 DEF SmoothInv

\* One foreign login, or one loss of the socket, before or during a poll of a
\* healthy module that no other poll overlaps, never makes it fail.
THEOREM UpdatesNotMissed == Spec => []NoMissedUpdate
  <1>1. Init => SmoothInv
    BY DEF Init, SmoothInv, Undisturbed
  <1>2. TypeOK /\ SmoothInv => NoMissedUpdate
    <2> SUFFICES ASSUME TypeOK, SmoothInv, NEW p \in Poller, pc[p] = "bad",
                        strikes[p] # 2
                 PROVE  cancelled[p]
      BY DEF NoMissedUpdate
    <2>1. strikes[p] < 2
      BY DEF TypeOK
    <2> QED
      BY <2>1 DEF SmoothInv, Smooth, Undisturbed
  <1> QED
    BY <1>1, <1>2, SmoothStep, SungrowTyped, PTL DEF Spec

----------------------------------------------------------------------------
(* The registers                                                            *)

LEMMA Patterns == Byte \in Nat \ {0} /\ Word \in Nat \ {0} /\ DoubleWord \in Nat \ {0}
<1>1. Byte \in Nat \ {0}
    BY ByteAssumption
<1>2. Word \in Nat \ {0}
    BY <1>1 DEF Word
<1> QED
    BY <1>1, <1>2 DEF DoubleWord

LEMMA Division ==
    ASSUME NEW x \in Int, NEW n \in Nat \ {0}
    PROVE  /\ (x \div n) * n + (x % n) = x
           /\ x % n \in 0 .. n - 1 /\ x \div n \in Int
    OBVIOUS

\* Two's complement: a signed value is the one its pattern stands for.
LEMMA SignRestored ==
    ASSUME NEW n \in Nat \ {0}, NEW v \in -(n \div 2) .. (n \div 2) - 1
    PROVE  AsSigned(v % n, n) = v /\ (v >= 0 => v % n = v)
<1>1. v % n = IF v < 0 THEN v + n ELSE v
    OBVIOUS
<1> QED
    BY <1>1 DEF AsSigned

\* The bytes of a word make the word.
LEMMA WordRestored ==
    ASSUME NEW w \in Int
    PROVE  (w \div Byte) * Byte + (w % Byte) = w
    BY Patterns, Division

LEMMA FourBytes ==
    ASSUME NEW x \in Seq(Int), NEW y \in Seq(Int), NEW tail \in Seq(Int),
           Len(x) = 2, Len(y) = 2
    PROVE  /\ Len((x \o y) \o tail) = 4 + Len(tail)
           /\ ((x \o y) \o tail)[1] = x[1] /\ ((x \o y) \o tail)[2] = x[2]
           /\ ((x \o y) \o tail)[3] = y[1] /\ ((x \o y) \o tail)[4] = y[2]
<1> DEFINE z == x \o y
<1>1. /\ z \in Seq(Int) /\ Len(z) = Len(x) + Len(y)
      /\ \A i \in 1 .. Len(x) + Len(y) :
            z[i] = IF i <= Len(x) THEN x[i] ELSE y[i - Len(x)]
    BY ConcatProperties
<1> HIDE DEF z
<1>2. Len(z) = 4 /\ z[1] = x[1] /\ z[2] = x[2] /\ z[3] = y[1] /\ z[4] = y[2]
    BY <1>1
<1> DEFINE bytes == z \o tail
<1>3. /\ Len(bytes) = Len(z) + Len(tail)
      /\ \A i \in 1 .. Len(z) + Len(tail) :
            bytes[i] = IF i <= Len(z) THEN z[i] ELSE tail[i - Len(z)]
  <2>1. z \in Seq(Int)
      BY <1>1
  <2> QED
      BY <2>1, ConcatProperties
<1> HIDE DEF bytes
<1>4. /\ Len(bytes) = 4 + Len(tail)
      /\ bytes[1] = z[1] /\ bytes[2] = z[2] /\ bytes[3] = z[3] /\ bytes[4] = z[4]
  <2>1. Len(tail) \in Nat
      BY LenProperties
  <2> QED
      BY <1>2, <1>3, <2>1
<1> QED
    BY <1>2, <1>4 DEF z, bytes

\* Whatever follows the four bytes of a value, its pattern is read.
LEMMA PatternRead ==
    ASSUME NEW u \in Int, NEW tail \in Seq(Int)
    PROVE  LET bytes == (WordBytes(u % Word) \o WordBytes(u \div Word)) \o tail
               w == words(bytes)
           IN  Len(bytes) \in Nat /\ Len(bytes) >= 2 /\ Len(w) # 1 /\ combined(w) = u
<1> DEFINE lo == u % Word
           hi == u \div Word
           bytes == (WordBytes(lo) \o WordBytes(hi)) \o tail
           w == words(bytes)
<1>1. lo \in Int /\ hi \in Int /\ hi * Word + lo = u
    BY Patterns, Division
<1> HIDE DEF lo, hi
<1>2. /\ lo \div Byte \in Int /\ lo % Byte \in Int
      /\ hi \div Byte \in Int /\ hi % Byte \in Int
    BY <1>1, Patterns, Division
<1>3. /\ Len(bytes) \in Nat /\ Len(bytes) >= 4
      /\ bytes[1] = lo \div Byte /\ bytes[2] = lo % Byte
      /\ bytes[3] = hi \div Byte /\ bytes[4] = hi % Byte
  <2> DEFINE x == WordBytes(lo)
             y == WordBytes(hi)
  <2>1. /\ x \in Seq(Int) /\ Len(x) = 2 /\ x[1] = lo \div Byte /\ x[2] = lo % Byte
        /\ y \in Seq(Int) /\ Len(y) = 2 /\ y[1] = hi \div Byte /\ y[2] = hi % Byte
      BY <1>2 DEF WordBytes
  <2> HIDE DEF x, y
  <2>2. /\ Len((x \o y) \o tail) = 4 + Len(tail)
        /\ ((x \o y) \o tail)[1] = x[1] /\ ((x \o y) \o tail)[2] = x[2]
        /\ ((x \o y) \o tail)[3] = y[1] /\ ((x \o y) \o tail)[4] = y[2]
      BY <2>1, FourBytes
  <2>3. bytes = (x \o y) \o tail
      BY DEF x, y
  <2> HIDE DEF bytes
  <2>4. Len(bytes) = 4 + Len(tail) /\ Len(tail) \in Nat
      BY <2>2, <2>3, LenProperties
  <2>5. Len(bytes) \in Nat /\ Len(bytes) >= 4
      BY <2>4
  <2> QED
      BY <2>1, <2>2, <2>3, <2>5
<1> HIDE DEF bytes
<1>4. w = [i \in 1 .. Len(bytes) \div 2 |-> bytes[2 * i - 1] * Byte + bytes[2 * i]]
    BY DEF words
<1>5. Len(bytes) \div 2 \in Nat /\ Len(bytes) \div 2 >= 2
    BY <1>3
<1> HIDE DEF w
<1>6. Len(w) = Len(bytes) \div 2
    BY <1>4, <1>5
<1>7. w[1] = lo /\ w[2] = hi
  <2>1. /\ w[1] = bytes[1] * Byte + bytes[2]
        /\ w[2] = bytes[3] * Byte + bytes[4]
      BY <1>4, <1>5
  <2> QED
      BY <1>1, <1>3, <2>1, WordRestored
<1>8. combined(w) = u
    BY <1>1, <1>7 DEF combined
<1>9. Len(bytes) \in Nat /\ Len(bytes) >= 2 /\ Len(w) # 1
    BY <1>3, <1>5, <1>6
<1> QED
    BY <1>8, <1>9 DEF lo, hi, bytes, w

\* The value of a register is read with its sign, whatever follows it.
LEMMA ReplyDecoded ==
    ASSUME NEW v \in Watts, NEW tail \in Seq(Int)
    PROVE  /\ parseHexRegisterValue(Reply(v) \o tail, TRUE) = v
           /\ surplusWatts(parseHexRegisterValue(Reply(v) \o tail, TRUE))
                = IF v < 0 THEN -v ELSE 0
           /\ v >= 0 => parseHexRegisterValue(Reply(v) \o tail, FALSE) = v
<1> DEFINE u == v % DoubleWord
           bytes == Reply(v) \o tail
           w == words(bytes)
<1>1. v \in Int /\ u \in Int
    BY Patterns, Division DEF Watts
<1>2. bytes = (WordBytes(u % Word) \o WordBytes(u \div Word)) \o tail
    BY DEF Reply
<1>3. AsSigned(u, DoubleWord) = v /\ (v >= 0 => u = v)
    BY Patterns, SignRestored DEF Watts
<1> HIDE DEF u, bytes
<1>4. Len(bytes) \in Nat /\ Len(bytes) >= 2 /\ Len(w) # 1 /\ combined(w) = u
    BY <1>1, <1>2, PatternRead
<1>5. ~(Len(bytes) < 2)
    BY <1>4
<1> HIDE DEF w
<1>6. /\ parseHexRegisterValue(bytes, TRUE) = v
      /\ v >= 0 => parseHexRegisterValue(bytes, FALSE) = v
    BY <1>3, <1>4, <1>5 DEF parseHexRegisterValue, w
<1>7. surplusWatts(v) = IF v < 0 THEN -v ELSE 0
    BY <1>1 DEF surplusWatts, Greater
<1> QED
    BY <1>6, <1>7 DEF bytes

LEMMA EveryReplyDecoded == AllDecodedRight
<1>1. <<>> \in Seq(Int) /\ <<1>> \in Seq(Int) /\ <<1, 0>> \in Seq(Int)
    OBVIOUS
<1>2. \A tail \in {<<>>, <<1>>, <<1, 0>>} : tail \in Seq(Int)
    BY <1>1
<1> QED
    BY <1>2, ReplyDecoded DEF AllDecodedRight, DecodedRight

\* For every size of a byte and every value a register can hold: a poll that
\* ends well hands on the power that the module measured, with its direction.
THEOREM PowerDecoded == Spec => []DecodesPower
<1>1. DecodesPower
    BY EveryReplyDecoded DEF DecodesPower
<1> QED
    BY <1>1, PTL
=============================================================================
