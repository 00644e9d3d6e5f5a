# Verification of ev-solar-charger

TLA+ models of the EV solar charger, the TLC runs that check them on small
instances, and TLAPS proofs for instances of every size. The reference is the
Go code in the repository; each module names the files it models, and
`PROJECT.json` maps each definition to its lines.

## 1. The system

The charger is one Go process. Every poll interval its *controller* reads the
household's power from a Sungrow inverter, reads the state of a Tesla from the
Fleet API (or takes its own cached copy: calls are billed), and wakes the car,
starts or stops a charge, or changes the charging current so that the car uses
the solar surplus and nothing from the grid. A dashboard shows the state over
server-sent events and lets signed-in users switch to manual mode, send commands
and force a refresh. SQLite holds samples, sessions, events, API counters and the
sign-in sessions.

### Inventory

| component | source | state | operations | hard parts |
|---|---|---|---|---|
| charge controller | `internal/controller/controller.go` | state, mode, counters, cached car state, seven timestamps, active session and its statistics, snapshot, accumulated minute | `Tick`, `SetMode`, manual commands, `SetChargeLimit`, `ForceRefresh`, `Run`/shutdown | stale cache against fresh grid readings; half-finished ticks; ticks of `Run` and of forced refreshes that overlap |
| Tesla client | `internal/tesla/client.go`, `tesla.go` | access and refresh token, expiry, request counters | reads, commands, wake-up, refresh, retry after 401 | single-use refresh tokens shared by goroutines; lost answers |
| activation | `internal/tesla/activating.go`, `unavailable.go`, `testmode.go` | the active vehicle controller | promotion, `SetRefreshToken` | check-then-act between callbacks |
| OAuth bootstrap | `internal/web/oauth.go`, `internal/tesla/tokenfile.go` | state cookie, token file | start, callback | file written outside the refresh lock; end of the process between steps |
| Sungrow client | `internal/inverter/sungrow.go` | WebSocket session, token, failure counters, backoff deadline | `GetPowerData`, `Connect`, `ping`, `reconnect`, `readRegister`, `Close` | two polls at once; sessions superseded by other logins; backoff |
| sign-in | `internal/web/session.go`, `entra.go`, `stream.go`, `auth.go` | login cookies, sessions, used nonces, open streams | start login, create session, verify and renew, sign out, recheck stream | reads and writes of a row in two steps; clocks apart; pruning |
| store | `internal/storage/sqlite.go`, `auth_sessions.go` | tables | inserts, queries, retention, transactions | failures in the middle of a transition; cancelled contexts |
| API accounting | `internal/tesla/tesla.go`, `internal/controller/apiusage.go` | counters per billing month | count, sample, prune, restore, baseline correction, history | read-modify-write across the store; a correction marked in a second write, and pruned in a first; rollover of the month |
| event hub | `internal/web/sse.go` | clients with bounded channels | subscribe, broadcast, heartbeat, unsubscribe | slow and stalled clients; channels closed during a broadcast; readers and writers that wait for one lock; shutdown with open streams |
| handlers and server | `internal/web/handlers.go`, `server.go` | none of their own | the REST API | — |
| configuration, observability, wiring | `internal/config`, `internal/observability`, `cmd/server/main.go` | — | — | start and shutdown order |
| dashboard, scripts, deployment | `web/`, `scripts/`, `Dockerfile` | — | — | — |

Interactions: `Run`'s goroutine calls `Tick`, which calls the inverter, the Tesla
client and the store in turn. Handlers run on goroutines of their own: `ForceRefresh`
clears the controller's caches under its mutex and then calls `Tick` itself, so the
inverter client and the Tesla client are used by two goroutines at once. The OAuth
callback writes the token file and hands the token to the running client, or makes a
client and promotes it. `OnUpdate` pushes each snapshot to the hub. The database and
the token file are all that survives the process.

### What makes each part correct

* *Controller*: a session is booked exactly while the controller is charging; the
  dashboard shows the real state; decisions made on fresh data never import from the
  grid; the remembered current is the car's; a shortage stops the car and a surplus
  charges it, whatever stale state the controller starts from; errors clear; a car
  that left is not woken (and billed) for ever; test mode leaves the car alone.
* *Sungrow*: one foreign login, or a socket lost, costs no update; a module that rejects sessions is not
  flooded with logins; the loop always recovers.
* *Sign-in*: a nonce is redeemed once; lifetimes are capped; revocation is final;
  streams end with their session.
* *Tokens*: a restart finds a usable token; an activated grant stays in force.
* *Overlapping ticks*: they leave no lasting damage in the session, share no row, mix no
  minutes, and command nothing after a switch to manual that they could have seen.
* *Registers*: every power is read with its sign and size.
* *API accounting*: the counter never falls behind what was stored and never exceeds what
  Tesla billed.
* *Hub*: nobody is held up by a slow dashboard, no closed channel is written, places are
  freed, and a dashboard that reads comes to show the state.

## 2. Modules

| module | models | used by |
|---|---|---|
| `Controller` | the control loop, its dashboard operations and the end of the process; a tick is one step | `MCController` (scenarios for TLC), `ControllerProofs` |
| `ChargeLog` | abstract: what the charge_sessions table promises | instantiated by `Controller` |
| `Ticks` | the same ticks at the granularity of the controller's mutex, overlapping | `MCTicks` (symmetry), `TicksProofs` |
| `Sungrow` | the WiNet-S session and overlapping polls | `MCSungrow`, `SungrowProofs` |
| `PowerRegisters` | the decoding of the registers a poll reads | `MCSungrow`, `SungrowProofs` |
| `AuthSessions` | sign-in sessions over their two tables | `AuthSessionsProofs` |
| `TeslaTokens` | refresh tokens, activation, OAuth callback, start-up | `MCTeslaTokens` (symmetry), `TeslaTokensProofs`, `ActivationProofs` |
| `ApiUsage` | the billing month's counter, its snapshots and their restoration | `ApiUsageProofs` |
| `Hub` | the event streams, the ticks that broadcast to them, the end of the server | `HubProofs` |

A comment `Mutant:` marks an altered copy of the definition that follows it. No
specification uses one: each is a bug the code could plausibly have, and the
`mutants` of `PROJECT.json` name the property that catches it.

### Controller

A tick is one action, with one disjunct of `TickSteps` for each way through
`Tick`: the inverter fails, test mode, the car cannot be read, nothing to charge,
manual mode, and the eight decisions of step 6. The helpers keep the code's names
(`calculateAvailableAmps`, `shouldPollTesla`, `maybeClearError`, `shouldAttemptWake`,
`transitionTo`, ...). `Settle` is the common end of a tick: cache, timers, transition
with its session rows, snapshot, sample.

*Time.* One `Elapse` is one poll interval. Timestamps become ages that stop where no
comparison can tell them from larger ones; the zero time is such an age.

*The car and the sun* are external. `car` has a reachability, a charging state and a
current; the controller sees it only through `FleetReading`, at the moments
`shouldPollTesla` allows. The grid balance contains the car's own draw, as in the
house. A car that answers is taken to be online, with its latch engaged unless it is
disconnected, and to report the current it draws; the code passes on whatever it reports.
A command ends in one of four ways (`CommandOutcomes`): carried out, failed,
carried out with its answer lost, or answered with status 200 and carried out by
nobody, since the client does not look into the body. While `healthy` holds none of
the failures happens.

*The process.* `Shutdown` is `Run`'s `ctx.Done` branch, `Crash` an end without it,
`Restart` builds the controller from nothing; only `openRows` survives.

*Test mode* is a variable, `TeslaTestMode`, chosen anew by each start: a process in test
mode reads the inverter and leaves the car alone, after whatever the process before it
left behind.

`Disturbances` says what the surroundings may do; each scenario is a set of them.
A tick is atomic here: calls by operators come between ticks. What happens when ticks
overlap is the subject of `Ticks`.

### ChargeLog

The abstract specification of the charge_sessions table: a charge begins in a row of its
own, is summed up in it and closes it when it ends; a row stays open for good only when
the store fails at that moment or the process ends. `Controller` implements it with
`row <- activeSessionID`, `booked <- sessionStats.total`, `charging <- state = "charging"`.
`ChargeLog` says nothing of when the car charges: that the rows do not always span the
car's charge is shown by a run of its own (section 5).

### Ticks

Each goroutine that runs a tick has a program counter; an action is one section under
`c.mu` or one call to the car or to the store. What a tick decides is a free choice, since
`Controller` is about that; of the states only charging is told apart. `transitionTo`
changes the state under the lock and books the session after it, in up to three further
sections; `accumulateSample` finds the minute over, flushes without the lock and sets the
minute afterwards. Samples of one goroutine in one minute count as one. History:
`messy` (transitions overlapped and the session has not been settled since), `torn`
(flushes overlapped or the store refused a row), `saved` and `dropped` (what became of each
sample), `sawAuto` (the mode during the tick).

### Sungrow

Two polls, of `Run` and of a forced refresh, each with a program counter. An action is
what happens under one hold of the client's mutex, or one exchange with the module
between two. The module knows one session: each login makes earlier tokens stale. The
socket (`wsConn`) and the token are lost apart from each other: a cancelled keepalive closes
the socket and leaves the token, as does a connection that drops, and the code learns of it at
the next keepalive. The module may work, reject sessions while it accepts logins, or fail. `logins` and `strikes` are
history variables that only the properties read: the logins since the last good poll
or overlap of polls, and what disturbed a poll.

### PowerRegisters

`parseHexRegisterValue` and the surplus `pollPowerData` derives, as operators over the bytes
of a reply, against an encoding of two's complement with the low word first. A byte has
`Byte` values so that all values of a double word can be enumerated. The hexadecimal text
and its errors are left out; a reply of fewer than two bytes is an error.

### AuthSessions

The two tables, requests between their read and their write, open streams, and a
clock. A request is answered within `MaxDelay`; Entra's clock may be behind by
`EntraLag` and ahead by `EntraLead`. Ids and nonces are random and never drawn twice.
Cookies may be presented as long as a browser could. `endedAt` and `redeemed` are
history.

### TeslaTokens

Goroutines with steps between two acquisitions of a mutex. Tesla consumes a refresh
token when it exchanges it; tokens are numbered in the order they are issued, and
`grant` says which sign-in a token descends from. Answers get lost, writes fail, the
process ends anywhere and starts again from the file or the environment. `forgiven`,
`crowded` and `floor` are history: tokens whose successor a fault swallowed, callbacks
that overlapped, and the last grant activated.

### ApiUsage

The clock counts instants, several to a minute and several minutes to a billing month.
Tesla bills every call the tracker records (`billed`, external). `Sample` is the part of
`accumulateSample` that stores a snapshot when a minute is over; `Prune` and
`PruneSnapshots` are the two deletions of the daily retention that matter here, of events and
of snapshots, each a statement on its own, and `PruneFails` the error or the end of the
process that comes between them; `Restart` is main's restoration; `Activate`, `CheckUsage`, `Load` and `Restore`
are `SetRefreshToken`, whose four steps calls and samples may come between. `LoadAPIUsage`
is the maximum over the month's snapshots, or since the correction by the configured
baseline; the first load with a baseline makes the correction: a snapshot, then the event
that marks it. The categories of calls are counted alike and one stands for all. An
earlier version may have left a count that is too high (`CarryOver`), which is what the
baseline is for; calls may have been billed then. `SampleAPIUsage` is two queries, and rows
may come and go between them. History: `inflated` (that count is uncorrected), `unrestored`
(this process could not restore its counter), `forgotten` (marks that were pruned while the
rows before them may be left), `disturbed` (the stored counts of the month are not comparable:
a row or a mark was refused, or a row was stored by a process that could not restore its
counter or whose configuration does not name the correction made, or the mark of that
correction and its rows were pruned meanwhile, or a correction was made again because only its
mark was, or Tesla's figures were read while no row since held the counter).

Two simplifications: one activation is under way at a time, since those that overlap are the
subject of `TeslaTokens`, and Tesla bills a call at the instant at which it is counted, so
that none is billed to one month and counted in the next.

### Hub

A snapshot is its number. A tick updates the snapshot, reads it, takes the hub's lock for
reading, offers the snapshot to each client in turn and releases the lock. A stream is the
handler of a dashboard: it waits for the lock, subscribes or is refused, writes, selects among
channel, heartbeat and the request's context, and unsubscribes with the lock. The lock is Go's
`RWMutex`: a tick that comes while a handler waits for it waits too (`Wait`), and is let in
when a handler releases it (`Unlock`), before the next one. A dashboard in `Stalling` may stop
reading for ever, since the server has no write timeout (`hardenServer` says why). `Signal`,
`Shutdown` and `ShutdownTimesOut` are the end of `runWithContext`: the contexts of open
requests do not derive from the cancelled one, so `Shutdown` returns when the last stream has
ended, or at its deadline with an error. The second server, of certificates, has no streams.
History: `lost`, the clients that will not learn of the last change from a broadcast under way.

## 3. Runs

The constants are small and keep every comparison of the code two-sided. In all
controller runs the current is 2 or 3 A at 2 V; the sun gives 0, 5 or 9 W: no amps,
the minimum with one watt of rounding, and more than the maximum. Thresholds are 2
ticks, so that counters are seen below and at them, and the intervals are 1 to 3 poll
intervals with the idle poll longer than the charging poll, as in the defaults.

| run | what the surroundings do | checks |
|---|---|---|
| `controller_faults` | sun, car, reachability, failing requests, shutdown, crash, restarts with and without test mode | `TypeOK`, `SessionBookkeeping`, `SnapshotLagsOnlyInError`, `TestModeLeavesCarAlone`, `AmpsStayInStep`, `KeepsChargeLog` (the refinement) |
| `controller_operators` | sun, car, hour of day, mode switches, manual commands, charge limits, refreshes | `CountersExclusive`, `FreshDecisionsNeverImport` |
| `controller_liveness` | sun, car, reachability, failing requests, mode switches; fair | `StopsOnShortage`, `ChargesOnSurplus`, `WakesEnd`, `ErrorClears` |
| `ticks` | two overlapping ticks, mode switches, a failing store, three minutes | `TypeOK`, `OverlapHeals`, `RowsHaveOneOwner`, `CommandsFollowMode`, `ReadingsPure`, `MinuteBooked` |
| `sungrow` | overlapping polls, cancellations, lost connections, foreign logins, a module that rejects or fails; fair | `TypeOK`, `NoMissedUpdate`, `LoginsBackedOff`, `RunRecovers`; `DecodesPower` for every value of a register |
| `auth_sessions` | overlapping requests, sign-outs, restarts with another allowlist | `NonceSingleUse`, `LifetimesCapped`, `RevokedForGood`, `StreamsEndSoon` |
| `tesla_tokens` | concurrent requests and callbacks, lost answers, failed writes, crashes | `RestartTokenUsable`, `ActivationHolds` |
| `api_usage` | calls, samples, refused writes, pruning within the month that may stop half-way, restarts with and without a baseline, activations, a change of month | `TypeOK`, `NeverOvercounts`, `CountersSurvive`, `HistoryFits` |
| `hub` | two ticks and a mode switch broadcasting to two dashboards, one of which may stall; a signal; fair | `TypeOK`, `NoSendOnClosed`, `UpToDate`, `ShowsLatest`, `TicksNeverHeldUp`, `SlotsFreed` |
| `refute_session_spans_charge`, `refute_draw_settles`, `refute_shutdown_saves_samples` | sun only, or sun and the end of the process | one property each, violated: section 5 |

Bounds beyond the configuration:

* `SessionIDs`: rows open at once. Two suffice for an abandoned row beside an active
  one; when all are taken the store refuses, as a failing store does. Row ids may be
  used again after their row is closed; no property compares ids over time.
* `MaxSessionSamples` limits the samples a session sums up: 1 in the run about
  sessions, which tells a reset from a missing one; 0 where no property reads the
  statistics.
* Sungrow: 2 registers (a first and a last), reset after 3 failures, backoff 1 to 3,
  `MaxResets` 4, from which the delay no longer grows.
* AuthSessions: 1 user, 1 login, 2 session ids, 2 requests; idle timeout 3, maximum
  age 4, login 2, renewal 1, skew 3, recheck 2. The clock stops at 8: a whole session
  and its pruning fit in. Deadlock is not checked there because the clock's bound is
  an end of the run. The proofs have no bound.
* TeslaTokens: 2 requests, 2 callbacks, 2 clients, 4 tokens, so that a grant of each
  callback and a rotation of either fit beside the configured one. Threads and clients
  are interchangeable, and neither property tells them apart, so they are permuted.
* Ticks: two goroutines, two session rows, three minutes, two rows counted per minute. Two
  minutes would not do: the slower of two flushes can only go back behind a third. The two
  goroutines are interchangeable and permuted. When all rows are open the store refuses.
* ApiUsage: a minute of 3 instants and a month of 6, so that the first sample of a process
  and the rollover fall within a minute or at its end; a retention of 1, so that rows and marks
  are pruned within the month and a prune may stop between the two; one reading of the
  dashboard, at 2, before a process can have counted; two restarts, of which the second may
  apply the baseline again or be configured without it; one call, and no row of an earlier
  version, one with a count of none or one with two; a clock to 6, the first instant of the next
  month. `MaxCount` is above `MaxCalls` so that a count can be too high. Without the exception
  for a baseline that is applied again, or the one for a baseline that is changed, TLC finds
  `NeverOvercounts` violated. Figures read while a process runs (`Adrift`) are left to the
  proof.
* Hub: a limit of one client for two dashboards, so that the second is refused while the
  first is connected; a channel of one, so that it is full; two changes of the snapshot, so
  that a dashboard can be one behind and catch up. The invariants and `ShowsLatest` were also
  checked with three changes, after which it can fall behind again.
* PowerRegisters: `Byte` 4, so that all 256 double words are decoded. The proof covers every
  even `Byte`, 256 among them.

### Fairness

`Controller`: weak fairness of `Elapse` and of `Tick`. `time.Ticker` keeps firing, the
runtime schedules the goroutine that serves it, and every request of a tick has a
timeout. The surroundings have no fairness: each liveness property assumes what it
needs of them (`<>[]Shortage`, `<>[]Sunny`, ...). `Sungrow`: weak fairness of `Run`'s
poll, by the same ticker and the timeouts of requests, and of time; none for the
forced refresh. `RunRecovers` therefore assumes that no refresh is stuck for ever.

`Hub`: weak fairness of a tick's steps (its goroutine runs and its sends never block);
strong fairness of what a handler does with the lock (`Lock`), because a handler that waits
for an `RWMutex` keeps new readers out and those that wait with it get it in turn; strong
fairness of `Receive` and `Done`, because `select` picks among its ready cases at random, so
that heartbeats cannot displace a case for ever; weak fairness of the write of a dashboard
that does not stall, and none for one that may. Ticks, dashboards, signals and the deadline of
the shutdown need not come. The other modules assert safety only.

## 4. Proofs

All theorems hold for every value of the constants that the named `ASSUME`s allow.
Those of `Controller` are the bounds `config.go` enforces.

* `ControllerProofs`. `IInv` is `TypeOK`, `SessionBookkeeping`, `CountersExclusive` and
  `SnapshotLagsOnlyInError`. The parts need each other: that leaving charging ends the
  session rests on a session being active only in charging, and the bound on the average
  on the types of the statistics. Lemmas give the types of the helpers (ages, readings,
  available amps, the car after a command) and what `transitionTo` and `Settle`
  establish; each disjunct of `TickSteps` then takes a few lines. Results:
  `TypeCorrectness`, `SessionsBooked`, `SnapshotsCurrent`, `CountersApart`,
  `TestModeHarmless`, and of steps `AmpsKeepInStep`, `FreshDecisions` and `NoRowAbandoned`.
  `FreshDecisions` needs the arithmetic of floor division at every voltage: available amps
  times voltage never exceed the sun. `ControllerKeepsLog` is the refinement: initial states
  map to initial states and every step of the controller to a step of `ChargeLog` or none; it
  rests on a session being active only in charging.
* `TicksProofs`. `TicksTyped`, `ModeObeyed`, `RowsOwned`, `OverlapsHeal`, `SamplesPure`,
  `MinutesBooked`, for any number of goroutines, rows and minutes. `ModeInv` carries what the
  tick has seen of the mode across its transition, where it waits with the command still to
  come. `Undisturbed` says what `transitionTo` relies on while it books without the lock: it
  is alone, the state is the one it set, a session to start finds none. `MinuteInv` says that
  a flush that is alone is for a minute that is over, whose row is not written before the
  insert and holds every sample after it.
* `SungrowProofs`. `SungrowTyped`, `LoginsAlwaysBackedOff`, `UpdatesNotMissed`. `LoginsBackedOff` alone is not inductive: a
  poll on its way to a login must not have used up the allowance. `Paid` says so: a
  login that no reset has paid for left a session behind, or a failure about to be
  scheduled, and nobody is on the way to another login. `SungrowTyped` includes the bound on
  the reconnect delay, by cases of the capped shift, and needs to know which registers a poll
  has left (`Remaining`). `UpdatesNotMissed` rests on `Smooth`: a poll that is disturbed at
  most once, by a foreign login or the loss of the socket, before it or during it, meets a
  healthy module, resets the session at most once, and holds a live token and an open socket
  from then on. `PowerDecoded` is about all register values, not about states: a power written as two's
  complement, low word first, is read back with its sign and size whatever bytes follow it.
  The bytes of a pattern are its remainders; `WordRestored` puts a word together again,
  `PatternRead` the double word, `SignRestored` the sign.
* `AuthSessionsProofs`. `NoncesSingleUse`, `SessionsCapped`, `SessionsStayRevoked`, `StreamsEnd`.
  The invariant adds what requests under way know (`InFlight`) and how long a redeemed nonce
  is remembered compared with how long it may be presented (`Remembered`). It rests on
  `EntraLag + MaxDelay < maxClockSkew`: the tolerance must cover both the clocks'
  difference and the duration of a request. `StreamsEnd` needs `MaxDelay <= idleTimeout` as
  well: a renewal computed before another may be written after it and lower the expiry,
  which must not put it before the request's own reading. `StreamInv` says that a request
  read its session before the session's end, and that a stream has outlived that end by no
  more than the time since its last check and the duration of a request.
* `TeslaTokensProofs`. `RestartsFindToken`. That a token about to be written has not been
  consumed rests on nobody else having it (`Distinct`, `Unspent`), which rests on the
  refresh lock (`Held`), on new clients being private until promoted (`Private`) and on
  requests waiting for the start (`Alone`).
* `ActivationProofs`. `ActivationsHold`, on top of that invariant. A rotation stays within its
  grant (`Known`, `Lineage`), so only a callback can change the grant of a client. A callback
  presents no grant older than the last one activated, since grants are numbered as they are
  issued and a callback that succeeds uncrowded is the only one under way (`Overlaps`); it
  then sets the token of the client in use, because only another callback or a start could
  have replaced that client.
* `ApiUsageProofs`. `UsageTyped`, `CountersAlwaysSurvive`, for any lengths of minute, month
  and retention. `SurviveInv` says that nothing is stored from the future, and that while an
  activation has loaded counts and not restored them the counter or the loaded counts cover
  every stored row. `LoadCovers` shows it for the correction, whose own snapshot is the
  first of the rows that count from then on. `NeverOvercounted` needs more. That the counter
  is at most what was billed is not inductive: a start may take its counter from any row of
  the month, and a correction adds what was counted since the baseline's instant to Tesla's
  figure at that instant. `UsageInv` therefore says of the rows (`RowsInv`), of the counter
  (`CountInv`) and of counts loaded and not yet restored (`PendInv`) that from the row a
  correction would compare them with they have risen by no more than Tesla billed since the
  figures were read; that rows are stored in the order of their minutes (`OrderInv`), that a
  mark, pruned or not, has its row and its figures (`BillInv`), and that a correction is never applied to
  less than its figures (`BaseInv`). Each action has a lemma of its own (`RecordCounts`,
  `SampleCounts`, ...). A prune that stops half-way takes the mark and leaves the rows; the
  rows that count are bound by it nevertheless (`Marks` has the forgotten marks), and `PruneInv`
  says that forgotten marks are older than what the prune under way keeps, so that the rows
  before them go with them if it comes to an end. `HistoryAlwaysFits` holds for any number of
  points and whatever the second query finds: the rows of the first are mapped one to one into
  the buckets, of which there are no more than were asked for.
* `HubProofs`. `HubTyped`, `NeverSendsOnClosed`, `ClientsUpToDate`, for any number of ticks,
  dashboards, limit and capacity. `LockInv` ties the clients left to serve to the read lock,
  which a handler that takes the lock waits for, and the lock to the ticks that wait or send. `AloneInv` says that a tick that has met no other carries the
  newest snapshot, `GivenInv` that a client that is not up to date is still to be served.

Every invariant and every action property that a passing run checks is the subject of a
theorem. Only model-checked are the eight liveness properties: `StopsOnShortage`,
`ChargesOnSurplus`, `WakesEnd`, `ErrorClears`, `RunRecovers`, `ShowsLatest`,
`TicksNeverHeldUp` and `SlotsFreed`. Fairness is defined by `ENABLED`, which
is beyond the prover, as is induction over data.

## 5. What the code does that its documents do not say

Shown by a run that TLC refutes:

* `SessionSpansCharge` (`controller.go:326`). After a successful `StartCharging` the
  cached state still says `Stopped`. The next tick is held by the start cooldown, goes
  to `monitoring` and ends the session although the car charges, until the cached
  reading is renewed. `docs/instructions.md:634` says that charge start and stop bound
  the row.
* `DrawSettles` (`controller.go:421`). The cached `AmpsActual` is added to a grid balance
  that already contains the new draw. Under a constant sun the target can swing for
  ever, importing in between; `docs/cost-optimisation.md:85` speaks of a brief lag.
* `ShutdownSavesSamples` (`controller.go:152`). The flush at shutdown gets the cancelled
  context, with which `database/sql` refuses statements. The test's store ignores it.

Met while modelling, and part of the models:

* A failed read of the car does not restart the poll clock: it is read again at the next
  tick, not after the poll interval, and the tick publishes nothing (`controller.go:206`).
* A failed change of the current records only the failure time, and every tick repeats
  the command until one succeeds (`controller.go:349`).
* After a successful stop, a cached `Charging` brings the charging state, and a new
  session, back until the next poll (`controller.go:369`).
* Overlapping OAuth callbacks that both find no running client each promote one; the
  later promotion replaces a client that another callback may have given a newer grant
  (`activating.go:78`). `ActivationHolds` therefore leaves overlapping callbacks out;
  `RestartTokenUsable` includes them.
* The callback writes the token file without the refresh lock (`oauth.go:152`): a rotation
  under way may overwrite the new grant's token with the old grant's. The activation's own
  rotation writes it again; if Tesla's answer carries no new token, the file keeps the old
  grant.
* A sign-out whose session lookup fails revokes nothing and still answers 204
  (`entra.go:314`). The session lives on until it expires; `RevokedForGood` is about
  revocations that happened, so no property covers it.
* Overlapping ticks (`Ticks`): two transitions that overlap may open two rows, of which one
  stays open for good, or leave a session active that nobody charges until the next
  transition (`controller.go:440`); a tick that began before a switch to manual still sends
  its command, where `docs/plan.md:1619` says "Controller stops auto-adjusting"
  (`controller.go:241`); two flushes that overlap write two rows for a minute and may clear
  samples that are in neither, where `docs/instructions.md:634` speaks of a single row
  (`controller.go:785`). `OverlapHeals`, `CommandsFollowMode` and `MinuteBooked` state what
  holds nevertheless.
* The inverter (`Sungrow`): the README says that another login "now causes no missed update". A
  keepalive that is cancelled closes the socket and leaves the token; the next poll replaces
  the session at once, and if another login follows in the same poll, the second replacement
  has to wait for the backoff and the poll fails (`sungrow.go:394`). Either alone costs nothing:
  `NoMissedUpdate`.
* API accounting (`ApiUsage`): the daily prune deletes events before snapshots, with the
  context that a signal cancels, and stops at the first error. With `DB_RETENTION_DAYS` shorter
  than a month (the default is 365, the minimum 1) the mark of a correction may thus be gone
  and its rows be left (`sqlite.go:481`). The next start applies the baseline again, to
  corrected figures, where a comment says that it is applied once
  (`main.go:229`). `SampleAPIUsage` may return more than `maxPoints` points, which its comment
  gives as the limit (`sqlite.go:370`): rows inserted between its queries are outside of the
  span that the buckets divide.
* API accounting, other errors: if the corrected snapshot is stored and the event that marks
  it is refused, the next start applies the baseline again, to corrected figures
  (`apiusage.go:113`; `docs/instructions.md:646` says "The correction is applied once").
  Removing or changing the baseline within the month brings the uncorrected counts back,
  where the same line says it "can be left in place or removed" (though that may be meant of
  the time after the month). A retention shorter than a
  month prunes the mark and its rows, and with them the knowledge that the counts of a process without that
  baseline are not comparable. Figures that are read before a new process has stored its
  first row are compared with a row that lacks the calls in between. Calls counted between the check and the restoration of an
  activation are overwritten, and a call between the activation and the check prevents the
  restoration (`controller.go:959`). `NeverOvercounts` and `CountersSurvive` name each of
  these as an exception and hold otherwise.
* The hub (`Hub`): `docs/instructions.md:650` says that the snapshot is broadcast after each
  tick; a tick that cannot read the car broadcasts nothing (`controller.go:206`), nor does
  `SetMode`. A full channel drops the newest snapshot, not the oldest; of two overlapping
  ticks the older snapshot may be sent last; a new dashboard gets nothing before the next
  broadcast. A stalled dashboard keeps its place until its connection breaks. With an open
  stream a shutdown takes the full 10 s and `run` returns an error.
* A comment at `controller.go:588` says that the snapshot updater preserves the last error;
  `updateSnapshot` replaces the whole snapshot without it.
* The comment at `sungrow.go:617` says that the first word is the high one; the code, and
  its tests, take the low word first. `PowerRegisters` follows the code.

## 6. Not modelled

* `Close` of the inverter client, which main calls after the last poll, and its certificate
  pin.
* Fleet status, energy-site data, and the store's queries for the dashboard's lists:
  read-only.
* Signatures of tokens and cookies, CSRF checks, streams authorized by bearer tokens: a
  request in `AuthSessions` is one that passed them.
* Activations that overlap, in `ApiUsage`, and a call in flight at the end of the month, which
  Tesla bills in one month and the tracker counts in the other (section 2).
* Configuration: `config.go` reads and validates environment variables once, before anything
  runs. Its bounds are the assumptions on the modules' constants.
* Logging, metrics, tracing, routing, TLS, wiring, scripts, container files, the dashboard's
  rendering: no protocol of their own.

## 7. Plan

Done, in this order: `Controller` (the heart of the program) and its proofs, `Sungrow`,
`AuthSessions`, `TeslaTokens`; then test mode and the `ChargeLog` refinement, `Ticks`,
`ApiUsage`, `Hub`, `PowerRegisters`, each with its theorems; then the theorems for the
invariants that were only model-checked.

Left:

1. A second refinement: a token store that always yields the newest unspent token,
   implemented by `TeslaTokens`.
2. A composition of `Ticks` with `Sungrow`, in which the poll of an overlapping tick fails
   because of the other's login. Today each module has the two ticks on its own, and what a
   poll returns is a free choice in `Ticks`.
3. Theorems about the steps behind the liveness properties, without `ENABLED`: that a tick in
   a shortage stops the car or comes nearer to it, that no step of a broadcast waits for a
   dashboard.
