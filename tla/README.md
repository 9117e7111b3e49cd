# A TLA+ verification of UniFiClientAlerts

The program watches a UniFi controller and sends an alert the first time it
sees a client. This directory holds TLA+ models of the code that decides *who
is alerted, when, and who is not*, and of the parts it relies on, TLC configurations that check them on small
instances, and proofs that TLAPS checks for every value of the constants.

Line numbers refer to `cmd/unificlientalerts/main.go` (M),
`internal/database/database.go` (D), `internal/unifi/websocket.go` (W),
`internal/unifi/client.go` (CL), `internal/slack/slack.go` (S),
`internal/config/config.go` (C) and `internal/notifier/notifier.go` (N).

## 1. Inventory

| Component | State | Operations | Correct when |
|---|---|---|---|
| Main loop (M) | `knownMacs`, `pendingMacs`, fallback ticker, channels, position | WebSocket trigger with delay, pre-check and IP wait; timed-out devices; Teleport; fallback, retry and reload checks; decisions; commands; sweep; reap; shutdown | nobody new is missed, nobody is alerted twice, nobody goes silent without cause, it always stops |
| `known_macs` table (D) | one row per identifier: `expires_at`, `last_seen` | Load, Update, Allow, ClearAll, Permanent, Purge, RemoveOld | allows live as long as promised; absence is measured correctly |
| Event stream (W) | cached path, failure count, backoff, connection | resolve, dial, read and dispatch, back off, log in again, stop | events flow again after any outage; stops on cancel |
| REST client (CL) | session pointer under a lock | Login, ListClients | a lost session is replaced, and stays replaced |
| Slack listener (S) | Socket Mode connection, envelope in hand | read, acknowledge, judge, queue a decision or a command, respond | a valid press reaches the main loop, once; "allowed" is said only of what was handed over |
| Configuration (C) | settings; the seed read from `KNOWN_MACS_FILE` | KnownMacsSeed, WriteMacsFile, duration parsing | the file always holds a whole list; durations mean what they say |
| Notifier (N) | attempt and delay; MQTT connection with its retained status | send, retry on 429, publish, online/offline, disconnect | an alert is delivered or reported, never twice; the status tells the truth |

The main loop owns all shared state but the session. Every other goroutine talks
to it by a channel: the event stream by `trigger` (one slot) and `teleportCh`
(8), the Slack listener by `decisions` (8) and `commands` (4), the sleeping
retry goroutines by `retryCh`, timers by their own channels, the signal handler
by the context. Senders to one-slot channels and to `teleportCh` never block:
what does not fit is dropped. The Slack listener does block. Alerts and exports
are calls of the main goroutine, which is deaf while they last.

Hard to get right, and to test: the loop is overtaken by the world inside the
IP wait (up to 45 s), inside each send (minutes, when rate-limited) and between
its fetches; memory and table are updated by seven handlers, each of which can
fail between the two; the process can die between sending and recording, and
between Slack's acknowledgement and the decision; timers are drained and reset;
allows lapse while they are queued; the session and the path of the stream go
stale, and two goroutines renew the session. `PROJECT.json` lists the hazards by
line, each with the properties that would catch it going wrong.

## 2. Modules

```
KnownMacsTable ──┬── KnownMacsStore ◄─ refines ─ Database ── MCDatabase
                 │                               DatabaseProofs
                 ├── KnownMacsTableProofs
                 └── Monitor ── MonitorProperties ── MCMonitor
                                    │ refines    └── MonitorProofs
                                    ▼                └── AlertContractProofs
                               AlertContract
RestClient ── EventStream ── MCEventStream, EventStreamProofs
Durations ── SlackListener ── SlackProperties ── MCSlack
                 │ refines                   └── SlackProofs
                 └─► SlackFeed
Notifier ──┬── NotifierProofs ──┐
           │                    ├── BlockingCallsProofs
           └──┬── BlockingCalls ┘
MacsFile ─────┘        └── MCCalls
```

**KnownMacsTable** gives each SQL statement as an operator on tables whose two
timestamps are reduced to phases: the allow is *permanent*, *live* or *lapsed*,
the absence *none*, *counting* or *overdue*. `Later` is what time does.

**KnownMacsStore** is the abstract specification of the table: those operators
in any order, and time. **Database** has the same operations on integer seconds
with the WHERE clauses of D, and implements KnownMacsStore under the mapping
`rows <- [m \in Mac |-> Phase(m)]`. This is why `Monitor` may use phases.

**Monitor** is `main` from the first `LoadKnownMacs` to `Shutdown complete`.
`pc` is the place of the main goroutine; a step ends at each blocking `select`,
after each fetch, after each send and after each client of a scan, so the world
can move at each of these points and nowhere else, since everything between
them touches only what the goroutine owns.

| In the model | In the code |
|---|---|
| `ReceiveTrigger`, `DelayOver`, `Precheck` | M 705-761 |
| `Poll`, `NextAttempt`, `BackoffOver`, `BackoffCancelled` | `waitForDeviceIP`, M 306-381 |
| `AlertTimeout` | M 763-772 |
| `Fetch`, `Scan`, `ScanDone` | `runCheck` |
| `SendAlert` then `RecordDevice` | `sendAlert` then `recordDevice`; `alert` remembers where to go on |
| `Skip`, `After` | M 819-829 and 831-862, with reset, reap, reload and clean-up in the same step |
| `ApplyDecision`, `RunCommand`, `SweepExpired` | M 778-807 |
| `Boot`, `Crash`, `Signal`, `Shutdown` | start, kill, SIGTERM, M 865-873 |
| `DeviceMoves`, `ConnectionEvent`, `TeleportSync` | the network, and the callbacks of `ListenEvents`; a device *joining* has sent its event and is not listed yet |
| `PressButton`, `SlashCommand`, `EditFile` | the operator; a decision's deadline is fixed at the press and may pass in the queue (`DecisionAges`) |

`Outcomes` makes every database and file call fail or succeed when `Faults` is
set; API fetches may always fail. `loaded`, `notified` and `approved` are
history variables: no guard reads the first and last of them, and `PressButton`
reads `notified` because a button exists only in an alert that was sent.
Within a scan the clients are taken in any order, and in `Poll` the first new
client with an IP may stand after any of those without, as the API promises no
order. **MonitorProperties** states the properties and the fairness.

**AlertContract** is the abstract specification of the program: seven variables
and no channel, timer, client list or statement. It says which devices the
process is `silent` about, which the table would bring back (`kept`), who was
`told`, whom the operator `vouched` for, which devices an IP wait has collected
(`owed`), and which alert is `out` and not recorded yet. A new alert is about a
device that is not silent; a collected one may be alerted once more when its
wait is over, which is what finding 1 leaves of the promise of no second alert;
nothing is decided, reloaded, reaped or stopped cleanly while an alert is out or
a device is owed. `Monitor` implements it under the mapping at the end of
**MonitorProperties**, in every configuration.

**RestClient** is the pointer to the session: a login gets its session
(`Grant`) and stores it (`Store`) in two steps, a fetch keeps the session it has
read, and a controller may forget all of them. **EventStream** is `ListenEvents`
on top of it, together with the checks of the main loop that share the session,
against a controller that goes down, drops connections and forgets sessions;
`open` says that the connection being read is alive, `cookies` is what
`wsHeaders` read for the dial in progress, and `"none"` stands for the empty
`wsURL`.

**SlackListener** is the goroutine of `Listen` with Slack, its users, the two
channels and the life of the process around it.

| In the model | In the code |
|---|---|
| `Connect`, `ConnectFails`, `Redial` | S 170-209: opening, dialling, five seconds between attempts |
| `Read`, `ReadEnds` | the read of `listenOnce`, S 213-227 |
| `AckArrives`, `AckLost`, `AckFails` | the acknowledgement at S 229-235: it reaches Slack, dies on the way, or is an error that ends the connection |
| `Handle`, `Verdict`, `DurationFor` | the routing and checks of S 237-270 and 305-349: unknown command, unauthorised user, unknown label |
| `HandOver` | the blocking sends, S 271-276 and 351 |
| `Respond` | the POST that replaces the alert, S 317-321, 353 and 380-408 |
| `CloseOnCancel` | the helper goroutine that closes the connection |
| `Signal`, `Exit`, `Crash`, `Boot` | the process; `main` does not wait for the listener |

Slack keeps an envelope until it is acknowledged and sends it again on a later
connection, in no promised order. `times`, `losses` and `applied` are history
variables. **SlackFeed** is the abstract specification: each press is *unsent*,
*waiting* at Slack, *held*, *queued*, *applied* or *dropped*, an invalid press
may be dropped, and a valid one is dropped by the death of the process and by
nothing else. The mapping is `Fate`. **Durations** has `parseDuration`,
`parseAllowDurations` and the deadline of a button in int64 arithmetic of any
width.

**Notifier** is `SendNotification` for every service with its attempts and
delays (in tenths of a second, as only Discord asks for fractions), and the MQTT
client beside it: the outbox of unacknowledged publications, the handlers that
publish "online", the will the broker holds. **MacsFile** is `WriteMacsFile`,
one system call a step. **BlockingCalls** composes the two as the main goroutine
does: it calls one or the other, and sees SIGTERM only between calls, a kill at
any step.

A definition headed *Mistake:* belongs to no specification. It is a plausible
wrong version of the one below it; put in its place, it makes TLC refute the
property it is paired with in `PROJECT.json`, which shows that the property
depends on that code.

## 3. Runs

| Run | Checks | Bounds and why they suffice |
|---|---|---|
| `Database` | `TypeOK`, `ForgottenOnlyAfterDelay`, `ImplementsStore` | 2 identifiers, 6 seconds, delay 1: go, return, go again and be forgotten while another allow lapses. `MaxTime` stops the clock, hence no deadlock check. The same facts are proved without bounds |
| `EventStreamLegacy` | `TypeOK`, `Reconnects`, `FetchesRecover`, `StopsOnCancel` | both goroutines are finite-state (backoff is capped, a session is live or dead); the queue is cut from 8 to 1, and the goroutine only asks whether it is full |
| `EventStreamModern` | `Reconnects` **fails** | see section 6 |
| `MonitorSlack` | `TypeOK`, `KnownIsAccounted`, `LiveRowsKnown`, `AllowedStaysQuiet`, `SeedLostForCause`, `ImplementsContract` | one device, a seed file with and without it and exports over it, one decision and one command queued, one backoff, failing calls, a crash and a restart; `REMEMBER_NEW_DEVICES=false`, as the README of the program asks for the buttons |
| `MonitorReaper` | `MemoryMatchesTable`, `SeedHonoured`, `CheckIsComplete`, `OnlyAbsentForgotten`, `ImplementsContract` | a client, which the file may list, and a Teleport client, so that one is alerted while the other is scanned; event delay, one retry goroutine; remembered devices and no failing call, without which `MemoryMatchesTable` and `OnlyAbsentForgotten` do not hold (section 6). It has no backoff: Teleport clients handled inside an IP wait are left to the proof of the contract, which has any number |
| `MonitorLive` | `CheckIsComplete`, `NewDeviceAlerted`, `ShutdownCompletes`, `LapsedAllowAlerts` | one device, `REQUIRE_IP`, fallback polling, buttons with one queued decision; event delay and one backoff, so that SIGTERM can come in each of the three selects that watch it (M 703, 713, 316) |
| `Slack` | `TypeOK`, `ToldMeansQueued`, `OnceUnlessAckLost`, `ButtonsAllow`, `ImplementsFeed`, `PressApplied` | two users, one of them permitted, one alert, two presses, one lost acknowledgement, queues of 1, a crash and a restart: a press is repeated, overtaken by the other and blocked by it. Integers have 21 bits: of the settings, two weeks wrap below zero, `never` does not parse, `0h` is zero, one week fits in seconds and not in nanoseconds, one hour fits in both |
| `Calls` | `TypeOK`, `OncePerLink`, `SentMeansAccepted`, `RateLimitRespected`, `NeverHalfWritten`, `ReportedTruthfully`, `OnlineWhenSettled`, `OfflineOrWilled`, `OnlineWhileConnected`, `OfflineWhenGone`, `SignalEnds` | one alert through each of six services, which cover every kind of answer to a 429; 3 attempts instead of 5, so that there is a first, a middle and a last one; two MQTT connections, so that one is replaced; an empty list and one that overlaps the old |
| `MonitorDuplicate`, `MonitorReload`, `MonitorForget`, `MonitorAlways` | one property each, **fails** | section 6; the code's own capacities |

The Monitor, Slack and Calls runs switch deadlock checking off, because a
process that has used its `MaxBoots` starts or has ended rests for ever. Bounds
of the models that the code does not have: `MaxBoots`, `MaxSleepers` (retry
goroutines asleep at once; a further one is not started, and liveness does not
count on retries), `MaxTime`, `MaxPresses`, `MaxLost` (lost acknowledgements,
all of one envelope) and `MaxLinks`.

*Fairness.* In `Monitor`, `MainLoop` is weakly fair: the goroutine runs when it
can and its HTTP calls have time-outs. Strong fairness of `StartCheck`,
`SweepExpired` and `Shutdown` stands for Go's random choice among ready select
cases; strong fairness of `Fetch` says that a check, tried again and again, gets
a client list in the end, which is what `FetchesRecover` shows of the session
when the controller is stable. Nothing is assumed of the calls of a pre-check or
an IP wait, so a device may never be found that way. Timers tick and held
entries age; a tick that WebSocket checks keep postponing may never come, so
`FallbackElapses \/ FallbackTick` is only weakly fair. Nothing is assumed of
devices, events, the operator, retries or crashes, and Teleport clients are kept
out of `MainLoop` so that no fairness is owed to them.

In `EventStream` the two goroutines are weakly fair, the main loop because
fallback polling repeats its checks. The premises of the properties say what is
asked of the controller: that it stays up, and that sessions do not run out for
ever under an open connection (`Reconnects`) or at all (`FetchesRecover`).

In `SlackListener` the listener and the receives of the main loop are weakly
fair. Strong fairness of `Connect`, `AckArrives` and of reading *some* envelope
says that a network tried again and again works in the end; which envelope comes
is left to Slack, and nothing is assumed of `Respond`.

In `BlockingCalls` the calls go on (each system call and request is bounded),
`Shutdown` is strongly fair as in `Monitor`, the handlers and the network of the
MQTT client run while the link is up, and the broker notices a client that is
gone. Links may fail at any time and need not come back.

## 4. Proofs

All hold for every set of devices, users, alerts and addresses, every
configuration and every capacity, under the named assumptions of the modules:
`ConfigAssumption` and `BoundsAssumption` (Monitor), `DatabaseAssumption`,
`EventStreamAssumption`, `ListenerAssumption`, `WidthAssumption` (Durations),
`NotifierAssumption`. They say that options are Booleans, bounds are naturals,
Teleport clients and seeds are devices, permitted users are users, settings are
settings.

| Theorem | Module | Argument |
|---|---|---|
| `TypeCorrect` (`TypeOK`) | DatabaseProofs | by `Inv` below |
| `ForgottenAfterDelay` | DatabaseProofs | the table keeps only the first miss, so `Inv` adds to the types that no contact is later than `last_seen` of an absent entry (`MissAfterContact`) nor in the future (`ContactPast`); then `last_seen + delay < now` gives `contact + delay < now` |
| `StoreImplemented` (`ImplementsStore`) | DatabaseProofs | phase by phase: `PutPhase`, `ReapPhase`, `TickPhase`, then one step per call |
| `TypeCorrect` (`TypeOK`) | MonitorProofs | inductive as it stands; proved in four parts: store, loop, signals, queues |
| `LiveRowsAlwaysKnown` (`LiveRowsKnown`) | MonitorProofs | inductive with the types; the reap and the reload are covered by one lemma, `ReapAndReload` |
| `KnownAlwaysAccounted` (`KnownIsAccounted`) | MonitorProofs | strengthened to `AccountInv`: the seed, the outstanding alert and the queued decisions are accounted for too, since each of them becomes known later |
| `ChecksAreComplete` (`CheckIsComplete`) | MonitorProofs | strengthened to `CheckInv`: during a scan, each listed device is still to do, settled, or the one whose alert is outstanding |
| `AllowedAlwaysQuiet` (`AllowedStaysQuiet`), without REMEMBER_NEW_DEVICES | MonitorProofs | strengthened to `QuietInv`: the devices an IP wait has collected have no row in force either, since a decision is applied only at the select, when none are collected |
| `SeedAlwaysHonoured` (`SeedHonoured`), without the interactive service | MonitorProofs | strengthened to `PlainInv`: no queued decision or command, no temporary row, and a running process has `loaded = seed` and knows it |
| `MemoryAlwaysMatches` (`MemoryMatchesTable`), without the interactive service and failures, with REMEMBER_NEW_DEVICES | MonitorProofs | inductive with `PlainInv`: time alone puts no plain row out of force |
| `OnlyTheAbsentForgotten` (`OnlyAbsentForgotten`), without the interactive service and failures, with REMEMBER_NEW_DEVICES | MonitorProofs | memory is the table plus the seed (`MemoryMatchesTable`, `PlainInv`), so the reload after a reap gives up exactly the rows it deleted; those were overdue, hence missed by an earlier check, and are not in the list of this one. No device is known in a process that is down, so a start forgets nobody |
| `SeedLostOnlyForCause` (`SeedLostForCause`) | MonitorProofs | step by step from the types, in every configuration |
| `ContractImplemented` (`ImplementsContract`) | AlertContractProofs | every handler is mapped to a step of the contract or a stutter, under `ContractInv`: only an IP wait, or an alert sent from one, has collected devices (`CollectedInv`), so the select is at rest; and the seed and the queued decisions are vouched for (`VouchedInv`). `PollEffect` does the wait, `AlertsRefine` the handlers that alert, `ChangesRefine` those that change what is known, `WorldRefines` the rest |
| `ContractSuffices` (`KnownIsAccounted`) | AlertContractProofs | from the contract alone: `ContractAccounts` adds the device whose alert is outstanding. No handler of `Monitor` is looked at, so the contract is strong enough to be worth implementing |
| `TypeCorrect` (`TypeOK`) | EventStreamProofs | inductive; the checks and the forgetting of sessions are lemmas of their own |
| `TypeCorrect` (`TypeOK`), `HandedOverOnce` (`OnceUnlessAckLost`), `ToldOnlyWhatIsQueued` (`ToldMeansQueued`) | SlackProofs | all from `ListenerInv`: what is queued was sent, how far the envelope in hand has come agrees with `times` and `acked` (`Progress`, `Counted`), and an alert that is "allowed" has its press (`Answered`) |
| `ButtonsAlwaysAllow` (`ButtonsAllow`) | SlackProofs | what gets onto a button passed the filter of `parseAllowDurations` (`Promised`, `ButtonsPositive`), so its seconds are positive and its deadline, where it fits the clock, is later than the press (`DeadlineLive`). A number of seconds that wrapped to another positive one is not excluded (section 6) |
| `FeedImplemented` (`ImplementsFeed`) | SlackProofs | under `ListenerInv`, each action changes the fate of the envelope it is about, as the feed says (`FateInTurn`), and of no other (`Unmoved`); the loss of the process is `Die` |
| `FeedSuffices` | SlackProofs | from the feed alone, case by case: only valid presses are handed over (`TakenWereValid`), and one is dropped only by `Die` (`LostByDeath`) |
| `TypeCorrect`, `SentIsAccepted`, `RateLimitsRespected` | BlockingCallsProofs | from `NotifierInv` (NotifierProofs): the phase fits the service (`Routes`), an alert is taken only when its call returns (`Deliveries`), the delay and the attempt agree with what was asked (`Attempts`) |
| `DeliveredOncePerLink` (`OncePerLink`) | BlockingCallsProofs | `LinkDeliveries`: the outbox holds an alert once at most, and while it does, a link that is up has not delivered it yet; so the broker takes it once for each link, and only a new link sends the outbox again |
| `SettledIsOnline` (`OnlineWhenSettled`), `GoneIsOfflineOrWilled` (`OfflineOrWilled`) | BlockingCallsProofs | `Statuses`: where "online" is still to come from while the retained status differs (a handler not run, the outbox), and that a will is held by the broker as long as no clean "offline" has replaced it |
| `FileNeverHalfWritten`, `ExportReportsTruthfully` | BlockingCallsProofs | from `FileProgress`: up to the rename the target is the old one, and from "close" on the temporary file is whole |

`KnownMacsTableProofs` has the lemmas on the table operators that the Monitor
proofs cite; `NotifierProofs` proves the steps of the notifier, and
`BlockingCallsProofs` those of the export and the composition.

Every safety property a passing run checks is a theorem. Only model-checked is
the liveness, which is out of the prover's reach: `Reconnects`,
`FetchesRecover`, `StopsOnCancel`, `NewDeviceAlerted`, `LapsedAllowAlerts`,
`ShutdownCompletes`, `PressApplied`, `OnlineWhileConnected`, `OfflineWhenGone`,
`SignalEnds`. `OnlineWhenSettled` and `OfflineOrWilled` are the part of
`OnlineWhileConnected` and `OfflineWhenGone` that needs no fairness. The contract has no fairness
either: that a device is alerted at all is `NewDeviceAlerted`.

## 5. Abstractions

- Time is phases in `Monitor` and `SlackListener`, and seconds in `Database`.
  `Monitor` puts no upper bound on how long a step takes.
- Names, messages and the payloads of the ten services are left out; an
  identifier is a model value and never empty, which is all `Identifier` shows
  of itself.
- In `Monitor` a failed send is a `SendAlert` like any other, because the code
  records the device either way (M 79-81, 197); `Notifier` has the failures.
- In `Monitor` decisions arrive by `PressButton` and `SlashCommand`, at any time
  and in any order, repetitions included. This covers every behaviour of
  `SlackListener`, which says when they arrive and which get lost.
- ALWAYS_NOTIFY appears in no guard: past the early `continue`s of the scan
  `isNew` is always true (M 266), so the option decides nothing.
- In `RestClient` a controller that is up answers a live session. The fetches of
  the pre-check and the IP wait are not repeated there: they change nothing.
- `MacsFile` ends a process, not the machine: what the kernel took it keeps. The
  list is not synced before the rename (C 233-244), so a power cut may lose it.
- The MQTT client library and the broker are modelled from what N 63-137 asks of
  them: in-order publications sent again after a reconnection, a retained
  status, a will.
- The two-connection pool of SQLite is not modelled: one goroutine uses it.

*Not modelled*, and why: the line syntax of the MAC file and `HumanDuration`
(pure text; what matters of the first, that Teleport IDs do not read back, is in
`ExportMacs`); the other settings of C, which are constants of the models; JSON
decoding and the layout of messages; the accessors of `types.go`; the schema
migration; `Dockerfile` and `docker-compose.yml`, of which SIGTERM, kill and
restart are kept.

## 6. Where the code and its own words disagree

1. `MonitorDuplicate`: a device without an IP is collected by one attempt of the
   wait and alerted with its IP by the next (or as a Teleport client in
   between); the loop over timed-out devices alerts it again (M 763), against
   the comment at M 285-287.
2. `MonitorReload`: with REMOVE_OLD_DEVICES, a MAC added to the file is silent
   after `/reload` only until the next check, whose reload uses the list read
   at startup (M 404), against README.md:265.
3. `MonitorForget`: with REMOVE_OLD_DEVICES and REMEMBER_NEW_DEVICES=false every
   check forgets the connected devices it has alerted (M 404), against
   README.md:411. `OnlyAbsentForgotten` holds in `MonitorReaper`, where devices
   are remembered.
4. `MonitorAlways`: ALWAYS_NOTIFY does nothing (M 237 before M 266), against
   README.md:348.
5. `EventStreamModern`: after a probe that failed while a UniFi OS controller
   was down, the legacy path stays cached; each successful login resets the
   failure count (W 98) that would clear it, against W 75-76.

Noticed, and without a run of their own.

*Main loop and table.* REQUIRE_IP does not hold back the "IP Unavailable" alerts
or Teleport clients (M 768, 690). The sweep takes a lapsed MAC out of the known
set although the seed lists it (M 803). KNOWN_MACS entries are not brought to
lower case (C 61), so an upper-case one never matches. An export to the seed
file itself drops the MACs that only the file had, and Teleport IDs do not match
the MAC pattern when it is read back. Without fallback polling a held device may
never be alerted. A device recorded over a lapsed row is purged by the next
sweep and alerts twice.

*Slack.* A second press made before the first has replaced the alert is applied
as well (README.md:246-247 speaks of one). A refused press replaces the alert and takes
the buttons away from those who may use them (S 317-321). A label that a new
configuration dropped is acknowledged and ignored without an answer. A
redelivered envelope may apply the older of two decisions last. A positive
length that wrapped to another positive one goes unnoticed (C 276).

*Notifier and files.* The fifth 429 is followed by a sleep that leads to no
attempt (N 164). Ntfy's default of 60 s a sleep is far beyond the
`stop_grace_period` of 15 s (docker-compose.yml:64). An MQTT publication that
timed out (N 133) is reported as failed and may still arrive. A connection
handler that runs while `DisconnectMQTT` is at work may leave "online" behind;
`OfflineWhenGone` excepts that (`raced`). A MAC in a comment of the file counts
as listed.

## 7. Plan

Done: the table and its refinement; the main loop with its safety and liveness;
the event stream and the session it shares; the Slack listener and its abstract
feed; the notifier, the export and their composition; the contract of alerting,
implemented by the main loop in every configuration; theorems for every safety
property of the runs. To come:

1. Safety of the event stream beyond its types: what the cached path may be.
2. That the decisions and commands of `SlackListener` are among those `Monitor`
   admits, as a common abstract inbox instead of the argument of section 5.
3. `MonitorLive` and `MonitorReaper` with more devices, where time permits.
