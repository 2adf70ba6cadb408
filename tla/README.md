# pi-calendar: a TLA+ verification project

pi-calendar is the firmware of a desk clock on a Raspberry Pi Pico W
(MicroPython): a lunar/solar calendar clock with a touch screen, alerts with a
buzzer, Wi-Fi set-up through its own access point, time from NTP and an
administration site. This directory models its core logic in TLA+, checks it
with TLC and proves the properties that matter most with TLAPS.

Source paths below are relative to the repository root; `settings_store.py` and
the like live under `src/`.

## 1. Inventory

The device is single-core and cooperative. `main.py` starts one of two stacks:
clock mode (`device/clock_mode.py`: coordinator tick, then App step, then the
port-80 knock, every 10 ms) or config mode (`device/config_mode.py`:
coordinator tick with the administration site, until an exit). There are no
interrupts and, in production, no threads; what makes it hard is *power loss at
any instruction*, *commits that fail*, *a clock that can be invalid or jump*,
*a network that drops in mid-exchange* and *users and browsers acting between
any two steps*.

| Component | State it keeps | Operations | Talks to | What makes it correct |
|---|---|---|---|---|
| Settings storage, `device/settings_store.py` | four files (current, `.bak`, `.tmp`, `.rejected`), the cached record | `load` (restore, quarantine, migrate), `commit` | called by everything that persists | an acknowledged record survives every crash; a failed commit leaves the old or the new record; nothing unreadable is ever installed; evidence is kept |
| Settings validation, `provisioning/validation.py`, `device/web/alert_validation.py` | none | `validate_settings_object`, `validate_alert_form_fields` | store, routes | whatever a form accepts the store accepts; what a record says of itself survives loading |
| Alert runtime, `alert/runtime.py`, `alert/terminal.py` | `_active_alert`, `_postponed_alert`, start tick, touch latch | `evaluate`, `t` (touch), `toggle_enabled` | scheduler, store, buzzer, App | an occurrence rings, is pending or is over, never two at once, in memory and on flash; it ends; one-time alerts ring once |
| Alert scheduler, `alert/scheduler.py` | baseline minute, raised keys | `evaluate` | alert runtime, config mode | one raise per alert and minute |
| App loop, surfaces and views, `app.py`, `ui/*.py` | trust, deadlines, in-flight sync id, surface, view, the views' caches | `step`: touch, sync result, sync request, network events, alerts, rollover, dwell, render | mailbox, coordinator events, alert runtime, display | a late or foreign result never sets the clock; a sync is retried for ever; surfaces time out; the display shows the state and nothing older |
| Sync mailbox, `device/network/mailbox.py` | command slot, result slot, idle flag, epoch | `enqueue`, `try_take_command`, `publish_result`, `try_take_result`, `occupy_result`, `soft_reset` | App and coordinator; main thread and worker of the proof harness | at most one request in flight; results are never overwritten; an answer belongs to the last command |
| Network coordinator, `device/network/coordinator.py` | mode, attempt, failure counts, candidate, NTP exchange, KDF jobs, web retry | `tick` and its handlers | WLAN, sockets, store, HTTP server, mailbox, events | every attempt on the stored network ends; three failures open the setup AP; a set-up is stored before it is announced |
| Mode handoff, `main.py`, `device/knock.py`, `device/mode_flag.py`, `device/config_mode.py` | the flag file, idle and alert deadlines | knock, request, consume, leave | reboot port, coordinator, scheduler | one knock is one session; a crash returns to the clock |
| Sessions, KDF jobs, password change, `provisioning/session.py`, `provisioning/*kdf*.py`, coordinator | session table, one KDF job, the acting session | create, renew, expire, keep_only; step, cancel | HTTP server, store | at most four sessions; a login that is not answered leaves none; a change ends the other sessions and only if it is stored; the right password is accepted whichever engine made the verifier |
| HTTP server and routes, `device/web/*.py` | two client slots, the held client, parsers, outboxes | accept, read, dispatch, hold, drain, close; the forms | coordinator, router, store | the held client is answered or gone; an answer leaves whole; an edit changes one thing |
| Civil time and calendars, `time/service.py`, `calendar/*.py`, `ticks.py` | none | UTC to local, due times, weekday, month grid, lunar date, wrapping ticks | everybody | agree with counting days and minutes |
| Buzzer and touch ports, `device/buzzer_port.py`, `device/touch_port.py` | pin, phase and deadline; chip selects, bus speed, `_down` | initialize, tick, silence; read | alert runtime, App, the panel's bus | silent means low as far as the port answers; it sounds again after a failure; one press is one touch |
| Display driver, fonts, pages, `device/display/*.py`, HTML | pixels | draw | App, server | the bus is the panel's while it draws (fonts and layout are output only) |
| Proof harness, `device/network/proof.py`, `worker.py` | a script, a worker thread, one lock | nine scenarios | mailbox | a scenario fails only for being late, whatever the interleaving |

Hazards, each at the line where it bites and with the properties aimed at it,
are in `PROJECT.json`.

## 2. Modules

| Module | Models |
|---|---|
| `DurableRecord` | what the store promises: one record, replaced atomically, served by `load` |
| `SettingsStore`, `SettingsStoreProofs` | `settings_store.py`, one action per file operation, failures and power loss between any two |
| `AlertRuntime`, `MCAlertRuntime`, `AlertRuntimeProofs` | `alert/runtime.py`, `alert/scheduler.py`, `alert/terminal.py` over a store that commits wholly or fails; its small instance is a one-time and a weekly alert |
| `AlertEditing` | the forms of the administration site and the ON/OFF control over the record, with both validators |
| `Mailbox` | `device/network/mailbox.py` |
| `NetworkCoordinator` | `device/network/coordinator.py` as clock mode runs it, over `Mailbox` |
| `ClockLoop`, `ClockLoopProofs` | the loop of `clock_mode.py`: a coordinator tick, then the network half of `App.step` |
| `ProofSuite` | `proof.py` on one thread, `worker.py` on another, over `Mailbox` |
| `HttpServer` | `device/web/server.py`: client slots, outboxes and the held client, and the browsers around them |
| `AdminSite`, `AdminSiteProofs` | config mode from the knock to the reset: `knock.py`, `mode_flag.py`, `config_mode.py`, the station half of `coordinator.py`, `session.py`, over `HttpServer` |
| `HttpExchange`, `HttpExchangeProofs` | one connection byte by byte: `http_parse.py`, `scan_response.py`, `_read_client` and `_write_client` |
| `KeyDerivation` | the verifier of a record and the three jobs that derive one: `kdf_job.py`, `native_kdf.py`, `setup_kdf.py` |
| `Deadlines` | `ticks.py` over the device's counter, under the redraw of the clock and the idle time of sessions |
| `CivilTime`, `MCCivilTime`, `CivilTimeProofs` | `time/service.py`, `clock_port.py`, the minute arithmetic of `scheduler.py`, `gregorian.py`, `lunar.py`; its windows of time and the table of new moons |
| `Screen`, `ScreenProofs` | what is on the display and what App, its surfaces, its views and the compositor remember of it |
| `AlertBuzzer`, `SharedBus` | `buzzer_port.py` with its users in the runtime; `ili9341.py` and `touch_port.py` on one bus |
| `Ports` | the two side by side |
| `Parts` | the six parts that share no state, chosen initially: `Ports`, `AlertEditing`, `KeyDerivation`, `Deadlines`, `HttpExchange`, `ProofSuite` |
| `PartsProofs` | the theorems about `Ports`, `AlertEditing`, `KeyDerivation`, `Deadlines` and `ProofSuite` |

`AlertRuntime` and `AlertEditing` compose with the store by its contract: a commit in them is the
`Request / Replace / Acknowledge or Fail` of `DurableRecord`, in one step (an
error leaves the old or the new record on flash and the old one in the cache),
which is what `SettingsStore` is shown to implement.

### SettingsStore

A record is `<<version, payload>>`. `disk` maps the four file names to a record,
`Absent` or `Bad` (a file `validate_settings_json` rejects). `unsynced` names
the files whose data may still be torn by a power loss; `os.sync` empties it,
a rename moves the mark with the data. `pc` is the next file operation;
`record` is the one being committed; `served` is `_cached` once `load` has
returned. `promised` is an observer: the payloads a later boot is allowed to
serve, i.e. what was served or acknowledged last, and what a commit tried since.

| Action | Code |
|---|---|
| `LoadCurrent`, `LoadBackup`, `CheckRejected` | the decisions of `load` (128-176) |
| `Quarantine`, `SyncRejected`, `RestoreBackup`, `SyncRestored` | 178-188 and `_restore_bak_to_current` |
| `Commit`, then `WriteTmp`, `SyncTmp`, `RemoveBackup`, `RotateCurrent`, `InstallTmp`, `SyncCurrent` | `commit`, `_commit_record`; a legacy record enters at `WriteTmp` from `load` |
| `CommitFails` | `SettingsCommitError`, which `commit` lets out and a migrating `load` swallows |
| `PowerLoss`, `PowerOn` | the process dies; each unsynced file may be torn |

Assumed of the flash: a rename is atomic and takes effect at once and in order;
`os.sync` exists and makes everything durable; reads, writes, removes and
renames may raise `OSError` (`Faults` says which). Every start finds any
combination of files (`Init`).

Properties: `NeverLost` (the files always hold a promised payload), its action
form `RebootServes`, `NoTornCurrent`, `EvidenceKept` (a `load` that has nothing
to migrate destroys no content), and `ImplementsContract`, the refinement of
`DurableRecord` by `Effective`, the payload a fault-free boot would serve.

### AlertRuntime

Civil time is a minute counter `local` (`None` while the RTC is invalid); a
schedule matches the minute of the day and the day of the week. `flash` is the
record on disk and `settings` the one `store.load()` returns; they differ after
a commit that failed late. `evaluate` is one App step and its ten disjuncts are
the return paths of `runtime.evaluate` in the order of the code (pending before
active, POSTPONE before STOP before auto-stop). `TerminalCommits` is the pair
of commits that ends an occurrence, each of which may fail on its own. Between
two steps the user taps (`Tap`), toggles an alert (`Toggle`), a minute passes
(`Tick`, only after an App step, since steps are milliseconds), a sync sets the
clock to any minute (`SyncClock`), or the device restarts, possibly after
a config-mode session that rewrote the alerts (`Restart`; every commit of
that site drops the pending occurrence).

Abstracted: the touch latch (a tap is one new edge in the right zone), drawing,
the buzzer's phases and faults (`sounding` is the last word said to it; the rest
is `AlertBuzzer`),
the exact date arithmetic (`Later` adds minutes on a line and saturates at the
bound `Horizon`).

Properties: `OneLife`, `RetiredStaysSilent`, and the liveness properties
`ActiveEnds` and `PostponedResolves`. Fairness: `evaluate` and `Tick` are weakly
fair (the loop of `clock_mode.run` never blocks and catches every exception; time
passes), and a write that every step asks for again is not refused for ever
(`WF_vars(evaluate /\ settings' # settings)`): without it a dead flash keeps
a postponed occurrence retrying for ever, which is what the code does. Nothing
is assumed of users, syncs or restarts.

### Mailbox, NetworkCoordinator, ClockLoop

`ClockLoop` is the composition: `turn` walks through the loop body, `tick`
(one of the coordinator's four handlers) and then App's `Consume`,
`MaybeEnqueue` and `Drain` in the order of `App.step`. A step may fail before
it reaches the mailbox (`StepAborted`), or the tick before it may raise
(`TickRaises`) and take the step with it, since the loop catches every exception at
its end; so results and events can wait over several ticks. Between the two halves time
passes (`Time`) and the radio joins or loses a network (`Radio`).

| Action | Code |
|---|---|
| `TickSetupAp`, `StartCandidate` | `_tick_setup_ap`, `_activate_setup_ap`, `_start_candidate` |
| `TickCandidateJoin` | `_tick_candidate_join`, the KDF job, `_fail_candidate`, and `_complete_candidate_success` to its end: `CandidateOnline` (1123-1163), then `CandidateJoined` (page sent, access point down, candidate cleared) |
| `TickRaises` | the same, when building or queueing the success page raises (1165-1169): `CandidateOnline`, and nothing of the rest |
| `TickStoreStation` | `_begin_store_station_attempt`, `_tick_store_station`, `_fail_store_station` |
| `TickOnline` | `_watch_station_drop`, then `tick` from the mailbox on: `_start_ntp`, `_poll_ntp`, `_finish`, `_handle_online_sync_failure` |
| `Consume`, `MaybeEnqueue`, `Drain` | `_consume_sync_result`, `_maybe_enqueue_sync`, `_drain_network_events` |

Deadlines are kept as the time left to them (`timer`, `left`, `retry`), counted
down by `Time` and saturating at zero, since the code only asks whether they
have passed. `joining` is the network `connect()` was last called for, `link`
what `isconnected()` says; every call of the interface may raise, `disconnect()`
may fail silently, the settings may be unreadable and the set-up's commit may
fail. `_emit` may raise wherever the coordinator announces something: the two
announcements of going online are then lost (`StationJoined`, `CandidateOnline`),
that of the access point is tried again (`ActivateAp`; `apActive` is
`_setup_ap_active`, which is set only once App was told). `started` and `timer`
stand for the candidate's pair of fields while there is a candidate and for the
station's otherwise; no code reads the other pair meanwhile. A candidate that a
raising page left over stays through online and through drops (`Arm` keeps its
fields). Only the success page can be left half sent: a Connect request is answered
before the join (`server.py:405-420`), so no client is held during it and
`_fail_candidate` has nobody to write to. What is left of the deadline of a request and
the `age` of its answer are set to zero once App waits for it no longer. `overlay`
keeps the station's address and nothing apart from "setup" only as `"none"`. Command
ids grow for ever in the code; no two are in use at once (`OneRequest`), so they are
counted modulo 2. `age` and `astray` are observers: `astray` says that App was not
told that the access point goes down, or that it did not go down.

Left out: the administration site of config mode (below), scanning for networks,
the retries and back-off of the web listener, the event kinds App ignores, and
the legacy credentials of a device without a settings store.

Properties: `OneRequest`, `FreshClock`, `SetupOnScreen` (which excepts what
`astray` observes; Known disagreements), `OnlineIsStored`, and
the liveness properties `StationResolves` and `RequestEnds`. Fairness: the loop
goes round (weak), a step that is reached again and again is not aborted for
ever and time passes while the loop runs (strong, because each is enabled only
in some of the loop's positions). Nothing is assumed of the radio, the NTP
server, the flash or the browser.

### HttpServer, AdminSite

`HttpServer` keeps the clients in the order they were accepted, who of them has
an outbox (`answers`) and who is `held` for a key derivation. `wire` and `asks`
are the browsers' side: a browser connects, sends one request, closes at any
moment and may come back. Requests and answers in pieces are `HttpExchange`'s;
a piece that completes nothing changes nothing here and is not a step.

`AdminSite` walks one turn of `config_mode.run` through the places where the code
reads the outside world again (`phase`): the derivation, the new connections, the
waiting answers, one request, the endings. `Browse`, `Expires` and `Time` happen
between any two of them; `PowerLoss` too. Outside config mode the device is
`"off"` or in clock mode, where somebody may knock.

| Action | Code |
|---|---|
| `Knock`, `Boot` | `ConfigModeKnock.tick` with `request_config_mode`; `consume_config_mode`, whose removal may fail |
| `KdfTurn`: `StepKdf`, `FinishLogin`, `FinishChange`, `FinishRaises`; `StationDrops`, `Reconnecting`, `SetUp` | the first half of `_tick_station_config`, `_finish_login_kdf`, `_finish_password_change_kdf`, and an answer that raises; `_watch_station_drop` with `_abort_config_auth`; the way back online, directly or through the setup access point |
| `AcceptTurn`, `ServeTurn`, `ReadTurn` | `_tick_station_config` from `_web_retry_due` on, `server.tick`, `_dispatch_config` with `route_config_request`, `_start_login_kdf`, `_start_password_change_kdf` |
| `LoopTurn`, `Reset` | the endings of `config_mode.run`, `_leave` |

Abstracted: a page stands for every request that needs no derivation (reading
settings, saving alerts, leaving); a verifier is the password it was made from
(`KeyDerivation` shows that it may be),
and a session remembers, for the properties only, the password it was opened
with; deadlines of sessions are a choice. A set-up that replaces the password
while config mode is offline leaves the session table alone, in the code and in
the model, where the sessions then count as the new password's. Left out: the
setup site's own browsers, which would also keep config mode open, and which alert
is due (`Reset` may come at any turn). Allocations of a few bytes in the session
table are assumed to succeed; building a page is not.

Properties: `SessionsCurrent`, `SessionEarned`, `OneKnockOneSession`, and the
liveness properties `JobEnds` and `AbandonedEnds`. Fairness: the loop goes round
(weak), and time passes while it does (strong). Nothing is assumed of browsers,
the radio, the flash or the memory.

### AlertEditing

The record the owner edits: `flash` on flash, `served` in memory, alerts numbered
as `alert-1`, `alert-2`, ... A form is a record whose fields may be valid, missing
(`Nothing`) or unparsable (`Bad`). `Request` is one POST of the site: form
validation, the route's edit, `validate_settings_object` over the whole record and
the commit, which may fail early or late. `Toggle`, `Postpone`, `ChangePassword`,
`SetUp` and `Reload` are the other writers and the restart.

Properties: `FormsFit` (no form is accepted whose record the store then refuses),
`OneChange`, `DistinctUntilDeleted`, and `EditsKeepPending`, which is violated.
Fairness: none, safety only (so are all modules below).

### ProofSuite

`proof.py` as it is: a script. Each scenario is a sequence of instructions
(`Scenarios`) that the main thread runs against the mailbox; the worker thread
takes a command (`Take`), begins and finishes its operation outside the lock
(`Begin`, `Finish`) and publishes (`PublishAnswer`), any step between any two of
the main thread. `soft_reset` bumps the epoch, which makes an orphan of what the
worker is at. Time is not counted: a wait may time out at any moment, which is
noted in `late`.

Properties: `OwnAnswers`, `IdleTells`, `FailsOnlyLate`.

### HttpExchange, KeyDerivation, Deadlines

`HttpExchange` feeds the parser letter by letter (a letter is one of the texts that
matter or any other byte), in pieces of any length up to `PerTick`, and sends the
answer's source through a socket that takes any part of a chunk, nothing, or
fails. `AnswerFits` compares the outcome with `Deserved`, a definition of what a
request is that looks at its text alone.

`KeyDerivation` derives a verifier in slices of `Budget` rounds or of any number of
rounds (the portable engine looks at the time, the native one counts), for a
login, a change and the set-up; jobs may be cancelled, fail, or be lost with a
reset, and a commit may fail early or late. HMAC is a perfect function: the value of
round *i* is *i*, and what is accumulated is the set of rounds. `VerifierHolds`:
every record is faithful to its version and a login is accepted exactly when the
word typed is the record's. `LegacyVerifies` starts from a record of the older
firmware and is violated.

`Deadlines` keeps the device's counter (`ticks`, what `ticks_ms` returns) and two
users: the redraw deadline of the clock loop and the idle deadlines of the session
table. `CounterPeriod` is the period of the counter and `Period` the one `ticks.py`
computes with; the module assumes what the device has, a counter that goes round at a
quarter of `Period` or earlier (`DeadlinesAssumption`). `unpainted` and `quiet` observe
the true time since the view was drawn and since a session was renewed; `turned` and
`rounded` whether the counter went round since. `SessionsIdleOut` says that no session
ends early, over any number of rounds, and that one that is still served when it
should not be was renewed before the counter went round. `RedrawsInTime` has no such
exception and is violated.

### CivilTime

The RTC's registers run beside `now`, the true number of minutes, and a postponed
occurrence (`due`) beside `dueAt`, the minute it was promised for; the device may
be at any of the `Moments` of each day of a window. `LocalIsCivil`, `DueOnTime`,
`GridIsTheMonth` and `LunarFollows` compare each result with counting. The astronomy
of `lunar.py` is tabulated (`NewMoonDay`, `SunSector`: the values that its series
give); the calendar that is built from it (leap months, the month a day falls in,
the correction by one new moon) is modelled as written. `LeapYears` are the leap years of
the chip, whose rule is not the one of `gregorian.py`; where a clock is valid the two agree.

### Screen

One App step is `Poll`, `ReadClock`, `Evaluate`, `Rollover`, `Dwell`, `Paint`; between
two of them `PassTime`. What a view or the compositor remembers having drawn (`cache`,
`comp`, `list`) is kept apart from what the display shows (`screen`), as in the
code, which never reads the display back; a time is kept as its age (this second,
minute, day, month, or older). Drawing a page may raise after any of it was drawn.
Touches arrive at any poll, in any zone; alerts begin, end, are joined and postponed.

Properties: `ScreenTrue`, `IdleReturns`, and `AlertLeaves`, which is violated and
whose leftovers `ScreenTrue` therefore excepts (`Leftover`).

### AlertBuzzer, SharedBus

`AlertBuzzer` gives each call of the port the set of its outcomes (the port
afterwards, success, whether a write failed), and composes them as the runtime's
helpers do: raise, keep sounding, postpone, auto-stop, stop. `SharedBus` has one
transaction of the panel or one poll of the touch controller at a time, each of whose
operations may fail and be abandoned there; the hand-back tries every operation
whatever fails.

`unset` observes that the last hand-back could not set the panel's speed. The next
one that can ends it: the `failure_code` of the port, which stays, is read by nobody
under `src/src`. Properties: `Recovers`, `BusBelongs` (which excepts the speed while
`unset`; Known disagreements), `OnePress`.

## 3. Runs

| Run | Instance | Shows |
|---|---|---|
| `StoreFaults` | two payloads; write, sync and remove may fail; power loss anywhere, any number of times; about 21,000 states | `NeverLost`, `RebootServes`, `NoTornCurrent`, `EvidenceKept`, `ImplementsContract` |
| `Alerts` | a one-time and a weekly alert, two-minute days, five minutes, one restart, one clock jump, any commit may fail; about 471,000 states | `OneLife`, `RetiredStaysSilent`, `ActiveEnds`, `PostponedResolves` |
| `ClockLoop` | two networks, deadline 2, gap 1, retry 3, two failures to the access point, two failed syncs to a reconnect, no App step lost with two events waiting; about 997,000 states | types, `OneRequest`, `SetupOnScreen`, `OnlineIsStored`, `FreshClock`, `StationResolves`, `RequestEnds` |
| `AdminSite` | two browsers, two slots, two passwords, two sessions, derivations of two steps, one unit of idle time, answers may fail to be built; about 390,000 states | types, `SessionsCurrent`, `SessionEarned`, `OneKnockOneSession`, `JobEnds`, `AbandonedEnds` |
| `CivilTime` | an invalid clock of 2021; the end of 2024 to the end of 2028; spring 2054; the last days of 2099; five moments a day (midnight in UTC, before, at and after it in local time, the last minute), delays of 1 and 60 minutes, UTC+7; about 41,000 states | `LocalIsCivil`, `DueOnTime`, `GridIsTheMonth`, `LunarFollows` |
| `Screen` | every time one unit, but two for a slide of two lines and for the idle times; two alerts on two pages; four pages that may fail to draw; about 9 million states generated | `ScreenTrue`, `IdleReturns` |
| `Parts` | the six parts of `Parts`, one after the other; about 138,000 states (ports 39,000, editing 16,000, suite 38,000, derivation 33,000, deadlines 4,000, exchange 9,000) | `Recovers`, `BusBelongs`, `OnePress`, `FormsFit`, `OneChange`, `DistinctUntilDeleted`, `VerifierHolds`, `SessionsIdleOut`, `AnswerFits`, `OwnAnswers`, `IdleTells`, `FailsOnlyLate` |
| `StoreRename` | only renames may fail | `NeverLost` is violated |
| `AlertEditingPending` | one time, one set of days, three alerts | `EditsKeepPending` is violated |
| `ScreenStale` | one alert, nothing fails to draw | `AlertLeaves` is violated |
| `TicksWrap` | the same counter and period as `Parts` | `RedrawsInTime` is violated |
| `VerifierLegacy` | a record of the older firmware | `LegacyVerifies` is violated |

Deadlock is checked except where the device may really stop: a window of `CivilTime`
ends, and in `Screen` the device may be reset.

Why the bounds are enough. The store never compares payloads, so two suffice to
tell the old record from the new; its state space is finite and crashes and
commits are not bounded. For alerts, five minutes cover raising, a delay of two
minutes, the auto-stop after two, and a second day on which the weekly alert
fires again; one restart and one jump each happen at every point of every
behaviour, and the theorems below hold for any number of them. For the loop, two events
waiting (`EventLimit`) are two that disagree; two
networks tell the stored one from a candidate; a deadline of two units and a
retry of three let an answer arrive in time, at the deadline and after it, and
a drop outlive a request; the limits of two distinguish "not yet" from
"exhausted". The number of drops, failures and set-ups is not bounded. For the
site, two browsers let one wait while the other is served, held or gone, two
sessions are the acting one and another, and a derivation of two steps is still
running when the server reads the next request; knocks, drops, resets and
requests are not bounded. The windows of `CivilTime` hold a leap day, the ends of
days, months, years and of the RTC's range, two lunar leap months and the spring in
which the estimate of the lunar month is off by one; a month grid depends on the
weekday of the first and the length of the month only, and four years hold nearly
every combination. On the screen two alerts on two pages and slides of two lines
give each animation and each page change a middle and an end. Of the parts: three
alerts let an id be reused after a deletion, with one in between; five rounds in
slices of two leave a last slice that is shorter; a counter of 8 in a period of 32,
read after steps of 1 and 2, goes round in every phase of an idle time of 4; request lines of 4,
headers of 8 and bodies of 2 letters lie below, at and above every limit with the
texts of `Parts`; five samples and four pauses let a failure fall before, on and
after the middle one; two iterations make the suite's last scenario meet the
leftover of the one before.

What the five violations say (quotations in `PROJECT.json`):

1. `StoreRename`: after a failed install rename the backup is the only record;
   the next commit removes it before its own record is installed.
2. `AlertEditingPending`: every edit of the site builds its record without the
   pending occurrence and so ends a postponement.
3. `ScreenStale`: when an alert ends in the minute its base view was drawn in, the
   view finds its cache up to date and the alert's page stays on the display.
4. `TicksWrap`: `ticks.py` wraps at 2^32 and MicroPython's counter at 2^30. A redraw
   deadline armed just before the counter's wrap (12.4 days after a reset) is not
   reached after it: the clock stands still until a touch, an alert or a new date.
5. `VerifierLegacy`: a legacy record is loaded with the current version, a login
   derives the current number of rounds, and the right password is rejected.

### Known disagreements

Where the code does something else than its documents, comments or names suggest
and the modules follow the code. The five violations above, and:

- An alert due in the boot minute is silent at the first evaluation and rings at the
  second (`scheduler.py:103`); `config_mode.py:33-35` relies on it.
- A restored occurrence that is overdue loses its `restored` mark at an evaluation
  without a valid clock and rings later (`runtime.py:355`).
- A read error counts as a missing file, and an older backup is then moved over a
  newer record (`settings_store.py:75`). The runs and theorems leave read errors out.
- The deadline of a candidate join is not looked at once the setup KDF has started;
  if the station drops then, the join never ends (`coordinator.py:1068`).
  `StationResolves` is about the stored network for that reason.
- A request from before a drop fails after the reconnect, and its failure overwrites
  the retry deadline that the online event had made due (`app.py:470`, `377-379`).
- A connection on which nothing is ever sent keeps config mode open
  (`coordinator.py:252`; no client has a timeout). `AbandonedEnds` excepts connections.
- The end of a set-up is "emit online → flush browser success → close clients → drop
  AP" (`coordinator.py:1151`), and its story asks that "the browser receives success
  before its connection closes, the AP deactivates only afterward, and a station online
  event is emitted"
  (`_bmad-output/implementation-artifacts/wifi-config/spec-1-2-complete-wi-fi-setup-from-a-phone.md:104`).
  If the event is lost (`coordinator.py:1156-1163` swallows what `_emit` raises), the
  access point goes down all the same and App stays on the set-up screen and asks for
  no synchronization; so does, without the screen, a station that joins the stored
  network (435-442). If the success page cannot be built or queued (1165-1169 are in no
  `try`), the station is online and App told so while the access point stays up and the
  candidate stays too: a drop then resumes its join, and if that fails the coordinator is
  back in `SETUP_AP` with an access point it takes for announced, under the screen of the
  station. `SetupOnScreen` excepts both (`astray`), until the next change App is told
  of; in `RequestEnds` a lost event means that there is no request.
- `touch_port.py:97-98`: "Keep the TFT deselected rather than allowing an unknown-speed
  transaction. The next poll retries the normal handoff." The port does not select the
  panel, but the panel's driver does, for every command (`ili9341.py:53`, `60`), so
  what is drawn between a hand-back that could not set the speed and the next one that
  can goes to the panel at the touch controller's speed. `BusBelongs` excepts exactly
  that (`unset`).
- `SessionTable.expire` says "Drop entries whose idle deadline has passed (wrap-safe)"
  (`session.py:118`; also `wifi-config/epic-2-context.md:28`). It is not, for the reason
  of `TicksWrap`: the deadline of a session renewed in the last 15 minutes before the
  counter goes round lies beyond the counter's range, so the session is served until it
  is renewed again and for 15 minutes from then, and one that was over but not yet
  swept from the table may come back. `SessionsIdleOut` excepts these sessions
  (`rounded`).
- Config mode never looks at a postponed occurrence (`config_mode.py:63`).
- `_load_admin_verifier` returns two values on its error paths
  (`coordinator.py:844`, `848`), where its caller unpacks three.
- After a deletion, `alert-<count + 1>` may be the id of another alert
  (`alert_route.py:10`). `DistinctUntilDeleted` stops there.
- `lunar.py` gives a lunar day 0 on 2054-05-07 and 2062-04-09, where its estimate of
  the month is one too high. `LunarFollows` allows it at a month's end.
- `Stop` ignores that silencing failed, so the app may not know of a failed buzzer
  until the next alert; `Recovers` counts two alerts for that reason.
- A tap that ends in the last sample of a poll and is followed at once by another
  is one press (`_down` stays set); a failed hand-back loses the press; and a
  touch controller that could not be deselected is not reported.

## 4. Proofs

All theorems are checked by tlapm for every value of the constants allowed by
the named assumptions.

`SettingsStoreProofs`:
- `TypeCorrect`, `CurrentNeverTorn`: for any set of faults. The invariant of
  the latter is that a record that is about to be renamed to *current* (by
  `InstallTmp` or `RestoreBackup`) was synced, and is valid.
- `PromisesKept`, `RebootsServePromises`, `ContractHolds`: under `NoMoveFails`
  (renames and reads do not fail), which `StoreRename` shows is needed for renames. The
  inductive invariant says, per step of `load` and `commit`, where the record
  that is owed is: in *current*; in *bak* while *current* is being replaced; or
  in the synced temporary file. `ContractHolds` maps each file operation to a
  step of `DurableRecord` or a stutter (`InstallTmp` and a failed write of an
  unconfigured process are the only ones that change `Effective`).

- `EvidenceAlwaysKept`: if a read never fails, no step of `load` leaves a content in
  fewer files. The invariant `Vacant` says that the name a rename of `load` is about to
  fill is free. Reads must not fail because `_read_envelope` takes every `OSError` for a
  missing file (`settings_store.py:75`), so that a rename may then replace a file that is there;
  `StoreFaults`, which checks the property, has no such fault either.

`AlertRuntimeProofs`:
- `AlertTypes`, `OneLifeAlways`, `RetiredForGood`. `OneLife` is not inductive
  alone; the invariant adds that a ringing occurrence whose postponing is half
  stored is still marked for postponing (`HalfStored`), that what rings was
  enabled when it was raised (`RingingEnabled`), and that retired alerts are
  neither enabled nor pending nor ringing (`RetiredGone`).

`ClockLoopProofs`:
- `ClockLoopTypes`: the counts stay in range because the failure count is zero
  online and below its limit while the stored network is being joined (`TypeInv`).
- `OneRequestAlways`: `OneRequest` with the types of the slots is inductive: a
  request moves from the command slot to `_command` to the result slot, and
  App enqueues the next one only when all three are empty.
- `OnlineIsStoredAlways`: the invariant `JoinInv` adds what was last asked of
  the interface: without a candidate, the stored network or none; with a
  started candidate, the candidate or none; and a link means that something was asked.
  A candidate that is left over online is the stored network.
- `FreshClockAlways`: what is left of a request's deadline and the age of its
  answer never exceed the deadline together (`AgeInv`).
- `SetupOnScreenAlways`: unless the last way online went astray, the last event
  waiting, or with none the overlay, tells whether the access point is up; and it is up
  only in `SETUP_AP` or with a candidate (`ScreenInv`). Hence a lost event of a station
  that joins the stored network does no harm to the screen: the access point was down
  and App knew.

`AdminSiteProofs`:
- `SiteTypes`: the types are inductive with the browsers in the slots all different, a
  session table that is finite, and no answer outstanding when a turn begins to read
  (`TypeInv`).
- `SessionsCurrentAlways`, `SessionEarnedAlways`, `OneKnockAlways`: the invariant
  `SiteInv` adds that the held client is the one whose derivation runs
  (`HeldByJob`: a slot that was freed by its browser is not taken again before
  the derivation ends) and that a flag on flash means a knock not yet served.

`PartsProofs`, a section each:
- `AlertEditing`: `FormsAlwaysFit`, `DistinctAlways`: the records stored are valid, and until
  a deletion the alert at place *i* has the id *i* (`EditInv`). `OneChangeAlways`: the
  record every handler builds differs from the one served as its form says, and what is
  saved, if anything, is that record.
- `KeyDerivation`: `VerifierAlwaysHolds`: after *k* rounds the last link of the chain is
  the *k*-th and what was accumulated holds the rounds 1 to *k* (`OnCourse`), so every
  record is one that the reference derivation makes (`Made`).
- `Ports`: `BuzzerRecovers`: `BuzzerInv` adds that a port that answers drives the pin as its
  phase says, that a quiet alarm means a quiet port, and that after one alert the port
  is ready or its fault is known. `BusBelongsAlways`, `OnePressAlways`: `BusInv` adds
  that between transactions only a controller that is stuck is selected and only a last
  hand-back that failed leaves the wrong speed, and that a finger not seen to leave is
  remembered as down.
- `Deadlines`, on the device's counter (`4 * CounterPeriod <= Period`, idle time and redraw
  interval shorter than the counter's period): the difference of a reading and a deadline is then never
  wrapped (`Differs`), so an entry is alive exactly while the counter reads less than its
  deadline (`AliveBefore`). `SessionsIdleOutAlways`: `DeadInv` ties every entry's
  deadline to the true time since its session was renewed, in the same round or in a
  later one, and says that a session that was idle for less has its entry.
  `RedrawsInTimeUntilRound`: until the counter goes round the deadline is as far ahead
  as the age of the view leaves (`DrawnInv`), so `TicksWrap`'s counterexample is the
  only kind there is. Neither has a hypothesis.
- `ProofSuite`: `OwnAnswersAlways`, `IdleTellsAlways`: the invariant `SuiteInv` says that a job
  the mailbox has not given up is the last command and its slot then empty, and that the
  result slot is filled by somebody else only while the fourth scenario has its plant
  there (`Planting`). `FailsOnlyLateAlways`: `LateInv` says of every instruction of the
  script what it finds when nothing was late: nothing failed, the slot holds the plant or
  nothing, the answer it waits for is one its scenario accepts, and the next instruction
  is ready.

`HttpExchangeProofs`:
- `AnswerFitsAlways`: `AnswerFits` judges a request by its text alone, through the places at
  which its lines end (`RequestEnd`, `BlankEnd`, `WrongEnd`). Such a place stays where it is
  when more bytes come, so a verdict once given stays (`DeservedStays`). `InPlace`
  says what the parser remembers of the text it was fed: in the request line the text
  so far; in the headers the line begun, the count of bytes since the request line and the
  last Content-Length; in the body what follows the blank line. Every byte keeps it
  (`LineFed`, `HeadersFed`, `BodyFed`), hence every piece (`PieceFed`). A chunk of the
  answer is what lies between its two offsets, whatever the parts (`ChunkIs`), so with the
  cursor back at what was sent the bytes leave in order (`ExchangeInv`). For every
  text, every page and every limit; no hypothesis.

`CivilTimeProofs`:
- The code does arithmetic on days in several ways: a weekday, a Julian day, the ordinal of
  the countdown, a comparison of tuples, a step to the next or the previous date. `DayNo`
  numbers the dates of the calendar, and the lemmas of the first part show that each
  way is arithmetic on that number (`WeekdayIs`, `JulianIs`, `OrdinalIs`, `DueIs`,
  `DayAfterIs`, `DayBeforeIs`, `AddMinutesIs`, `LocalIs`), for every year.
- `LocalIsCivilAlways`, `DueOnTimeAlways`: the invariant `CivilInv` says that the registers
  hold the number and the weekday of the true day up to the end of 2099, the last year
  a reader accepts, and that a due minute has the number of the minute promised.
- `GridIsTheMonthAlways`: the *i*-th cell of the grid has the number of the *i*-th day from
  the Monday on or before the first (`GridCells`).
- All three hold for every offset of less than a day, delays of up to an hour and any
  moments and windows. Two `ASSUME`s say what the chip and a sync are: every fourth year
  from 2001 to 2099 is a leap year of the RTC (`LeapYearsAssumption`), and a sync sets a
  date that has the number and the weekday the window gives it (`WindowsAssumption`).

`ScreenProofs`:
- `ScreenTrueAlways`: the code never reads the display back, so `ScreenInv` ties it to what is
  remembered of it, part by part: a valid `cache` is what the base on the display shows
  (`BaseInv`), a page the compositor knows covers all of it (`CoverInv`, `ListInv`), a
  bar drawn higher than the compositor knows is uncovered by the next base
  (`BarInv`). The hypothesis `"alerts" \notin Faulty`: when drawing another page
  of the list fails halfway, the list keeps what it drew last, and going back then
  draws nothing over the half page; `Screen` checks the property with the other pages failing.
- `IdleReturnsAlways`: `IdleInv` adds that without an alert no release is due and that
  after the poll there is time left or there was a touch. No hypothesis.

Hypotheses of theorems beyond the modules' `ASSUME`s are those named above. The
`ASSUME`s say that the constants are what the code's tables make them (positive
limits, model values that are none of the data, a slide no taller than the display).

Only model-checked: liveness (`ActiveEnds`, `PostponedResolves`,
`StationResolves`, `RequestEnds`, `JobEnds`, `AbandonedEnds`), which TLAPS does not do
under fairness; and `LunarFollows`, which rests on tabulated data. What `Feed`,
`PartEnds` and `ResponseChunk` compute is proved for every input without an induction theorem:
the set of places where the claim fails is a set of naturals, and its least element
(`LeastExists`) is refuted by the step.

## 5. Not modelled

- Fonts, glyphs, layout, colours and the HTML pages: output without control.
- Touch calibration, the pin's active level, coordinates of the display: conversions
  no property is about.
- The floating-point series of `lunar.py`: tabulated, since TLA+ has no floating point.
- The field-by-field syntax of settings (`validation.py`), percent-decoding and
  cookies (`http_parse.py`, `router.py`): a field is valid, missing or bad.
- HMAC-SHA256 itself: a perfect function.
- `ntp_ops.py`'s packets and name resolution: outcomes.
- Scanning for networks, the retries of a listener that cannot bind, the sockets of
  the knock, config mode's own page and its list of due alerts (`Reset` may come at any
  turn), the network status view.
- Boards, build scripts, host tools and the planning documents beside the firmware
  (`_bmad`, `.agents`): not part of the program.
