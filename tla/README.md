# A TLA+ model of the Anker SOLIX X1 integration

This directory models the Home Assistant integration `custom_components/anker_x1`:
the polling and control of inverters, each over its one Modbus TCP connection, from the
config flow that sets an inverter up to the values that reach the recorder. The
reference is the code; line numbers below are those of `src/custom_components/anker_x1/`.

## The system

| part | state | operations | interacts with |
|---|---|---|---|
| Coordinator, polling (`coordinator.py:229-623`) | `data`, serial, nameplate bounds | `_async_update_data`: nine register blocks A to M in order, one await each, under `self._lock` | socket, skip-list, control methods (lock), entities (data) |
| Coordinator, control (`coordinator.py:647-776`) | none of its own: the inverter's registers | nine methods, each one or two register writes under the lock, then a refresh request | socket, lock, bounds |
| Socket recovery (`coordinator.py:134-223`, `modbus_client.py:58-87, 163-197`) | the pymodbus client | drop the connection on a transport error, reconnect before the next task | everything that touches the wire |
| Skip-list `OptionalBlocks` (`modbus_client.py:90-160`) | `_timeouts`, `_retired_at` | `should_read`, `record_success`, `record_timeout` | blocks H and M of the poll |
| Register codec (`modbus_client.py:205-278`) | none | `decode_*`, `le_words` | poll decode, control writes |
| Derived values (`coordinator.py:338-555`) | none | PV strings, pinning, charge correction, inverter loss, meter voltages | codec, entities |
| Daily energy sensor (`sensor.py:505-599`) | baseline and its day, stored by RestoreEntity | restore, midnight, `native_value` | coordinator data, wall clock, recorder |
| Control entities (`number`, `select`, `switch`) | none | offer a range or options from `coordinator.data`, call a control method | coordinator |
| Other sensor entities (`sensor.py`) | none | read `coordinator.data` | coordinator |
| `set_watchdog` service (`__init__.py:59-92`) | the inverter's watchdog register | pick a coordinator, check, write | coordinators of all entries, poll interval |
| Entry life cycle (`__init__.py:95-145`, `history.py`) | `hass.data`, listener and nightly purge | set up, first refresh, reload on new options, unload | coordinator, Home Assistant's entry states |
| Config and options flow (`config_flow.py`) | the config entry | test a connection, choose the unique id, change options | own client, life cycle |
| `tools/x1_control.py` | own socket, `engaged` | control loop with signal handler | inverter |
| Other tools (`scan.py`, `charge_test.py`, ...) | none | straight-line reads and printing | inverter |

What is hard here: all tasks share one event loop, one lock and one socket, and
meet at every `await`. A request that pymodbus gives up on may be answered later,
and its late reply is taken for the answer to the next request: from then on the
connection is skewed and no request on it is ever answered again. A two-write
control method can fail or be cancelled between its writes. Optional blocks that
never answer look exactly like a skewed link. The app, or the inverter's own
watchdog, takes the battery back at any moment, and the entry can be unloaded
while tasks wait. The inverter accepts one connection: whoever leaves one behind shuts
out all that come later. Options, ranges and intervals are checked in one step and used
in a later one.

Correct means: the lock is always given back; one glitch never costs a block more
than one strike; a block that is retired is tried again and the meter is served
although H is not; control is never handed back with a live setpoint; setpoints
stay within the nameplate; calls are serial and a poll shows no half-done one;
polling recovers from any fault; no energy is reported in two days; a unit that lost its
master leaves VPP, and one that is polled does not; a reload leaves nothing behind; an
entry comes up again when its unit does; an entry's device is the unit it was made for.

## Modules

| module | models | role |
|---|---|---|
| `OptionalBlocks` | the skip-list | component; instantiated by `Coordinator` |
| `RetirementHistory` | the skip-list with the last events of each block | history of `RetirementEarned` |
| `Coordinator` | poll, control methods, lock, socket, unload | component, composes the skip-list |
| `SerialControl` | nothing: what users are promised | abstract specification |
| `SerialRefinement` | `Coordinator` with two history variables | refinement mapping to `SerialControl` |
| `ControlEntities` | number, select and switch entities over `SerialRefinement` | component, composes the coordinator |
| `Words` | the 32-bit codec on the path of the setpoint | pure operators and a small machine around them |
| `PollValues` | decoding and derived values of one poll, over `Words` | pure operators, one machine with `Words` |
| `DailyEnergy` | the daily energy sensor | component |
| `Watchdog` | the service, the polls that feed the inverter's watchdog, the inverter | component |
| `EntryLifecycle` | config flow, set-up, options, reload, unload, of several entries | component |
| `X1Control` | `tools/x1_control.py`: loop, signals, restore, its socket, the inverter's watchdog | component |
| `MC*` | values for the constants | model checking |
| `*Proofs` | theorems | proofs |

### OptionalBlocks

`timeouts[b]` is `_timeouts`, `retired[b]` membership in `_retired_at`. The code
stores the instant of retirement; only its distance to now matters, so `age[b]`
counts it and saturates at `RetryAfter`. `ShouldReadEffect`, `RecordSuccessEffect`
and `RecordTimeoutEffect` are the methods. The actions around them are the protocol
of `_read_optional_block`: ask, then at most one verdict about the same block.
`Coordinator` calls the same operators through `Opt`, an instance whose `asked` is
the block the holder of the lock waits for; `UsesSkipList == Opt!Spec` says that the
coordinator keeps this protocol.

### Coordinator

A task is a poll or a control call. `pc` is `idle`, `wait` (for the lock), `held`, or
`asked` (awaiting an optional block); `at` is the step within the lock: 0 is
`_ensure_connected`, then the n-th block of a poll or the n-th write of a call. A
step is what the loop runs between two awaits; `Publish` covers the whole decode and
the returned dictionary, which has no await. `prog[c]` is the list of register writes
of a method, with its arguments already clamped as in line 659, *before* the lock.

The socket has four states, those that the comments of `guarded_call` and
`_drop_connection` tell apart: `closed`, `clean`, `suspect` (a request was given up
on, its reply may still come) and `skewed` (a late reply was taken for another's).
`Reply` is the one place that says what pymodbus may answer:

- an answer, or an error response, only on a connection that is not skewed;
- a timeout whenever links fail or the unit lacks the block; the socket stays open
  and becomes suspect, or, if it was suspect already, may become skewed;
- down, when links fail or the client is closed.

Who reacts how is the code's: `Dropped` closes the socket after a transport error of
a required block or a write, `BlockTimedOut` closes it and charges a strike,
`BlockEmpty` does neither, and `ProbeSerial` goes on over whatever socket is left. A
write that times out, or loses the connection, may or may not have been applied.
`CancelRunning` is a `CancelledError` at any await under the lock: the lock is
released, the socket is left as it is.

`Unload` is `async_unload_entry` down to `async_close`, which takes no lock. `Elsewhere`
is the app or the unit's watchdog changing the mode. `Heal` ends all faults.

Data are abstracted to what the properties compare: of block E the seven control
registers, of B the nameplate, of M whether it was read. The other values of a
poll are functions of one frame and are left out. Every poll may find another nameplate
(`RatedPowers`, `MaxActivePowers`, 0 included, which falls back to the constants), and
`Publish` puts it in `bounds` while calls wait for the lock with a power that was clamped to the
one before. A tick of the clock passes between polls, never within one.

### SerialControl and SerialRefinement

`SerialControl` has no lock, socket or task: a control call takes effect in one step,
whole when it returns with a value, up to the write that failed when it raises; a poll looks
once, and publishes what it saw. `called` holds the command of each caller from the call to
its return: method and argument, clamped to the limits of that moment. What `Succeed` and
`Fail` may do to the registers is a function of the caller's own command (`Whole`, `Half`,
`RegisterOf`), so a value in another register, or another call's value, is no step of it.

The refinement supplies the two things the coordinator does not keep. `before` is the
registers as the holder of the lock found them: the mapping hides its writes until it leaves.
`called` is written by `Placed` when a method is called, from the name of the method and not
from the list of writes the method makes of it. A setpoint that fails after the mode was
written leaves VPP with an older setpoint in force: the abstract `Half` allows it, since the
code does it, and `SetpointWithinNameplate` bounds what that setpoint can be.

### ControlEntities

An entity offers a range or a list of options made from the data of the last poll; Home
Assistant checks a value against it when the call arrives, and the write comes later.
`ENext` restricts the calls of `Coordinator` to those that `Offered` admits at that moment,
and the history variable `basis` keeps the registers the call was checked against. It is a
composition: all steps, faults and failures of the coordinator are there.

### Words

Words are numbers below `Base` (65536 in the code). Two nameplate values come as
words, the setpoint goes out through `Clamped` and `le_words`, and comes back through
`decode_i32_le`.

### PollValues

A frame is what the unit measured; `OnWire` and `MeterWords` are its words. `Decoded` is
what one poll makes of them, from signed words to the inverter loss. Powers are in
`1/PowerGain`, meter voltages in `1/Scale` volts, so that the rounding and the unit the
firmware may use are real. `Poll` keeps nothing of an earlier poll, as in the code.

The guard `pv_power == 0` of line 552 is kept although it is always true there: it stands in
the branch without an array, and `pv_power` was pinned to 0 in that case before. The comment
(`coordinator.py:547-549`) and the changelog of v0.1.7 (`CHANGELOG.md:427-428`) say that a real
array which inverts to the grid with the battery idle "still reports its loss": no
configuration does. With an array declared, an idle battery shows 0 by line 544; with none,
the guard never fires. `IdleShowsNoLoss` therefore speaks only of the case in which comment and
code agree, a unit that measures no array, and takes no side in the other.

### DailyEnergy

`total` is `coordinator.data`'s copy of the device's counter, refreshed by `Poll`.
`DayTurns` is the clock, `HandleMidnight` the callback that runs later; `Remove` is an
orderly removal, with RestoreEntity's final write, `Crash` one without. `Book` is how the
recorder sums a `TOTAL_INCREASING`. `RollBack` puts the device's counter back to zero at any
moment and as often as it likes, as the README tells of firmware 1.0.16.1, also between a crash and
the restart after it. Since every lifetime counter is in `data` once the
entity exists, the branches for a missing total cannot be reached and are left out.

### Watchdog

A tick is a second. `due[e]` is the time to the next poll of an entry, at most its interval
and the fraction that the scheduler adds; `quiet[e]` how long the unit has not heard
anyone. `SetWatchdog` is the service up to its checks, `WriteWatchdog` its write under the
lock, `FailWatchdog` every way for it not to happen; between the two, the entry may be
reloaded with another interval (`Stop`, `Start`), and the checks were then made of a
coordinator that is gone. `agreed` remembers which interval was checked. `Revert` is the
inverter's: VPP ends when the watchdog runs out. The register holds any of `Factory` before the
first call, 0 (off) included. `DeadMansSwitch` is about units whose watchdog was ever on: it says
that no call switches it off. `HeardInTime` is about intervals no longer than the one the
service checked; a longer one set later in the options does break the relation, as nothing but
the service checks it.

### EntryLifecycle

`state` is `ConfigEntry.state`, with `refreshing` and `forwarding` for the two awaits of
`async_setup_entry` where others run. `conn[u]` says to whom a unit's only connection
belongs: the config flow, the coordinator of an entry in service, or one that is gone,
because its first refresh failed with an error response (`FailedSetup`) or because a call
waited for the lock over an unload (`LateCall`). `coord` is the coordinator in force: the
options it was built with (`valid_restore_work_mode` included) and the identifier of its device. `hooks`
counts the live listener and purge, `owned` those that `async_on_unload` will release.
`FlowConnect`, `FlowFails`, `FlowFinishes` are the config flow, `SetUp`, `FirstRefreshes`,
`FirstRefreshFails`, `Loads` the set-up, `Unloaded` the unload with what Home Assistant does
around it; `SetOptions` saves options and, if the listener is there, leaves a task that
reloads later. What Home Assistant guarantees is used and no more: set-up, reload and
unload of one entry exclude each other; options may change, calls arrive and other entries
run in between. The polls and calls in service are those of `Coordinator`; here they only
take, lose and keep the connection.

Serials are tokens. `Name` is the fallback from one serial register to the other to the
address, used by flow and coordinator; either may lose a read that the other did not
(`sure`). Only the entries in `Edited` change their options.

Four properties name a case that they leave out, because the code has it so and nothing in
the repository promises otherwise. `DeviceIsTheEntry` and `NoUnitTwice` hold for reads that were
answered (`sure`): after a glitch while 10750 is probed, a unit with two serials does go by the
other one until the next set-up. `OptionsInForce` leaves out options that change while
set-up is under way (`missed`), which the listener, added last, never hears of. `ComesUp`
presupposes that the connection is free or the entry's own (`OwnOrFree`), so an entry whose
failed refresh left a socket behind is not its matter but that of `OneConnectionPerEntry`, which fails.

### X1Control

`clause` is where `main` is: before its `try`, in it, in its `except`, or gone; `at` is the
transaction under way, with `sent` between its request and its reply. The frames of Python
that a signal interrupts need no stack, since the handler never returns: it ends in
`SystemExit`, which leads to the `except` clause, where `restore` runs once more, or, from
there, out of the program. `ExitRaised` and `ErrorRaised` are these two ways to leave: an
error leaves `main`, which does not catch it, but within `restore` it is caught and becomes
`SystemExit`. SIGTERM before the handler is set, and Ctrl-C in the `except` clause, end the
process.

The socket is two ordered queues. A transaction that is given up leaves its request in
`pipe` or its reply in `back`, marked as not `own`: that is what `_txn` finds out from the
transaction id. A signal between the header and the body of a reply leaves the stream
`torn`; what is read from there on is anybody's, so `_txn` then accepts or fails at will,
and the properties speak of streams that are whole. The inverter obeys, refuses, or says
nothing. `cmd` and `newCmd` are as in `main`; the gain is a fraction, `int` truncates.

## Runs

The runs take from a second to three and a half minutes with two workers.

| run | configuration | shows |
|---|---|---|
| `optional_blocks` | 2 blocks, 3 strikes, retry after 2 ticks | the two dictionaries agree; retirement is earned by exactly the last three events; a retired block is probed again |
| `control` | 1 poll, 2 interchangeable callers, faults, one strike, two nameplates, a power beyond both | `LockDiscipline`, `OneGlitchOneStrike`, `HandBackIsDisarmed`, `SetpointWithinNameplate`, `DoubtHasACause`, and the refinement `SerialControlHolds`, with failures between the writes of a call and bounds replaced between its clamp and its write |
| `polling` | D and H silent, 1 caller, 2 strikes, faults that heal, time, fairness | `UsesSkipList` with re-probes; `MeterServed`, `PollsRecover`, `CallsReturn` |
| `entities` | 1 poll, 1 caller, sound link: every method through its entity | `SerialControlHolds`: each method writes its own argument to its own register; `LimitFitsItsMode` |
| `values` | four-bit words: every nameplate class, requests beyond both ends, balances, strings and mains at their thresholds | `WordsFit`, `SetpointReadsBack`, `NoPhantomPower`, `CorrectionBetween`, `IdleShowsNoLoss`, `MeterVoltagesTrue` |
| `daily` | 3 days, 5 units of energy, any crashes and rollbacks | no negative reading (`TypeOK`), `TodaysEnergyOnly`, `NothingCountedTwice` |
| `watchdog` | 2 entries, intervals of 1 and 2 s, requests of 0, 3 and 5 s, watchdogs off or of 1 s at first | `HeardInTime`, also over a reload between check and write; `DeadMansSwitch` |
| `lifecycle` | 1 unit, 2 entries, 3 kinds of identity, 2 option sets, one with VPP as the stored restore mode | `NoLeftovers`, `OrphanHasACause`, `DeviceIsTheEntry`, `NoUnitTwice`, `OptionsInForce`; `ComesUp` |
| `x1_control` | 2 signals, a house that feeds in or draws, inverter found in VPP or not, with or without a watchdog | `GuardedVPP`, `ReportedRestoreHolds`, `NeverOvershoots`, `LeavesVPP` |

Three runs end in a counterexample, each of a sentence that the repository says about
itself:

- `probe_on_open_socket`: `guarded_call` says every call that touches the wire gives
  its caller a chance to drop the socket before the next request. The serial probe of
  block D (line 273) does not: when 10750 times out, block E is read on the same
  socket. A unit whose answer to 10750 is late fails that poll; as a setup retry
  builds a new coordinator, it probes again on every try.
- `socket_outlives_entry`: there should be one coordinator and one connection per entry.
  A first refresh that gets an error response keeps its socket, and `async_setup_entry`
  drops the coordinator without closing it, so the retry finds the unit's only connection
  taken. The same happens after an unload when a call has waited for the lock: it finds the
  client closed and connects it again. `OrphanHasACause` says that these are the only two
  ways, `ComesUp` what remains true without them.
- `x1_exits_engaged`: the tool "always restores the original work mode on exit", but
  `main` catches only `KeyboardInterrupt` and `SystemExit`: a timeout or an exception
  response in the loop ends it engaged, on a link that works. `LeavesVPP` shows what
  remains true: the watchdog, armed before VPP, takes the inverter to self-consumption.

The number's help and the README make the switch a precondition of the setpoint, while
`async_set_battery_power` writes VPP itself (line 663). The model has it so, and no property
says otherwise.

### Bounds

Nothing in the coordinator counts without limit: a poll has nine blocks, a call at most
two writes, a streak stops at `Threshold`, `age` at `RetryAfter`, and `gap`, the ticks since
a poll was due, at `ScanTicks`. One poll and two callers give every pair of tasks that can
meet at the lock; a third waiter adds no new conflict, since only the holder acts. One
strike in `control` and `entities` makes each timeout reach retirement; `polling` takes
two, so that a streak has a middle. There a tick stands for 300 s: 900 s until a re-probe is three
ticks, the longest scan interval (600 s, `const.py`) two, which is what keeps the re-probe of
H from starving M. `Elsewhere` uses one mode, as all that matters is whether it is VPP.
In `control` the rated power is 2 and the maximum active power 0 or 2, so that the
discharge bound is 4 (the fallback) or 2 and changes under a call that asked for 9.
`CHECK_DEADLOCK FALSE` is set where an unloaded entry really stops, and in `lifecycle`,
where an orphan may hold the unit when no entry is left.

In `DailyEnergy` the bounds are `MaxEnergy` and `MaxDays`; crashes and rollbacks are not counted.
`NothingCountedTwice` is about each state that is written: it books no more than was produced
since the poll before. *One case is exempt, `RebaseLost`, and the run reaches it*: the rebase of
line 597 is only in memory, a crash restores the older, higher baseline of the day, and once the
restarted counter has passed it the reading falls and rises again, which the recorder books
twice. No text rules this out; it is a listed hazard. `TodaysEnergyOnly` holds there, too.

`entities` has a sound link, since `control` has the faults: what it adds is the path from an
entity, its range and its method to a register, for the six methods that `control` leaves out,
with the app changing the mode under them. One caller suffices there for the mode to change
under a call, as the poll may be old when the call begins. `PercentMax` and `WattMax` are 1 and
2, so that a value may fit one mode and not the other. Its `MinWatchdog` is 0, so that a
watchdog of 0 is a legal value like others; what the service refuses is the matter of
`watchdog`.

Four-bit words keep every case of the sign, the clamps, the thresholds and the ties of the
rounding, and let all of them be tried. The frames vary the power balance, the strings and
the mains separately, since no code mixes them; each is combined fully in itself.

In `watchdog` the intervals 1 and 2 with watchdogs from 3 to 5 have the least legal
watchdog of the one interval illegal for the other, and 0, which must be refused; two
entries distinguish the entry that is named from the only one.

`lifecycle` has one unit with two entries for it: their competition for the connection and the
duplicate check are all that entries share. Two units would add address and serial clashes that the
theorems cover for any number. Only `e1` is edited; both can be reloaded, disabled, removed.
Every entry has at most one call that waits. Faults are unbounded until `Heal`.

In `X1Control` only `MaxSignals` bounds anything: two signals interrupt a restore that runs as
the handler and one that runs in the except clause. `_txn` looks at eight frames; each
signal, and one error in the handler, leaves one stale reply, so with at most six
signals (`SignalsAssumption`) the limit is never met. A cap of 2 W and a deadband of 1 W
give every branch of the command: floor, deadband, both signs, both clamps.

### Fairness

`FairSpec` of `Coordinator` assumes:

- weak fairness of `StartPoll`: DataUpdateCoordinator schedules the next refresh when one ends;
- weak fairness of the steps under the lock: pymodbus ends every request, by its reply or its
  own timeout, and so does `connect`;
- strong fairness of `Acquire`: `asyncio.Lock` serves its waiters in order, so a waiter is not
  overtaken for ever although the lock is free only now and then;
- strong fairness of `Tick`: time passes however many polls fit in a tick. A tick needs all
  polls idle, which two endlessly overlapping refreshes never are; Home Assistant debounces
  them, so `polling` has one poll.

No fairness is put on faults, cancellations, the app or `Heal`. `PollsRecover` and
`MeterServed` speak of behaviours in which faults end and the entry stays loaded;
`CallsReturn` holds while links fail, too. The skip-list's own fairness gives each block its turn.

`FairSpec` of `Watchdog`: strong fairness of `Tick`, as above, weak fairness of a poll that is
due, whether it gets through or not, and of the inverter's own `Revert`. None for calls or
control. `DeadMansSwitch` speaks of entries that are gone for good.

`FairSpec` of `EntryLifecycle`: Home Assistant retries a set-up that failed, and goes on with
one that it has begun. Whether a refresh succeeds is not assumed: `ComesUp` presupposes
that faults have ended and that no one else holds the connection.

`X1Control` assumes only that the inverter deals with a request that reached it, were it by
silence, and that its watchdog fires once its master is gone. The tool is taken to be the
only master: while Home Assistant polls as well, the watchdog is fed by it.

## Proofs

The proof modules are checked by TLAPS for all values of the constants that satisfy the
named assumptions.

`OptionalBlocksProofs`: `TypeCorrect` and `StreakConsistent`. Neither is inductive alone: the
bound on the streak needs that a block being read is not retired. `EveryRetirementEarned` adds
`RecentInv`: the history of a block ends with as many timeouts as its streak counts, and
what comes before them, if the streak is short of the threshold, is no timeout.

`CoordinatorProofs`, for any number of polls and callers, any unit, requests and bounds:

- `TypeCorrect`, `LockHeld` from `IInv == TypeOK /\ LockDiscipline /\ StreaksAgree`. The three
  need each other: a streak stays within its type because the poll that charges it holds
  the lock and cleared the retirement when it asked; and writes are typed because
  the position of a call is within its list.
- `OneStrikePerGlitch`, with `StrikeClosed`: a poll that was charged a strike is at a closed
  socket until it leaves, and a closed socket answers `down`, which is never charged.
- `HandBackDisarmed`: under one hold of the lock the first write put zero there, and no other
  action writes the setpoint.
- `SetpointBounded`, with `SetpointInv`: the bounds are those of some nameplate from the first
  publication on, no call exists before it, and every planned setpoint write is within the
  bounds of some nameplate; so a poll may replace the bounds between the clamp and the write.

`X1ControlProofs`, for any number of signals, any house, gain, deadband and cap:
`TypeCorrect`; `NoOvershoot`, from `CommandMoves`, the arithmetic of one correction;
`VPPIsGuarded` and `RestoreIsReal`. These two rest on `IInv`: the request under way is the
last in the pipe and, once it is answered, the pipe is empty (`InOrder`), so an accepted
reply vouches for the register *and* for the absence of older requests that could still
change it; before VPP is asked for the watchdog is settled, before the watchdog is given
back nothing can lead to VPP (`Phases`), and a restore settles one register after the
other (`Progress`). A stream that is torn is excluded, as in the properties.

`DailyEnergyProofs`, for any number of days, restarts, crashes and rollbacks: `TypeCorrect`,
`CountedOnce` and `OnlyToday`, from one invariant of four parts. `Stamps` says that a baseline
stamped today, in memory or on disk, was taken today, that no midnight callback is to come for it,
and that the one on disk is the higher, since a rebase only lowers it. `Behind` says what polls
have not read yet: the lead of the counter over `total`, or, if it restarted behind their back,
at least all that it shows. `Refreshed` is one refresh on a baseline of the day: it books no more
than that, if the baseline is the one in memory.

`PollValuesProofs`, for any word width: `WrittenWordsFit` and `ReadsBack`, from `RoundTrip` and
division lemmas; the condition that the nameplate is a signed value is needed. For any
gain, scale and set of frames: `NoPowerAtNight`, `CorrectionStaysBetween` (rounding included,
by the bound `RoundedHalf`), `IdleIsLossless`, `TrueVoltages`, each a fact of `Decoded`
carried over the one step. The first two are theorems of `PollSpec`, polls and setpoints in any order.

`WatchdogProofs`, for any entries, intervals and requests: `TypeCorrect` and
`AlwaysHeardInTime`, from `IInv == TypeOK /\ Margins /\ Schedules`. `Margins` says that a
watchdog was agreed with room for twice its interval, `Schedules` that a unit which missed no
poll was quiet for no longer than its schedule explains. The second of scheduling slack is
at most one more interval, which is why twice is enough.

`EntryLifecycleProofs`, for any units, entries, serials and options:

- `TypeCorrect`, with one lemma for each group of actions.
- `NothingLeftOver` from `HookInv`: what `async_on_unload` owns is what is live, at every state.
- `OrphansExplained` from `ConnInv`: a coordinator's connection goes to its own unit only,
  while its entry is past the first refresh, and a call waits only at an entry in service.
- `DevicesMatch`, `UnitsConfiguredOnce` from `NameInv`: a sure unique id is the one true name of
  the unit, no two entries have the same name, and a sure coordinator uses the true one.
- `OptionsApply` from `HookInv` and `OptionsInv`: also while set-up runs, what was built is
  what the options say unless they were missed; the listener is there when they are not.

`CoordinatorProofs` also has `DoubtExplained`, for `DoubtHasACause`: every other action that
leaves the socket open gets an answer or closes it; and `SkipListUsed`, the refinement
`UsesSkipList`: initial states map to initial states, `AskBlock` to `Ask`, the three ends of an
optional read to the three verdicts, a cancellation there to `NoVerdict`, `Tick` to `Tick` if
a retired block ages; all else stutters, since `asked` follows the holder of the lock.

`ControlEntitiesProofs`, for any number of polls and callers, any requests and nameplates:

- `CallsAreSerial`, the refinement `SerialControlHolds`. It rests on two invariants.
  `CommandInv`: between its call and its return, what a task has to write is what its method
  makes of its own argument (`called` determines `prog`). And `CallsAccountForRegisters`: while
  a call holds the lock, the registers are those it found, with its writes so far and, perhaps,
  a mode taken from elsewhere. So whenever it leaves, whole, failed or cancelled, the registers
  are its own command's effect or a part of it, and the step that releases the lock maps to
  `Succeed` or `Fail`; one cancelled before its turn maps to `Withdraw`, the call itself to
  `Place`, the read of block E to `Look`, `Publish` to `Publish`, a poll that ends without to
  `GiveUp`, a change from elsewhere to `Override` or, under a call, to part of that call's;
  every other step stutters.
- `EntityCallsAreSerial`: the same of what the entities and the service call.
- `LimitsFit`, for `LimitFitsItsMode`: from the moment it is accepted until it returns, a call that
  writes a limit writes one in the range of the mode in its `basis` (`OfferedInv`), and only
  the write that is under way changes a limit (`HolderWrites`).

Only model-checked: what holds under fairness (`RetiredIsProbedAgain`, `MeterServed`, `PollsRecover`,
`CallsReturn`, `DeadMansSwitch`, `ComesUp`, `LeavesVPP`), since liveness is out of the prover's
reach. Every other property that a passing run checks is a theorem.

## Not modelled

- `decode_string_lowbyte` and the fields that are scaled and published as they come;
- read-only sensors, labels, units and device classes of all entities;
- the types of exceptions a service call ends with: all are one failure;
- forms of the flows; the purge itself, with its filter by entity name: only when it is scheduled and
  released is;
- the other tools.

The refresh that a control method requests after its writes is an ordinary poll of the model.

## Plan

Done: skip-list, coordinator with socket and lock, serial control and its refinement,
control entities, codec, derived values, daily energy, the watchdog with its service, the
life of entries with the config flow, the control tool, and the theorems above.

Next: the facts that the liveness properties rest on, as theorems, where they are safety: that a
task under the lock always has a step to take, and that a retired block counts on to its
re-probe. Then the filter of the nightly purge and the string decoder, which are left out.
