# nvme-mi in TLA+

A verification project for the NVMe-MI daemon: TLA+ modules that model its
control, TLC configurations that check them, and TLAPS proofs. Paths are
relative to the repository; `drive.cpp:156` is a line of it.

## The system

The daemon polls NVMe drives over MCTP for their health and offers them on D-Bus.
It has one thread that runs a `boost::asio::io_context`. Everything is a handler or
a stackful coroutine that runs without interruption from one suspension
point (a wait on the poll timer, an MCTP request) to the next, so the
interleavings are those of the pieces between suspension points.

| Component | State | Operations |
|---|---|---|
| Registry and poll scheduling (`main.cpp`) | `drives`, `pollTimer`, the `doPoll` coroutines with their copy of the map | detection, device added, device removed, `doPoll`, pause, resume, signal |
| Health status poll (`drive.cpp:115-217`) | `curErrorCount`, `cwarnState`, the static `pausePollRequested` | `pollSubsystemHealthStatus`, `validateResponse`, `logCWarnState` |
| Temperature conversion (`subsystem_hs_poll.hpp`) | none | `convertToCelsius` |
| Sensor (`numeric_sensor.cpp`, `threshold_helper.cpp`) | value, thresholds, D-Bus properties Value, Available, Functional, alarms | `updateValue`, `markFunctional`, `markAvailable`, `checkThresholds`, property setters |
| CollectLog (`drive.cpp:76-90`, `1032-1406`) | the JSON object, the answers later requests depend on | one D-Bus call: seven groups of commands, about 40 requests, one file |
| Controller health status paging (`drive.cpp:358-436`) | start id, entries, number of requests | a loop of requests |
| Names and paths (`main.cpp:94`, constructors) | `driveCounter`, the D-Bus path of each drive object as long as it lives | `getDriveName`, the regex of `Drive` and `NumericSensor`, the refusal of a path that is taken |
| Message framing (`protocol/`) | none | views over requests and responses: checks of size and CRC, pointers to the data and their length |

Interactions: an MCTP event registers or removes a drive and so starts or stops the poll
timer; a `doPoll` coroutine wakes on the timer, copies the map and awaits one
request per drive; an answer goes through the conversion to the sensor, and from there to
the alarms. A CollectLog call sets a flag, shared by all drives, that makes
every poll return at once. D-Bus clients write thresholds, Value and Available,
call CollectLog, and with `NVME_DEBUG=1` pause and resume the polling.

What is hard:

- `cancel` does not reach a wait whose handler is already queued, and pause and resume
  during a sweep leave two loops that share one timer;
- a drive may be removed while a sweep or a CollectLog call is suspended in it;
- failures are checked before a request and counted after it, by sweeps that overlap;
- responses are laid over structures by the byte, and few lengths are looked at: a short one is read
  past its data, a cut namespace list leaves part of an id;
- a drive object outlives its removal while a sweep holds it, and with it its D-Bus path;
- a collection depends on answers any of which may be lost, refused or garbage, and reads
  some from freed memory (`getNVMeDatastructOptionalData` returns a pointer into a local
  response, `drive.cpp:267`);
- two hystereses lie between a temperature and its alarm, and thresholds change at any time;
- uint8_t counters: ports, page start ids, entries, errors.

`PROJECT.json` lists these hazards one by one at the line where they bite, with
the property that covers each or the reason why none does.

What makes each component correct: polling runs while there are drives and ends when
paused, with one waiting loop; each drive is polled again and again; no freed
drive is touched, nor one kept for ever; an excluded drive is not asked again; the failure count stays in bounds; alarms follow the
temperature without chatter, and critical implies warning; a dump accounts for
every command and no failure costs more than its own entry; every page is
counted once; and a collection ends, for the polls are silent until it does.

## Modules

| Module | What it is |
|---|---|
| `Application` | the daemon's control: registry, timer, poll loops, requests in flight, failure counts, the pause flag, CollectLog calls |
| `PollService` | abstract: which drives the poll may ask, and what it counts |
| `NumericSensor` | value, thresholds, properties and alarms of one sensor, and the clients that write to them |
| `SchmittTrigger` | abstract: what the comment at `numeric_sensor.cpp:265` promises of an alarm |
| `Message` | a response as its size, CRC and status, and what each view of `protocol/` makes of it |
| `DrivePoll` | composes one drive's poll with `Message` and `NumericSensor`: response, conversion, sensor, critical warning |
| `CollectLog` | one `collectDriveLog` call |
| `ControllerHSPoll` | the paging loop inside it, at its real integer widths |
| `*Proofs` | theorems about the module of that name |
| `MC*` | the instances TLC checks |

`INSTANCE` structure: `Application` implements `PollService` (`IsPollService`, with `Alive`, `request` and
`curErrorCount` as its variables), `NumericSensor` implements `SchmittTrigger` twice (critical and warning,
`CriticalIsTrigger`, `WarningIsTrigger`), and `DrivePoll` implements `NumericSensor`
(`SensorIsUsed`) with the temperatures -59 .. 126 as its readings.

Names follow the code. Definitions named `Bug...` are faults the code could have had. Nothing
uses them; each stands above the definition it would replace, and `PROJECT.json`
pairs it with a property it breaks.

### Application

| TLA+ | code |
|---|---|
| `drives`, `pollTimer` | the members of that name (`pollTimer`: is not null) |
| `task` | where a `doPoll` coroutine is suspended: `waiting`, its handler queued as `expired` or `aborted`, or `polling` |
| `copyDrives`, `todo`, `request` | a sweep's copy of the map, the drives still to visit, the drive whose answer is awaited |
| `path` | the D-Bus path of each drive object: a member of `ObjectPath` when a location gave it, `NULL` for a numbered name, which no other object has |
| `curErrorCount`, `pausePollRequested` | the members of `Drive` |
| `collecting` | the drive of each CollectLog call in progress |
| `overlapped` | history: the calls in progress during which another one ended, and with it the silence |
| `Alive` | objects some `shared_ptr` holds: the map's or a sweep's copy's |
| `DetectMctpEndpoints`, `DeviceAdded`, `DeviceRemoved`, `PauseHealthStatusPoll`, `Stop` | handlers |
| `PathRefused` | the exception out of a drive's constructor when its path is taken (`PathTaken`), which ends the daemon |
| `TimerExpires`, `PollTimerAborted`, `StartSweep`, `PollFailed`, `PollAnswered`, `PollThrows` | the pieces of `doPoll` between suspension points, with the poll inlined |
| `CollectLog`, `CollectLogReturns`, `CollectLogDangles` | the D-Bus method |

A sweep passes any number of drives that return at once and stops at the first
that sends: `Sweep`. The order within the map is left open, as it is for
`std::unordered_map`. Object identities are recycled once nothing holds them.

### NumericSensor and DrivePoll

`updateValue` is one step with everything it calls. `updateValue(NaN)` calls
`markFunctional(false)`, which calls it again: `EnterUpdateNaN` and `Recurse` count the
frames up to `StackLimit`, and nothing else runs meanwhile. Comparisons with
NaN are false, as in C++. A poll's response is a record of `Message`: one that is too short for
`NVMeResponse` throws, one byte of data passes the test for data, and a temperature past the data is a
byte of the CRC, so any byte (`Reports` says which of the two it is). `reading` and `turn` are history variables. Only the high
thresholds are `Exported` (`selectThresholdInterface`).

### CollectLog

A step is the code from one answer to the next request. An answer is a record of `Message`: none,
everything asked for, a refusal, or what a connected drive sends by mistake (`FaultyResponses`: too
few bytes, a wrong CRC, an error with data). The sets `...Usable` are computed from the views and
say which answers a command makes an entry of, for they differ: data structures do not look at
the status, configurations and features not at the data. The namespace list is
taken apart byte by byte, cut where its answer ends (`ListBytes`, `NamespaceId`). The dump is a
function from entries to where their bytes come from: the answer to a question (`Kept`), or memory that the answer
had been in and that was freed before it was read (`Freed`, `drive.cpp:267`), which holds whatever the
allocator left there. All data structures (subsystem, ports, controllers, controller
information, optional commands) are `Freed`, so no property says what is in them.
The two of them that the call goes on with, `numberOfPorts` and
`controllerIds`, take any of the values of `PortReads` and `ControllerReads`. `NoHalfEntry` therefore says of entries that are asked for twice
(`AskedTwice`: an id listed twice, or a port number that comes again because the counter
wrapped) only that nothing else is both in the dump and lost. `Rank` is the order of the sections, and `CallMovesOn`
that no step goes back in it and none takes up an item of a section again.

### ControllerHSPoll

Entries are numbered from 0; `hexEntries` counts the entries whose bytes are in `hexString`;
`inOrder` remembers whether each page began where the last one ended.

## Runs

Passing:

| Run | Bounds | What it shows |
|---|---|---|
| `events` | 2 endpoints, 3 objects, 2 coroutines, 1 collector, 1 path, 2 failures exclude, no debug interface | polling iff drives; polled drives are alive; refinement of `PollService` |
| `debug` | 2 endpoints, 2 objects, 2 coroutines, 2 collectors, 1 failure excludes, pause and resume at any time | no lost loop, one waiter, failure count bound, flag released, silence during collections until the first of them ends, exclusion is final; liveness: drives are polled, loops end after a pause, removed drives are freed, silence ends |
| `ordered` | temperatures 0..14 in units of the publishing hysteresis, dead band 4, 3 frames | critical implies warning; Value is the reading |
| `crossed` | the same, thresholds that cross and NaN, clients that write | value and alarms follow the reading; both alarms refine the trigger and do not chatter |
| `poll` | default thresholds, 10 bytes at the boundaries, responses of 8, 10, 12, 13 and 20 bytes, 3 failures exclude | value and alarms say what the drive said; refinement of the sensor |
| `faults` | 2 ports, 2 controllers, 2 namespaces on a page for 3, 2 failed requests, with answers of 12, 13, 24 and 29 bytes, unplugged at any step, freed answers read as 1 to 4 ports (4 is as many as the scaled counter counts) or as a controller the drive has not, listed twice | the dump accounts for everything; only ports abort; a drive that answers everything is dumped whole; the namespaces are the drive's; no item is taken up again; the call returns |
| `paging` | real widths, 12 numbers of controllers around 254, 256, 508 and 65535, 1 fault | complete pages, counts, the loop limit |

Runs that find what a document says violated by the code:

| Run | Property | What happens |
|---|---|---|
| `survives` | `DaemonSurvives` | a poll response with a wrong length or CRC throws outside the `try` (`drive.cpp:156`) and ends the process |
| `reinserted` | `RefusalHasOwner` | a drive is pulled and put back while a sweep awaits its answer: the old object still has the path, the new one's constructor throws from `initialize()` and the process ends (`main.cpp:129`) |
| `hottest` | `HotDriveAlarms` | 127 degrees or more is a code, refused like an error: no value, no alarm |
| `controllers` | `ControllerInfoIsItsOwn` | `htobe32` of a 16-bit id (`drive.cpp:234`): every controller's information is asked of controller 0 |
| `zerobased` | `DataIsComplete` | `maxEntries` is 0's based (`controller_hs_poll.hpp:26`): a full page has 255 entries and is taken for the last |

Other differences between code and documents that the models keep as the code
has them: low thresholds have no alarm (README.md:27, `numeric_sensor.cpp:224`);
clearing Available never returns (`numeric_sensor.cpp:87`); a reading
within the hysteresis does not restore a Value that a client overwrote
(`numeric_sensor.cpp:134`); `ThresholdUpper` is the arbitration feature
(`drive.cpp:1189`); a collection without a single answer reports success
(`drive.cpp:1385`); a drive with 256 ports keeps the port loop, and the silence of the polls, going
for ever (`drive.cpp:1066`); a freed response may be read as more ports than the drive
has, which costs the dump (`drive.cpp:267`); two locations that sanitize to one path end the daemon
(`PathRefused`).

Why the bounds are enough. Two endpoints give the cases empty, one and more than
one drive that the code distinguishes, a third object lets a drive be removed and added while an
old object is held, one path is enough for two objects to want it; two coroutines are what it takes to leave a loop over and overlap it with
a new one, and the theorems below cover any number. Two failures (`events`) tell "one more" from "excluded"; in `debug`
one is enough, for there overlapping polls count past the limit. Two collectors let one leave while the other goes on. The
temperatures cover both dead bands and the values on either side unit by unit. Two items per list distinguish
first, next and last; two faults allow one before and one after any answer that
later requests depend on. The sizes of answers lie on both sides of each view's minimum and cut the
namespace list within an id. `paging` needs no scaling. Bounds on otherwise unbounded things: `Coroutine`
(`resumeHealthStatusPolling` waits for a free one), `DriveObj`
(`Construct` needs a free object), `Collector`, `StackLimit`, `MaxFaults`, `MaxNamespaces` (256 in the code);
`PortMod` scales the uint8_t of the port counters.

CHECK_DEADLOCK is FALSE where the system stops: a daemon that a signal or an exception
ended, a call that returned, a stack that overflowed.

### Fairness

`Application`: weak fairness of each coroutine's own steps, while the daemon runs. The timer
expires a second after it was set, the event loop runs queued handlers, and a
poll request ends within 100 ms; that a CollectLog call returns is what `CallReturns` shows of
module `CollectLog`. `RemovedDriveIsFreed` and `SilenceEnds` need no more. Devices, D-Bus clients and signals owe
nothing: `EveryDrivePolled` exempts a drive that is gone, excluded or silenced,
and `PauseEndsTasks` a polling that is resumed. `CollectLog`: weak fairness of
`Collect`, for every request ends with an answer or its timeout of 0.6 to 3 s.

## Proofs

For every value of the constants that satisfies the modules' assumptions:

- `ApplicationProofs`: `TypeCorrect`, `PollLoopInvariant`, `PollingFollowsDrives`,
  `PolledDrivesLive`, `ErrorCountBounded`, `ExclusionHolds`, `ImplementsPollService`,
  `FlagIsReleased`, `CollectKeepsPollsOut`. With `TypeOK` most
  of these invariants are inductive as they stand. `PolledDriveAlive` is not: a
  sweep's `todo` and `request` must lie within its own copy of the map (`SweepHolds`), or
  removing a drive could free one. `ErrorCountBound` counts the polls in flight with the
  failures, which is what a failure leaves unchanged when it turns the one into the other; its proof
  is about the cardinality of `InFlight`. `ExclusionHolds` needs that new objects take the place of none in
  memory (`ConstructType`), so that theirs is the only count that is cleared without an answer. The refinement
  of `PollService` rests on both: `SweepHolds` puts the drive that is asked in memory, and `ErrorCountBound` keeps
  a failure from wrapping the counter (`CountHasRoom`). `NoPollDuringCollect` needs that the flag is set during each
  collection that no other one has left (`SilentUntilOverlapped`): the first of several to end clears it, and puts all that stay into
  `overlapped`.
- `NumericSensorProofs`: types, `ValueTracksReading`, `AlarmFollowsReading` (by way
  of `AlarmFollowsValue`, the same about `value`), `CriticalImpliesWarning`,
  `PublishedValue` for `ClientValue = {}`, both refinements of
  `SchmittTrigger`, and `AlarmsNeverChatter` (from `TurnedOutsideBand`: an alarm's last
  change lies on its side of the dead band).
- `SchmittTriggerProofs`: the abstract trigger does not chatter.
- `DrivePollProofs`: `convertToCelsius` is sound and complete, and the poll refines
  `NumericSensor`, so that what is proved there holds for a polled drive. `TemperatureIsInside`: whatever
  the response, the byte taken for the temperature is data or CRC, never one past the end.
  `ValueStaysTheDrives` and `AlarmsStayTheDrives` follow from `PollInv`: the last reading is the conversion of the
  last byte that was one (`ReadingIsTheDrives`), the value is within the publishing hysteresis of the
  reading, and the alarms agree with the value. The sensor's part of it is shown anew, for a theorem
  cannot be cited through `INSTANCE`. `ValueStaysTheDrives` has the hypothesis `HysteresisPublish = 0`: the
  code's is 0.0255 degrees, a drive reports whole ones, so that only a change of nothing is within it, and the
  bound in whole degrees is 0. `AlarmsStayTheDrives` holds for any hystereses and thresholds.
- `ControllerHSPollProofs`: types, and with `PageSize = 254` the object is complete and its count right modulo
  256 for every number of controllers. The invariant distinguishes the first page,
  the second, and later ones: from then on the start id is even, hence at most 254, every page
  of a drive that large is full, and the loop ends at its limit only.
- `CollectLogProofs`, for any drive, any lists, any answers and any number of failures:
  - `CallInvariant`, from which `CallTypeCorrect`, `DumpIsAlwaysComplete` and `NoEntryIsHalf` follow. Sections
    come in the order of `Rank`, and items within a section in theirs, so that `section` and `item` say which entries
    the call is past (`Passed`). `Progress` relates that to the dump: an entry the call is past is in the dump or
    lost (`PassedIsAccounted`), one that is in the dump or lost is one the call is past, unless the port counter has
    wrapped (`AccountedWasPassed`), and none but those asked for twice is both. When the call has returned every
    entry is passed. The types are part of the same induction: what is `Expected` grows
    as lists are read, a port that is asked for must be below the number of ports, and an entry that is
    expected late must not be in a section the call has left; `CursorInv` says when each list is read.
  - `OnlyAPortAborts` (`AbortHasCause`): only `PortInfo` throws, and that a
    port does not answer has a cause in the drive: it is gone, it failed a request or has not that port.
  - `NamespacesStayTheDrives`, the parser of the namespace list: four bytes that are all there make the
    drive's id again, of the last ones those that are there make its remainder, and what comes after is zero. That
    the parser stops, and where, needs a least number with a property; it comes from
    `WFMin`, which the theorem library states for a set and not for an operator. `ListInv` then
    carries the list to the end of the call.
  - `HealthyDriveHasADump` rests on all of these: the call does not throw (`AbortHasCause`), every entry that is
    expected is in the dump or lost (`Progress`), none is lost but for what the drive failed or has not (`LossHasCause`, from what
    each kind of step does to the entries, `RequestStep`), and the list of namespaces is the drive's (`ListInv`).
  - `CallAlwaysMovesOn` (`PortsAnswered`): a port the drive has not is refused, a refusal has no data and ends the
    call, so the counter gets to one past the last port at most, and later loops over the ports have an end
    below the counter's. It is what is behind `CallReturns`: `section`, `item` and `second` go up with every step.
  - `RequestedIdIsZero`: `htobe32` of any 16-bit id, cut to 16 bits, is zero, so that what run `controllers`
    finds for two controllers is so for all.

TLC agrees with the inductive invariants of `CollectLogProofs` and `PollInv` on the instances of the runs
`faults` and `poll`, and with the former also for a drive whose ports make the port counter wrap (`DrivePorts = PortMod - 1`).

Assumptions on constants: `ConstantsAssumption` (finitely many coroutines, and the
limit plus their number fits a uint8_t), `SensorAssumption`, `PollSensorAssumption` (the same of the sensor
a poll uses), `TempByteAssumption`, `ResponseAssumption`, `CountAssumption`, `PollAssumption`, `CollectAssumption`,
`ListAssumption` (the drive's own controller list is among those that may be read, none that is read
is empty, as the code returns no list then, controller ids have 16 bits and namespace ids, which
are not zero, 32). TLC evaluates them on every run of a module that extends them. `TriggerAssumption` is a
hypothesis of the theorems of `SchmittTriggerProofs`.

Only model-checked: liveness (`EveryDrivePolled`, `PauseEndsTasks`, `RemovedDriveIsFreed`, `SilenceEnds`,
`CallReturns`), which is beyond the prover. Of `CallReturns` the safety half is proved, that no item is
taken up again; what TLC adds is fairness. Every invariant and every action property of the passing runs is a theorem.

## Not modelled

- Requests: every sender in `drive.cpp` fills a buffer of the right size by setters that write one
  field each, and sets the CRC last; there is no state between two of them. What a request asks is in
  `CollectLog`, which drive bytes answer it (offsets, numbers of dwords) is the drive's.
- CRC32C: a response whose CRC does not match is one that is not `intact`.
- JSON text, file contents and names (the dump is named by the millisecond, `drive.cpp:1391-1396`), log
  messages, and the characters of a drive's name.
- `incrementError`, which nothing calls, and `errCount`, which serves it.
- The MCTP and D-Bus libraries beyond the calls the code makes of them; real time (deadlines are
  steps that may happen at any moment).

## Plan

Written: `Application` with names and paths, `PollService` that it implements, `NumericSensor` with
`SchmittTrigger`, `Message`, `DrivePoll`, `CollectLog` with the namespace list parser, `ControllerHSPoll`, and
the proofs above. Next, in this order:

1. `CollectLog` composed with `ControllerHSPoll`: its one answer for the paging is an abstraction of that
   module's outcomes, and a theorem could say so.
2. What bounds the length of a call: `section`, `item` and `second` as one number that goes up and has a
   bound, from the lengths of the lists.
