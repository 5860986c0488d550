# A TLA+ model of the binkynet local worker

The local worker (`src/`, Go) runs on a small computer under a model railway. It
finds a NetworkControl service, receives a configuration from it, drives relays,
servos and sensors over I2C and MQTT, executes requests ("turnout 5 to off") and
reports actual states. This directory models the parts of it whose correctness
depends on the order in which goroutines, failures, cancellations and requests come.

To check a module: `tlc -workers 2 -config RelaySwitch.cfg RelaySwitch.tla`.
To check proofs: `tlapm I2CBusProofs.tla`. `PROJECT.json` lists every run, the code
lines that each definition stands for, the hazards and the findings.

## 1. Inventory

Paths are relative to `src/pkg/service/`.

| Component | State | Operations | What makes it correct |
|---|---|---|---|
| main loop, `service.go` | `nwControlInfo`, connection, `ncsCancel` and `getRequestService` (under `mutex`), `nwControlChanges` (unbuffered) | `nwControlChanged` (discovery callback), `Run` | a change of NetworkControl is followed; never two service instances; no instance without a connection |
| service instance (NCS), `ncs/ncservice.go`, and `ncs/config_loader.go` | hash of the last configuration, count of recent errors, `configChanged` channel | `Run` (an errgroup of two goroutines), `runLoadConfig` | the newest configuration reaches the workers through stream errors and reconnects |
| worker runner, `ncs/worker_runner.go` | cancel function of the last worker, `workerSem` (one permit for the process), the published request service | `runWorkers`, `runWorkerWithConfig` | one worker on the hardware, the newest one, and no configuration is lost |
| worker, `worker/worker.go` | device and object services | set up, run, close in order | nothing remains energised; everything stops |
| I2C bus, `bridge/i2c.go`, `i2c_device.go`, `util/spinlock.go` | queue of requests, open device files, `done`/`result` per request | `Execute`, `Close`, the bus goroutine, retry | operations are atomic, results go to their callers, every call returns |
| devices, `devices/service.go` | configured devices, maps of router states | `NewService`, `Configure`, `Close`, `Run` | a device that fails does not stop the others; what was configured is closed |
| GPIO chips, `devices/mcp23017.go`, `mcp23008.go`, `pcf8574.go` | cached registers | `SetDirection`, `Set`, `Get`, `Close` | what is driven is what was asked for; nothing is driven after `Close` |
| local pins, `devices/local-gpio.go` | open pins | the same | the same |
| PWM and ADC, `devices/pca9685.go`, `ads1115.go` | registers | `SetPWM`, `GetPWM`, `Get` | the output is what was asked for |
| car sensor, `devices/binkyCarSensor.go` | cached registers of outputs and servos | `Get`, `Set`, `SetPWM`, `Close` | the output is what was asked for |
| MQTT devices, `devices/mqtt-gpio.go`, `mqtt-servo.go` | what was sent last, what messages said last | `Set`, `SetPWM`, `Get`, `onMessage` | what arrives last at the module is what was asked for |
| objects, `objects/service.go` | configured objects by address and type | `Configure`, `Run`, pings, power and switch requests | all run; one that stops stops all; NetworkControl is told which are configured |
| requests, `objects/request_service.go` | publish/subscribe, one goroutine per request | `Set...Request`, `Receive...` | a request reaches its object |
| relay switch, `objects/relay_switch.go` | `disableAllNeeded`, `disableAllTime`, requested direction, `mutex` | `Configure`, `Run`, `ProcessMessage`, `ProcessPowerMessage` | a coil gets a pulse; never both coils |
| magnetic switch, `objects/magnetic_switch.go` | requested direction, `sendActualNeeded`, `mutex` | the same | both magnets get the right direction; it is reported |
| servo switch, `objects/servo_switch.go` | target and current pulse length, state of the state machine, phase relays | the same | the frog polarity fits the blades; requests in a move are not lost |
| track inverter, `objects/track_inverter.go` | target and current state (no lock), four relays | the same | the booster is never shorted; a request is obeyed |
| binary output, `objects/binary_output.go` | target and current state (no lock), flag | the same | the pin follows the request |
| binary sensor, `objects/binary_sensor*.go` | last value, when it was sent | `Run` with one of three readers | a change is reported; a sensor that fails counts as active |
| status, `objects/status_service.go`, `util/until.go` | queues of eight actuals, streams | `Publish...`, `Run` | actuals get out while NetworkControl comes and goes, or are dropped on purpose; everything stops |
| bridges, `bridge/{rpi,orangepizero,stub,virtual}.go` | LEDs, local pins | LEDs | pure I/O |
| gRPC API, `service_api.go`, `registration.go`, logging, user interface | - | handlers, shipping of logs | forwards to the current request service |

### How they interact

    discovery --nwControlChanged--> main loop --runs--> NCS = { config loader --configChanged--> runWorkers }
                                                                                                   |
                                             workerSem (one permit)  <--- a goroutine per configuration
                                                                                                   |
        gRPC API --getRequestService--> request service --goroutine per request--> objects <--- worker
                                                                                      |
                                  status service <--actuals-- Run of each object --calls--> devices
                                                                                              |
                                                            one goroutine <--queue-- I2C bus / MQTT

- *Calls*: objects call devices, devices call `Execute` of the bus and wait for it.
- *Messages*: unbuffered channels between discovery, main loop, loader, runWorkers
  and the bus; gRPC streams from and to NetworkControl.
- *Shared state*: published request service, targets of objects (some with a mutex,
  some with atomic words, some with neither), cached registers of a chip with the pins
  of several objects, `done`/`result` of a bus request.
- *Callbacks*: discovery, request messages, MQTT messages.

### What is hard here

- Workers of successive configurations, and of successive service instances, overlap:
  the old one is still closing down when the new one wants the hardware.
- A request arrives in a goroutine of its own while `Run` of the object is between two
  slow bus operations.
- A register write fails after the cache was changed, so a *later* write for *another*
  object applies it.
- Cancellation comes while a coil is energised, while a request waits for the mutex of
  its object, while the queue of actuals is full, and while an object is configured.
- Goroutines that deliver requests belong to no group: they outlive the worker, and the
  devices they use are closed under them.
- The messages of a sensor that wait in the queue all point to one state.
- MQTT delivers late what the sender has given up.
- A context that was cancelled and one that has expired look the same in `Err()`.
- Streams and dials fail; the configuration changes meanwhile.

The full list, line by line and with the properties that cover each, is "hazards" in
`PROJECT.json`; a hazard with no property yet has a note.

## 2. Modules, and how they correspond to the code

| Module | Code | Notes |
|---|---|---|
| `WorkerRunner` | `ncs/worker_runner.go`, `workerSem` | Goroutines of all workers: an entry of `pc` per worker. Workers are numbered as `lastWorkerID` numbers them |
| `NetworkControl` | `service.go`, `ncs/ncservice.go`, `ncs/config_loader.go` | Discovery callback, main loop, loader and receiver are four processes. The worker side is reduced to "runWorkers took configuration c" |
| `WorkerLife` | `worker/worker.go`, `devices/service.go`, `objects/service.go`, `request_service.go`, `service_api.go` | Composition: `Run` of the worker, the goroutines of its group (`running`), the type loop, pings, API calls, around one device and one object (`MagneticSwitch`) |
| `MagneticSwitch` | `objects/magnetic_switch.go` | operators for `WorkerLife`: a request is the sequence of calls of `Set` it still has to make (`todo`) |
| `AtomicBus` | what a user of `Execute` may assume | abstract: call, run atomically, return own result, or be refused |
| `Hardware` | what workers are promised of the hardware they share | abstract: one user at a time, and whoever takes it is the newest worker. Implemented by `WorkerRunner` |
| `Interlock` | what relays in sides (two coils, two polarities) promise the layout | abstract: break before make. Implemented by `TrackInverter` and `RelaySwitch` |
| `Turnout` | what a servo switch promises the layout | abstract: blades never move while the frog has power, which is that of their position. Implemented by `ServoSwitch` |
| `I2CBus` | `bridge/i2c.go`, `i2c_device.go`, `util/spinlock.go` | one step per access of a shared word |
| `GpioChip` | `devices/mcp23017.go`, `mcp23008.go`, `pcf8574.go`, `local-gpio.go`, `binkyCarSensor.go` | operators: the set of outcomes of each operation of each driver, failures that leave cache and chip different included. Justified by `I2CBus` = `AtomicBus`: one operation is one step |
| `RelaySwitch` | `objects/relay_switch.go` with `GpioChip` | a mutex, two goroutines, another object on the chip, all five kinds of chips |
| `PhaseRelay` | the relay helper of `objects/servo_switch.go` and `track_inverter.go` | what each relay believes (`lastActive`) and what is true (`on`) |
| `TrackInverter` | `objects/track_inverter.go` | unlocked words: each read and each write of `targetState` is a step |
| `ServoSwitch` | `objects/servo_switch.go`, `SetPWM` of `devices/pca9685.go`, `binkyCarSensor.go`, `mqtt-servo.go` | `Configure`, then one step per state of the state machine |
| `StatusService` | `objects/status_service.go`, `util/until.go` | one bounded queue and its sending goroutine; three alike in the code |
| `BinarySensor` | `objects/binary_sensor*.go`, `Get` of the devices, `ads1115.go` | `Run` with the readers for pins, analog inputs and MQTT |
| `BinaryOutput` | `objects/binary_output.go`, `Set` of `devices/mqtt-gpio.go` | unlocked words, as the track inverter |
| `Reporting` | | Composition: the status service with a sensor or an output |
| `WorkerRunnerProofs`, `I2CBusProofs`, `RelaySwitchProofs`, `TrackInverterProofs`, `ServoSwitchProofs`, `WorkerLifeProofs`, `NetworkControlProofs`, `ReportingProofs` | | theorems, see section 4 |

Time is not modelled by clocks: a timer is an action that may fire at any moment after
it is set (and, where the fairness says so, eventually does). Failures are actions, or
outcomes, taken at any moment up to the bound `MaxFailures`, and without a bound in
`RelaySwitch`. Definitions that describe a
slip of the code (`...NoCancel`, `...Forgotten`, ...) stand before the action they vary
and are used by no specification: with one of them in place of the action, the property
that PROJECT.json pairs it with fails, which shows that the property depends on it.

Behaviour of the code that is easily overlooked and that the models keep:

- `WorkerRunner`: `Acquire` of `golang.org/x/sync/semaphore` has a fast path, a queue, and a
  select that may return an error although the permit was just granted; a panic in a worker
  returns normally, releases the permit and leaves nothing running.
- `I2CBus`: a failing operation closes *all* device files, then is retried once on its own; the caller spins
  without a timeout.
- `GpioChip`: a pcf8574 has no direction register: an input is an output that is high. Local pins know no
  direction either; they are opened low, and `Close` leaves them as they are. A car sensor starts with a cache of zeros
  that the first write of a register sends, for all its eight pins, and its `Close` may stop between two registers.
- `RelaySwitch`: `Run` reads `disableAllNeeded` at cancellation without the mutex; an
  activation that fails leaves nothing scheduled (`activationFailed` remembers it). The chip comes from the previous worker with its value register.
- `ServoSwitch`: an error of a relay is logged and the state machine moves on; `lastActive`
  makes a relay skip what it believes is done. `Configure` leaves the servo half way. The MQTT servo
  skips a pulse that it takes as sent, never reports an error, and the client delivers late what it gave up waiting for.
- `BinarySensor`: a publication puts a *pointer* to the state in the queue, so what is sent
  is the value at the time of sending.
- `BinaryOutput`: `Run` reads the target three times in a round (to compare, to set, to store).
- `StatusService`: a publication into a full queue waits ten seconds and does not look at its context.
- `MagneticSwitch`: `sendActualNeeded` is set at the start of a request, but `Run` needs the mutex to
  take it; `disableAllNeeded` is never set, so the magnets stay driven. `Configure` makes the pins outputs and leaves the
  value register of the chip as it was.
- `WorkerLife`: the broadcaster waits for the context of the worker, everything else for that of
  the group. The devices are closed with a context of their own and also after a failed start; requests
  under way are not waited for. An object whose device is not configured is not created; one that fails to be configured is not run.
- `NetworkControl`: the cancel function that discovery calls may be that of an ended
  instance (see below), and a failed dial does not `continue`.

## 3. Runs

All properties are commented where they are defined. Most runs finish in seconds, `reporting`
and `worker_life` in a minute or two.

| Run | Checks | Bounds, and why they are enough |
|---|---|---|
| `worker_runner` | at most one worker on the hardware; the running one is published; only the newest enters; a configuration that is not superseded runs or the process restarts | 2 service instances, 4 workers: a worker that holds the permit, two that queue, one that is superseded twice, on both sides of the change of instance |
| `worker_exit` | *violated*: the process exits only on a timeout | 1 instance, 2 workers |
| `worker_life` | nothing is driven after Close; a switch leaves both magnets right; the worker returns; a direction is reported; what is configured is told | 1 device, 1 object with pins in both registers, one pin and one magnet inverted, registers left from before; 1 request that waits beside 1 that works (more would only queue), one direction of requests that are not in use, 1 failure at any step |
| `i2c_bus` | refinement of `AtomicBus`; operations get open files; calls return | 2 callers, 2 devices: one caller's failure closes the other's file while it queues; calls repeat without bound |
| `relay_switch` | never both coils; an energised coil is scheduled; a finished pulse has released both; closed stays safe; if the errors of `Run` stop, scheduled releases happen and a cancelled `Run` ends | all five kinds of chips, the coils in different registers; any number of failing bus operations |
| `track_inverter` | no short; a request is obeyed | requests without bound, 1 failing call |
| `inverter_lost` | *violated*: between rounds the relays are those of `currentState` | no failures needed |
| `servo_switch` | frog polarity fits; moves approach the target; only reached positions are reported; a lasting request is obeyed | three kinds of servo outputs; pulses 2 and 9, steps of 2: half-way start, full steps and a short last step in both directions; 2 failures |
| `servo_relays` | *violated*: while the servo moves no phase relay is on | 1 failure |
| `reporting` | lasting sensor values are reported; a sensor at rest with nothing under way has told what it read; a request between two rounds is put out and reported; everything stops | a queue of 1 instead of 8: it is full with the first message that is not taken, and still holds one while another is in flight; three readers, two kinds of outputs; 1 failure, of a call or of a transmission |
| `network_control` | changes take effect; the newest configuration is delivered; a loader with nothing left to read has taken it; a half-dead instance is replaced | 2 addresses, 2 configurations, 3 failures against a limit of 1 recent error (10 in the code): the limit is exceeded once and there is one failure left for the dial after it |
| `dial_failure` | *violated*: no instance runs without a connection | 1 failed dial |

`CHECK_DEADLOCK FALSE` appears where the modelled part may really come to its end: `Run`
has returned, the process has exited.

### Conditions in the properties

`NoShort` and `RelayMatchesPosition` are stated for histories without
a failed hardware call (`failures = 0`), because the code does not hold them otherwise: an
error is logged and the next step is taken; so are `SwitchTakesEffect` and `RequestIsApplied`. `NeverBothCoils` and `PulseEndReleasesCoils`
hold with failures. `CoilIsScheduled` holds with failing deactivations, but not after an activation that failed
(`activationFailed`), until a request succeeds or an older pulse ends: `switchTo` returns without a schedule.
`ScheduledIsReleased` and `CancelledRunReturns` need `ErrorsStop` (`<>[]~hasErrors`: from some time on no iteration of `Run` has an
error), a condition of the property and not a fairness of the model: with a chip that keeps failing, or if the bus keeps refusing the
done context, `Run` repeats the deactivations for ever. Without the condition TLC refutes both.
`RequestIsObeyed` of the inverter excludes requests that arrive in the middle of a
switching round (`raced`), for which it is false (`inverter_lost`). `ChangeTakesEffect`
and `NewestConfigIsDelivered` exclude `ChangeMissed`: discovery reads `ncsCancel` before a new instance
to the *old* address stores its own; that instance then runs until it ends by itself, with discovery blocked on
its channel.
`RequestIsApplied` of the binary output is about requests that come while `Run` waits between two rounds: others may be
reported without being put out (the target is read again after the pin was set), or put out without being reported.
`ClosedStaysSafe` and `ClosedIsSafe` are about drivers whose `Close` turns pins into inputs: the car
sensor and local pins do not. `NeverBothCoils` is run with relays that are active when high; see section 4 for the others.

### Fairness

- Runnable goroutines are scheduled (WF of their steps), timers fire.
- Nobody owes that `worker.Run` ends, that requests, configurations, cancellations or
  failures come, or that they stop: there is no fairness on them.
- `I2CBus`: WF of each caller's loop and of the bus goroutine; SF of `Send`, because blocked senders on a Go channel
  are queued; SF of the `CompareAndSwap` of the bus goroutine, which competes with a
  caller that locks and unlocks in a loop. The last one is an assumption: `spinlock.go` has no queue.
- `RelaySwitch`: SF of taking the mutex (a Go mutex hands over to a starving waiter).
- `ServoSwitch`: SF of `Settled`: the settle time passes.
- `Reporting`: WF of the object and of the sending goroutine; WF of `LastSentAges`: 15 seconds pass.
  Nothing is assumed of the input, of requests or of the delivery of late MQTT messages.
- `WorkerLife`: WF of every goroutine; SF of a round of `Run`, which takes the mutex although requests
  keep coming. WF of `Ping`: some ping gets through (one that fails changes nothing).
- `NetworkControl`: SF of receiving a change that waits in the select (a Go select picks
  at random among ready channels).

## 4. Proofs

`tlapm` checks these theorems for all values of the constants. They assume only what the
modules assume of their constants, by name: `BoundsAssumption`, `FailuresAssumption`, `StatusAssumption` (bounds are
natural numbers), `CallerAssumption` (special values are not callers or addresses), `PinAssumption`,
`MagneticAssumption` (pins of an object differ), `PulseAssumption` (the two pulse lengths
differ, steps are positive), `SensorAssumption`, `OutputAssumption`. TLC evaluates all of them in the runs.

**WorkerRunnerProofs.** `MutualExclusion`, `PublishedCorrect`, `NewestCorrect` (an action
property) and `TypeCorrect`. Mutual exclusion is not inductive: it does not say who has the
permit. The invariant `IInv` adds
- `HolderInv`: a worker past `Acquire` is the holder of the permit, so two are the same;
- `StartedInv`: workers 1..last are those that have started, and have an owner;
- `SupersededInv`: every worker but the last one has its context cancelled, because
  `ReceiveConfig` cancels the previous one and an instance cancels its last worker before it ends.

`NewestCorrect` follows from the last: a worker passes its context check only when its context is
not done, so it is the last. `RunningIsPublished` is in the invariant
itself: it is preserved because the writers hold the permit.

`PermitIsKeptCorrect` is about the semaphore: while the process lives its permit is free with nobody waiting, or with a
goroutine that still runs, and whoever else waits is queued. It takes `QueueInv`: the queue holds waiting goroutines,
each once, and not the holder. `HardwareRefinement` shows the runner as `Hardware`: the user is the
worker past its context check, the newest one is the number of workers started; a step that takes the hardware is one of
the last worker, by `SupersededInv`, and finds no other user, by `HolderInv`.

**I2CBusProofs.** `TypeCorrect`, `OpenFileCorrect` and `Refinement`: the bus implements `AtomicBus`. `IInv` ties the two sides of a call together:
- `RequestInv`: the bus goroutine has a request exactly while it is busy, and its caller waits;
- `DoneInv`: `done` is set exactly for callers whose request was executed;
- `LockInv`: the spin lock is held on one side at most;
- `ResultInv`: what is stored is the outcome of the operation from the moment `done` can be seen;
- `FileInv`: registered files are open.

The refinement mapping derives the abstract call (pending, running, performed) and its
answer from `pc`, `bus` and `outcome`. Each step changes them for one caller or for none
(`SameButOne`, `SameAll`), and `AbstractStep` says which change is a step of `AtomicBus`.

**RelaySwitchProofs.** `TypeCorrect`, `NeverBothCoilsCorrect`, `CoilIsScheduledCorrect`, `ClosedStaysSafeCorrect` and
`PulseEndReleasesCoilsCorrect` (an action property), for any pins on any kind of chip, other objects on the chip and
any number of failures. That a coil is off on the chip is not enough: a cache that a failed write left changed
turns it on with the next write of the register, for whatever object. A coil is `Quiet` when it is off on the chip *and* in the
cache. First lemmas on each driver say which operations keep a quiet pin quiet, and make one quiet. Then `IInv` adds
- `MutexInv`: who is inside `switchTo` or the deactivations has the mutex;
- `PairInv`: one of the coils is quiet, and the opposite one whenever a coil is about to be activated;
- `PulseInv`: the second deactivation of `Run` is reached without an error only after the first had its effect;
- `ScheduledInv`: unless an activation failed, a coil that is not quiet is scheduled;
- `ClosedInv`: a closed chip drives nothing.

`NeverBothCoils` is proved for relays that are not inverted (`Inverted = {}`), and with inverted relays for the I2C expanders.
With inverted relays on a car sensor or on local pins it does not hold: these put out low, which is
active, before `Configure` has let both coils go, so that both can be energised.

`InterlockRefinement` says more of the same kinds of chips, failures included: no step energises a coil while the other is on. `NeverBothCoils` would allow
one write of a register to exchange the coils. It does not happen because the coil that is off is also quiet, whenever
one is on (`OneAfterTheOther`, from `PairInv`).

**TrackInverterProofs.** `TypeCorrect` and `NoShortCorrect`. `NoShort` does not say what `Run` has still to do; the
invariant adds `TodoInv` (the loops take the relays in the order of the code) and `OnInv`: without failures each relay
is as it believes to be, so that the loop that lets go skips none that is energised, and only
relays of one polarity are energised at each place of `Run`.
From `OnInv`, and because a step calls one relay, `InterlockRefinement` follows: as long as no call fails, the rails
change polarity only through a moment with all relays let go.

**ServoSwitchProofs.** `TypeCorrect`, `RelayMatchesPositionCorrect`, `MovesNearerCorrect` and `ActualIsReachedCorrect`, for all pulse
lengths and step sizes and the three kinds of servo outputs. `MoveInv` says in which states the target
is reached; `ServoInv` that without failures the servo is where the last call sent it (for MQTT: what is taken as sent is
what the servo has); `RelayInv` that a relay is as it believes to be, and on only at the position it belongs to.
`TurnoutRefinement` follows from these: servo and relays implement `Turnout`. Its frog is that of the relays from the end of `Configure` on and as long
as no call fails; otherwise it is taken as off, so that nothing is claimed of it (`servo_relays` shows why), and only
the range of the blades is.

**WorkerLifeProofs.** `TypeCorrect`, `ClosedIsSafeCorrect` and `SwitchTakesEffectCorrect` (an action property). Goroutines that process requests outlive the worker and
go on to call `Set` on a closed chip. `ClosedInv` (the direction register of a closed mcp23017 is full) is preserved
because `Set` never writes the direction register (`SetPinKeeps`), and only `Close` and `SetDirection` do, of which the latter is
not called any more (`StageInv`: objects are configured only in `configureObjects`).
A switch is eight calls of `Set`; `PendingInv` says that what is left of them ends with the last of the final four, `AppliedInv` that
those of the four that are made hold in the cache and on the chip, and stay so because the four are of different pins and the
mutex keeps other requests away. `ReadyInv` (requests only come when all pins are configured) and `DirectionInv` (configured pins are
outputs) turn that into what drives the magnets.

Two theorems are about the end of the group, from `LeaveInv`, which ties what is alive to its goroutine. `NothingLeftRunningCorrect`: before
and after the group runs, none of its goroutines is there and no request is accepted, whichever failed first.
`ReturnsForAReasonCorrect`: `Run` returns only when cancelled or after a failed step.

**NetworkControlProofs.** `TypeCorrect`, `NewestIsTakenCorrect` and `CancelledIfOutdatedCorrect`. The count of recent errors stays in its range because
only a loader within the limit goes on (`ErrorsInv`). That a loader with nothing left to read has taken the newest configuration is
not inductive: it says nothing of a stream that still holds some. `LastInv` says it of the last configuration under way, which is the end of the stream, or
with an empty stream the one of the last hash; `HashInv` that this one is with `runWorkers` or with the loader; `StreamInv` that a stream
belongs to an instance and begins with a configuration; `AddressInv` that an address announced later is not that of an open stream.

`CancelledIfOutdatedCorrect` is the safety behind `ChangeTakesEffect`: once the callback has called what it read, the instance
that runs is cancelled exactly if its address is outdated, except for `ChangeMissed`; in particular discovery never cancels an
instance of the newest address. `FollowInv`: a change stays with the callback until the main loop takes it (`InfoInv`), an instance runs with the
address known last or with none (`ConnInv`), and what the callback called belongs to the instance that still runs (`CancelInv`).

**ReportingProofs.** `TypeCorrect` and `WaitingIsReportedCorrect`. The queue never exceeds its capacity, and what is sent is a value, never
the pointer that waited in the queue (`SenderInv`). That a sensor at rest has reported what it read follows from `PointersInv` (all
messages of a sensor point to its one state) and `ValueInv`: while no transmission failed and nobody was cancelled, the
value on its way is that of the state unless another message follows it in the queue.

**What is proved and what is checked.** Every invariant and every action property of the passing runs is proved. `PermitIsKept`, `NothingLeftRunning`, `ReturnsForAReason`, `CancelledIfOutdated` and the
refinements `ImplementsHardware`, `ImplementsInterlock` and `ImplementsTurnout` are stated in the modules of their proofs and belong to
no run; TLC was used on them at the bounds of the runs of their components before they were proved. **Model-checked only** is
all liveness, which is outside of the prover's reach; the refinements have none (the abstract specifications are safety properties).

## 5. Disagreements found

Each is a run that is expected to be violated.

1. `worker_exit`: after a failed `Acquire`, `worker_runner.go:80` tests `timeoutCtx.Err()`, which a
   cancellation sets as well. A waiting worker that is superseded ends the process with
   "Failed to acquire worker semaphore in time", although line 83 has the return meant for it.
2. `inverter_lost`: `track_inverter.go:202` reads the target again after the relays were set; a request that came
   in between is taken as applied and reported as actual. (`binary_output.go:112` has the same line.)
3. `servo_relays`: `servo_switch.go:313` moves the servo although a phase relay could not be
   deactivated, against the comment at line 310.
4. `dial_failure`: after a failed dial `service.go:166` resets the service info "so we need to get a fresh update"
   but goes on with the nil connection.

## 6. What is not modelled

- Logging, metrics, LEDs, the user interface, the gRPC transport and discovery itself: no coordination logic, or external. The
  publish/subscribe library of the request service is external too: `WorkerLife` models who is subscribed and a goroutine per request.
- Probing of I2C addresses (`DetectSlaveAddresses`), which bypasses the queue, and the recovery
  from a bus lock-up, which `NewI2CBus` disables.
- The red and green LED, the reference that API calls use to reach the current worker, and the Loki listener of `service.go`.
- API handlers beside switch and power requests (they have the same form), `Reset`, the servers.
- Devices service: the states of routers that MQTT callbacks store in a map.
- MQTT devices: connecting, `Close`, the status monitor; `Configure` waits for the connection without a look at its context, and
  whether that ends is up to the library.
- Pin numbers (a car sensor takes pin 8 for an output, a numeric error listed as a hazard), configuration words of
  the ADC, and `GetPWM`, which nothing calls.
- Bridges: pure I/O.
- `Configure` of the track inverter with its five attempts: the model starts when it is done.
- `WorkerReturns` is about a worker with a magnetic switch and a bounded number of failures; the end of the relay switch
  is in `RelaySwitch`, that of a sensor or an output in `Reporting`, and they are not composed with `WorkerLife`.
- In `WorkerLife` a ping that fails changes nothing, and `ConfiguredIsTold` rests on the fairness that one gets through.

Behaviour the models show and that no run is about:

- A magnetic switch that gets a request which is not in use, without `AlwaysEnabled`, drives nothing and
  still reports the direction as actual.
- A cancelled relay switch whose chip keeps failing never returns from `Run`: "Do one more loop to disable relays"
  (`relay_switch.go:191`) is done after every iteration with an error, not once. The worker then keeps the
  semaphore, and the one that waits for it ends the process after ten seconds. `CancelledRunReturns` without its condition is that claim.
- A worker none of whose objects could be configured sends no pings at all.
- After `Close` the outputs of a car sensor are written again by a late request, and local pins stay as they are.

## 7. Plan

Done: worker runner; bus, atomic bus and refinement; chips; relay, servo and magnetic switch; track inverter; binary
output and sensor with the status service; life of a worker; NetworkControl; the proofs of all their invariants and action properties;
what the runner, the switches and the inverter promise (`Hardware`, `Interlock`, `Turnout`) and that they keep it.

Next:

1. `WorkerLife` with two objects on one chip, and two devices of which one fails to be configured.
2. `WorkerLife` implements the worker that `WorkerRunner` assumes (the steps `RunWorker` .. `RunCancelled` refined).
3. MQTT: connecting, `Close` and the router states, with `WorkerReturns` under the assumption that the token completes.
4. The access of API calls to the published request service, composed with `WorkerRunner`.

Next proof: plan item 2 as a theorem; `NothingLeftRunning` and `ReturnsForAReason` are its first two steps.
