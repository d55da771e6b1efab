# RoboBand in TLA+

RoboBand is a C++ framework for small robots: a `Robot` owns controllers that run in periodic threads,
ios that receive in threads of their own, devices that translate between frames and physical values, and
virtual devices the controllers are written against. This directory models the parts of it that are hard to
test: the threads, their start and end, the clock of a controller, the simulator barrier, SIGINT, the framing of the
motor bus, the state of a motor between two threads, the ownership of bound storage, the start of the process with its
configuration, the blocks controllers are made of, and what the controllers read of devices that change under them.
Paths below are relative to the repository.

## 1. Inventory

| Component | State it keeps | Operations | Talks to |
|---|---|---|---|
| Robot::run (`src/robot/robot.cc`), Aokee (`app/Aokee/Aokee.cc`) | vectors `ios`, `ctrls`; locals `t`, `stopped` of devInit; the angle offsets it sets | bindVirtualDev, run ios, devInit (retract, sweep, setAngel, zero), run ctrls, loop on `running`, stop ctrls, stop ios | starts, stops and joins Io and Runner threads; sends on the port the controllers use later; polls speeds the io threads write |
| io::Io, IoKey, IoNoKey (`src/io/io.hpp`) | `running`, `thread` (never reset), `buffer`, `unpackers` | run, stop, destructor, thread loop, dispatch | read of the concrete io; unpack of devices (callback, on the io thread) |
| run::Runner (`src/ctrl/runner.*`) | `running`, `thread`, `t_set` / `time_set` | run, stop, bind, periodic loop | controller task (callback); clock, or simulator barrier |
| main and SigintHandler (`app/main.cc`) | global `running`, `robot`, showtime thread | create, run, delete, join; handler: log, clear, `exit(0)` | every thread: the handler runs on any of them |
| io::Webots (`src/io/webots.*`) | `time`, `bind_runner_num`, `sync_point`, `updaters` | step, accessors | barrier with all runners |
| io::Serial (`src/io/serial.*`) | descriptor, `head_tails`, timeouts | read (head search, inline and wait timeouts), send (write, sleep, no lock) | kernel; motors |
| io::Socket (`src/io/socket.*`) | descriptor | read, send | kernel |
| dev::Dev, UnitreeMotor (`src/dev/*`) | `send_data`, `angle`, `speed`, `angle_offset`, `err` | setTorque, setAngel, setAngelOffset, unpack | port; controllers read its floats through binders without a lock |
| vir::Motor, Imu, FiveLink (`src/virtual/*`) | pointers to angle and speed, `_actual` / `is_bound` | bind, getters, setTorque, update, setForce | devices |
| configuration (`src/util/util.*`, `app/robot_create.cc`) | toml tables | mergeConfig, typed getters, robotCreate | constructors |
| SISO blocks and Pid (`src/util/siso.*`) | integrator, last error | calc, limit, `>>` | controllers, devInit |
| controllers (`src/ctrl/balance_sys`, `src/ctrl/wheel_legged_chassis`) | gains | ctrlLoop | virtual devices |

What is hard in it, and what makes each part correct:

* **Threads.** Main, one thread per io, one per controller, the showtime thread, and a signal handler on any of
  them. Correct: controllers run only above running ios and on a calibrated robot; the unlocked port is never
  used by devInit and a controller at once; `run` returns, and the robot is deleted, only when every thread has
  been joined; SIGINT ends the program.
* **Time.** Absolute wake-up times, overruns, a float expression for the re-base. Correct: no burst of tasks
  after an overrun, no long silence, no run-ahead, normalised timespecs.
* **The simulator.** A barrier made lazily while runners already run; an end of simulation that only main sees.
  Correct: lock step, no controller left behind, a shut-down that ends.
* **The wire.** Frames cut, merged, preceded by garbage; lost answers; a reader that only looks for a head.
  Correct: whole frames are delivered after resynchronisation, `stop` is honoured.
* **Device state** written by io threads and read without a lock, calibration relative to a moving value.
* **Configuration and binding**: nested overrides, ownership of default storage over repeated binds.

The complete list of components and hazards, with lines, is in `PROJECT.json`.

## 2. Plan

Modules, in the order of importance to the system.

| Module | Subject | State |
|---|---|---|
| `TimeSpec`, `RunnerClock` | timespec arithmetic and the real-time reservation; the periodic loop | checked, proved |
| `Worker`, `LayeredThreads`, `RobotRun` | thread objects; abstract promise of Robot::run; Robot::run with devInit | checked, proved, refinement proved |
| `MainProcess` | main, showtime and SIGINT around `RobotRun` | checked, proved |
| `WebotsSync` | Robot::run, Webots::step and the runners in the simulator | checked, proved |
| `SimDevices` | updaters, controller task and torques on top of `WebotsSync` | checked, proved, refinement proved |
| `SerialRx` | framing of Serial::read over a stream cut anywhere; IoNoKey dispatch | checked, proved |
| `MotorLink` | setTorque / unpack / setAngel on two threads; error gating; calibration | checked, proved |
| `WorkerClient` | Io and Runner under any order of run, stop and destroy | checked, proved |
| `VirtualBinding` | ownership of storage in vir::Motor and vir::Imu | checked, proved |
| `Boot` | main, robotCreate, the constructors and the serial port among several processes | checked, proved |
| `MergeConfig` | mergeConfig on nested tables | checked, proved |
| `SisoPid` | limits and state of a Pid, alone and in a chain | checked, proved |
| `SocketRx` | datagrams, receive timeout, dispatch by key | checked, proved |
| `ChassisLoop` | a chassis controller's pass over legs that move while it reads them | checked, proved |

Composition: `RobotRun` and `WorkerClient` extend `Worker`; `MainProcess` extends `RobotRun`; `SimDevices` extends
`WebotsSync` and takes its steps apart; `SerialRx` and `MotorLink` open up the io thread and the `setTorque` that
`RobotRun` takes as two steps, and rest on its `MainSendsAlone`: one thread sends at a time. `ChassisLoop` takes the
report of a motor as one step, which `MotorLink` opens up. The abstract specification is `LayeredThreads`. The proofs
about a module are in the module of its group: `RunnerClockProofs`, `MainProcessProofs` (with `RobotRun`), `WebotsSyncProofs`
(with `SimDevices`), `SerialRxProofs`, `LinkProofs` (`MotorLink`, `SocketRx`), `LifetimeProofs` (`VirtualBinding`,
`WorkerClient`), `ControlProofs` (`SisoPid`, `ChassisLoop`) and `BootProofs` (`Boot`, `MergeConfig`). Left for later: an
abstract barrier round for `WebotsSync` and an abstract lossy channel for `SerialRx`.

## 3. What is modelled

**`TimeSpec`** is `incTime` and `getTimeDuration` of `src/util/util.hpp` on records of seconds and nanoseconds.
`Sec`, the nanoseconds in a second, is a parameter; the code's `long` has room for centuries, so the width of the
integers is left out.

**`RunnerClock`** is `Runner::thread_func` of the hardware build. `Begin` reads the clock into `t_set`; `StartTask`
and `EndTask` bracket the task, whose length is arbitrary because `Tick` may advance the clock at any moment;
`Reschedule` is the `incTime`, the test for an overrun and the second `incTime`, with an error `e` for the float
expression of `t_total`; `Wake` is `clock_nanosleep`. `Stop` clears the flag at any moment.

**`Worker`** is what `io::Io` and `run::Runner` share: flag, thread pointer, thread. **`RobotRun`** is
`Robot::run` with Aokee's `devInit`. `mpc` is main's position, `todo` the rest of the vector or array a loop is
visiting; loops over vectors take the elements in any order. A `setTorque` is two steps, `BeginSend` and `EndSend`,
because `Serial::send` sleeps between the write and its return; the motor may answer or not. An io thread takes an
answer off its bus and stores a speed, either below or above `MOTOR_STOP_SPEED`; `t` counts cycles of the retract
loop, and `MinCycles` is the number that make up `RETRACT_TIME_MIN_MS`. A controller's task commands every motor
once (legs and wheels). `ClearRunning` is whoever holds the flag.

**`LayeredThreads`** is the abstract promise: two sets, the threads that run and those that have ended, and the rule
that controllers run on top of all ios.

**`MainProcess`** adds the process: the robot object, the showtime thread (its task is in a submodule: it may end
early, may clear the flag, and ends once the flag is cleared), and `SigintHandler` on a thread `host`, which is frozen
while the handler runs. `HandlerClears` and `HandlerExits` are its two statements that matter.

**`WebotsSync`** is the simulator build. A `std::barrier` is `arrived` (in the current phase), `released` (still
leaving a completed phase) and `expected`; `expected = 0` is the null pointer `sync_point`, which runners read while main
sets it. The simulator advances `time` or answers -1 at any step.

**`SerialRx`** is the thread of an `IoNoKey` on a motor bus. `wire` is what motors have sent, `kernel` what the driver holds;
`ReadChunk` is one successful `::read` with the head search and the `memmove` behind it, in the array `buffer` with `readLen`
valid bytes, so that the bytes the code leaves behind them are there too. Bytes are symbols, a motor's report
takes two of them and may look like a head, and the CRC is ideal. `Accepted` is `unpack`, which looks at the whole buffer
whatever was read. `fresh` is a history variable: the frame that began on a silent line and is still due.

**`MotorLink`** is one `UnitreeMotor`. The sender's three steps are the test of `err`, the conversion and the write; `setAngel` and
`unpack` are cut where they read and write what the other thread writes. Torques and angles are integers; the
conversion to `int16_t` has its width. `heard` and `base` remember which reading of the encoder an angle stands for.

**`SimDevices`** adds the data to `WebotsSync`: `Update` is one `update()` of the list that `Webots::step` runs before it
advances, value by value. `UpdateImu` samples at every step; `UpdateMotor` returns early while the time is its `timeLast`, which
at the first step it is, so that a motor keeps the 0.0f it starts with (`Initial`) for one step more, and an imu that has not been
filled is `Unwritten`. A task reads the values one at a time and then commands the motors, where `TestTime` and
`SetTorque` are the test and the call of `motorSetTorque`. Of a value only the simulated time it was sampled at is kept.

**`WorkerClient`** is one client of Io or Runner objects. A call that waits is a step that enters it and one that leaves
it; `object` says how much the destructor has already taken away (`Serial`'s part, then the buffer, then all).
`died` is `std::terminate`, or the effect of touching what has been destroyed.

**`VirtualBinding`** follows all virtual devices of a robot: `target` is what `angle` and `speed` point to, `heap` the default
storage, `device` the members of the real device, which a second bind of an unmarked one deletes and which end with the robot,
`Marks` the devices whose bind leaves `isBound()` true (all of Aokee's; of LqrSim's only the imu). `bad`
collects those that delete what is not theirs, after which the allocator may or may not abort.

**`Boot`** is the process around all that: arguments, file, name, the default configuration, then Aokee's constructor,
which reads keys before and after it opens the serial port. Each step of `Serial::Serial` (open, lock, settings, flush) may fail
and calls `exit`, with the settings of the port already changed if the flush is what failed; a getter that throws has what
exists of the robot destroyed, the port included, and main returns -1. Several processes are started, interrupted and restarted; `lock` is
the `flock`, `line` the process whose settings the port has.

**`MergeConfig`** is `mergeConfig` on two trees: a function says what stands at the end of each path of keys, nothing, a
table or a value, of which only its origin matters. `at` is the table the innermost call merges and `unvisited` holds the keys each
call's loop has still to visit, so that the recursion is a stack: `Enter` is the inner call, `Assign` an `insert_or_assign` of all
that hangs at the key, `CallEnds` a return. The call at a path of odd length merges into the user's tree. **`SisoPid`** has the members of a `Pid`; `Calc` is a call on the object, `Chain` the call on the copy that
`error >> pid` makes. **`SocketRx`** has the network (lost,
copied, reordered datagrams), the socket's queue, the construction of devices and the thread of `IoKey`.

**`ChassisLoop`** is the pass of `WheelLeggedChassis::ctrlLoop` in its ten steps: four reads of a joint with the solution of
each leg, the Pid, the four commands and the wheels, while legs move and joints report one at a time. A
number is `"finite"` or `"nan"`; a leg has a solution when its two angles belong to one of the `Poses`.

Definitions whose comment says *Variant of* are deliberately wrong forms of the definition that follows them. No
specification uses them: they exist to show that each property can fail.

## 4. What the runs check

| Run | Question | Result |
|---|---|---|
| `runner_clock` | Does the loop keep its schedule for any task times, and does stop end it? | `TypeOK`, `WakeWindow`, `NeverAhead`, `StopEndsThread` hold |
| `robot` | start-up, calibration, control and shut-down with two ports, two controllers, two joints and a wheel | devInit has the port to itself, every io runs when a command is given, no retract torque issued last to any motor when a controller runs, quiet return, stop honoured once the joints settle; `Layered`: Robot::run implements `LayeredThreads` |
| `main_process` | SIGINT on any thread at any moment, showtime ending or clearing the flag | the robot is deleted only when quiet, main returns last, SIGINT always ends the process |
| `main_process_exit` | are ios and controllers stopped at the end, as the comments say? | **violated**, see below |
| `webots_sync` | barrier rounds of main and two controllers, with passes before the barrier exists, and what they exchange there | `LockStep`, `KeepsUp`, `PhaseCompletes`, `SnapshotAge`, `OneLateTorque` hold |
| `webots_shutdown` | does Robot::run return after the end of the simulation? | **violated**, see below |
| `serial_rx` | two frames of two motors, any chunks, two damaged or lost bytes, reads that end early or fail | `RxTypeOK`: read never writes past the buffer; `DeliveredInOrder`: no frame is invented, repeated or reordered; `SilenceResyncs`: after silence the next undamaged frame arrives |
| `motor_link` | faults, large torques and one calibration against reports at any moment | `AtMostOneLate`, `CommandFollows`, `AngleCalibrated` hold |
| `boot` | two processes and one port; any file, any failing step, SIGINT, restarts | `LineIsMine`, `FailureReleases`, `Decides` hold |
| `parts` | the seven components below, one at a time | all hold |
| `merge_config_user` | does the user's value win? | **violated**, see below |
| `virtual_binding_webots` | does a repeated bind of a simulated motor say so? | **violated**, see below |

`MCParts` puts components side by side that share no state; a behaviour follows one of them, `part`, and the others stay
where they start, so that the instance is the sum of theirs and not the product.

| Part | Question | Properties |
|---|---|---|
| `VirtualBinding` | both robots' devices, from constructor to destructor, bound once or twice | `OwnStorageOnly`, `NothingLeaks`, `ReadsLive` |
| `SisoPid` | any sequence of errors, calls and chains | `ChainIsMemoryless` |
| `WorkerClient` | run, stop and destroy of two workers in any order | `DisciplineSuffices`: a client that stops each worker once and before destroying it is safe; `CallsReturn` |
| `SocketRx` | two devices on one key, an unbound sender, a network that loses, copies and reorders | `RightDevice`, `DeliversWhatArrives`, `StopReturns` |
| `ChassisLoop` | passes over two legs that move between any two reads | `StillLegIsSolved`, `NanLastsOnePass` |
| `SerialRx` | one motor, one fault: does the reader end after `stop`? | `ReaderStops`, when the line falls silent in the end |
| `MergeConfig` | all pairs of configurations with a table in a table, the keys of each in any order | `OddDepthIsTheUsers`: the user wins at odd depths only |

**Findings.** (1) `exit(0)` in the handler ends the process with controller threads in the middle of their work; the stop
sequence of `robot.cc:36`, the `delete` and the join are dead code on that path. The handler is also what makes SIGINT
work while `devInit` waits: `SigintEnds` holds because of it, and the variant without `exit` loses it.
(2) In the simulator main leaves its loop without arriving at the barrier; a runner that waits there is never
released, and `Runner::stop` waits for it. Only an end while every runner is outside the barrier would return.
(3) The binder of a simulated motor leaves `actual` null, so a bound one counts as unbound: LqrSim binds in its constructor
and `Robot::run` binds again, which deletes members of the device where "Binding repeatedly!" was meant to be logged.
(4) `mergeConfig` swaps its arguments when it recurses (`util.cc:58`): inside a table the default replaces the user's value.

Three more things met while modelling that no run refutes: in the simulator a controller's first passes are not synchronised and
may read an imu whose arrays nothing has written (`devInit` of LqrSim is empty); its first synchronised pass may still read
the 0.0f a motor starts with, because `WebotsMotor::update` does nothing in the first step (`SnapshotAge` states this exception);
and `Socket::read` logs "Read timeout." for an empty datagram, a timeout as an error.

**Bounds.** `RunnerClock`: a second of 8, a cycle of 5 and steps of at most 4 make the carry happen in most cycles and a
task overrun by up to several cycles; `Horizon` and `MaxTasks` end the run and are above three cycles, after which no new
situation arises because the loop keeps no other state than `t_set`. `RobotRun`: two joints so that a sweep sees one
moving and one still; two workers per layer so that there is a first and a last; `MinCycles` 1, the retract
loop before and after the minimum time. `MainProcess`: one worker per layer, one SIGINT. `WebotsSync` and `SimDevices`: one controller with a cycle of one
step and one of two steps, three steps of simulation, one free pass; the lag of a runner is at most one, so three steps
show every relative position twice; a value of a motor and one of an imu, and two torques, of which only the first may be late.
`SerialRx`: a second frame is what a stale buffer or a lost head can do harm with, and two faults damage both bytes of a head; a
frame has the code's layout with one symbol per field. For liveness, in `MCParts`, there is one motor and one fault, without symmetry.
`MotorLink`: torques inside the limit, just beyond an `int16_t` and far beyond it, three readings, two reports on their way.
`WorkerClient`: two workers, so that a call on one meets a
thread of the other; no bound on the calls. `VirtualBinding`: two marked motors, one unmarked and an imu.
`Boot`: two processes, which is what a lock is about; no bound on restarts. `MergeConfig`: a table in a table, two keys in each, so that each parity
occurs with a conflict and with a new key; no bound is on the order of the loops.
`SisoPid`: gains and limits at which the integrator, the output, both or neither are limited.
`SocketRx`: two datagrams, each possibly doubled, late or empty. `ChassisLoop`: two poses whose mixtures do not close,
no bound on the passes.
Deadlock is not checked where the program ends (the clock, Robot::run, the process, the readers, a destroyed robot,
a finished merge, a client that died) or where the finding says it hangs (the simulator).

**Fairness.** Weak fairness of each thread: the operating system schedules them (SCHED_DEADLINE when it is granted,
the default policy otherwise), a read on the port returns within its timeouts, a send and a step of the simulator end. Nothing is
assumed of the joints, of SIGINT or of the answers of the motors; `StopHonoured` states its assumption on the joints
(`JointsSettle`) because `devInit` really waits for them. In `SerialRx` the thread
and the driver are fair, a failing read is never forced. In `SocketRx` the thread is fair and nothing is
assumed of the network: on a silent port the receive timeout wakes the thread. In `WorkerClient` the client
finishes a call it has begun but need not begin one. In `Boot` a process that has been started goes on, whatever the others do. The handler is fair; the showtime thread is
assumed to end once the flag is cleared.

## 5. What is proved

Every safety property that a run checks, for every value of the constants, with the types of each component. None of the
invariants below is the property itself: each adds what the property forgets.

`RunnerClockProofs`: `incTime` adds exactly what it is given and keeps timespecs normalised, for every length of a second
(the carry loop is division with remainder), and the reservation of `setThisThreadRealTime` has the form the kernel asks for exactly when
the cycle is within the kernel's limits on a period, 100 µs and 2^22 µs by default (`ReservationAdmitted`; the code does not look at
the result of the call, and the kernel may refuse for want of bandwidth or of privileges, which is left out). Types, `WakeWindow` and `NeverAhead` for every cycle, rounding error
below a cycle, and bound. The invariant adds to the types where `t_set` stands: not after the clock while the thread is awake, in
the window while it sleeps, and at least one cycle per task after the start; the latter is what `NeverAhead` alone does not
carry over a re-base.

`MainProcessProofs`, first about `RobotRun`: types, `MainSendsAlone`, `AnswersHeard`, `NoRetractUnderControl`,
`QuietWhenReturned` and the refinement `Layered`, for every number of ios, controllers, joints and wheels. The invariant has five
parts besides the types: `Threads` (a thread against its flag and pointer: a thread that has ended was told to), `Joining` (main
joins one worker of the layer it is stopping), `Phase` (which workers exist at each position of main), `Sends` (who may be inside
a send) and `Devices` (what devInit has achieved at each position). For the refinement, ending an io thread needs
`Threads` and `Joining`: its flag can only be cleared in the last phase, when `Phase` says that all controllers have been
joined. Then the process: types, `DeletedQuiet` and `ReturnsLast`. Every step of the process is a step of Robot::run or leaves it
alone (`ProcStepIsRobotStep`), so the invariant of `RobotRun` carries over; added to it is the order of main's last
steps (`MainOrder`), and that Robot::run does not resume once it has returned (`ReturnedForGood`).

`WebotsSyncProofs`: types, `LockStep` and `KeepsUp` for any number of controllers, any cycles and any step. The invariant says who may
be inside the barrier (`Barrier`, `Places`) and that all have been through the same number of phases, with main due in one
more after a step (`Met`). A phase completes when as many threads as expected have arrived; that these are all
of them is the cardinality argument of `Arrival`. `KeepsUp` adds `Clocks`: k steps of clock per round for a cycle of k steps.
`SimRefines`: `SimDevices` implements `WebotsSync`, because each of its steps is one of the synchronisation or leaves it
alone; so the invariant above holds of it. `SnapshotAge` and `OneLateTorque` add `Fresh` (how old each cell is against the
updater main is at: one step old while main is due at the barrier, or still what it started with in the first round), `LastTimes`
(a motor's `timeLast` is the time of its sample, or 0 before it has one) and `Spent` (a torque that has passed its test is the last one).

`SerialRxProofs`: types, `DeliveredInOrder` and `SilenceResyncs`, for any motors, reports, frames and faults, on the model's frame
layout. For the order, every last byte of a frame (`IsCrc`) in the buffer, the driver and on the wire is tied to the frame it was
sent with, and these come in the order of sending, so that a frame `unpack` accepts is one that was not accepted before: a buffer
that has been cleared or partly overwritten holds no such byte twice. `FramedOf` says what the loop over the heads does to a
chunk. For the silence, `Pending` says where the bytes of the frame that is due are: what the buffer already holds of it, then
the driver, then the wire, with enough of them to fill the buffer.

`LinkProofs`, of a motor: types, `AtMostOneLate`, `CommandFollows` and `AngleCalibrated` for every set of torques and readings and
both mountings. The invariant adds, for the first, that no tested torque is under way once a late one has gone out; for the last,
which offset `angle` and a half-unpacked report are based on. `LimitedInt16` and `EncodeValue` are the arithmetic of the
conversion. Of the UDP port: `RightDevice` and `DeliversWhatArrives` for any devices, keys and datagrams. `FirstBound` says that
the table of the port holds the first device made with each key; `Found` and `ToOwner` that the thread looks up and has delivered
by it. Deliveries are counted by rank: `RankRange` and its companions show that handing over the last datagram taken appends to
the order and moves nothing in it.

`LifetimeProofs`, of virtual devices: types, `OwnStorageOnly`, `ReadsLive` (while the robot exists, the getters of a device that is marked, or bound
once at most, read storage that exists) and `NothingLeaks` for any devices and marks. The invariant ties the pointers to the default storage (`Owned`: a device points to another one's
members exactly after it deleted its own) and to the progress of the visits (`Visited`). Of a client of workers:
`DisciplineSuffices` for any number of them. `Owning` says what a thread, its pointer, its flag and its object allow each other
while the worker is not misused; a step of one worker disturbs no other (`OneWorker`).

`ControlProofs`, of the blocks: `WithinLimits` (integrator and output stay within their limits) and `ChainIsMemoryless` for all
gains, limits and errors. Of a chassis controller's pass: `StillLegIsSolved` and `NanLastsOnePass`
for every set of poses. `Reported` relates a leg that stands still to what its joints have reported; `Solving` says what has been
read and solved of each leg at each step of the pass, `Commanded` which torques are already those of this pass.

`BootProofs`, of the processes: `LineIsMine` and `FailureReleases` for any number of them; the lock is held exactly by the one that
is between `flock` and its release (`LockInv`). Of the configuration: `OddDepthIsTheUsers` for any two files, nested to any depth,
and any order of the loops. The invariant has the tables on the stack (`Stack`: all of them in both files, each entered through a
key that is no longer to do), `Tables` (a table of both stays one) and `Contents`: an entry around which both files have tables,
but not in its place, has the contents of one file or the other, depending on whether one of the loops has still to visit a key on
the way to it (`Pending`). No induction over the depth is needed: two such entries are never one in the other (`ContestedApart`),
and a call into a table makes pending in its own loop exactly what was pending through its key (`EnterKeeps`).

The proofs use the assumptions named in the modules: `SecAssumption`, `ClockAssumption` (a positive cycle, a rounding
error below it), `RobotAssumption` (the workers are the ios and the controllers, disjoint; each motor hangs on an io),
`ProcessAssumption` (the showtime thread is none of the others), `SyncAssumption` (finitely many runners, a positive step),
`DevicesAssumption` (the cells are a list, those of the imus among them), `RxAssumption` (the report that looks like a head is a report), `MotorAssumption` (`dir`
is 1 or -1), `SocketAssumption` (each device has a key), `BindingAssumption`, `PidAssumption` (limits are not negative), `PosesAssumption` (a pose is two angles), `BootAssumption` (the keys are those Aokee reads) and `PathsAssumption` (the
part of a path down to any of its tables is a path).

## 6. Only model-checked, and not modelled

Proved and not run: the types of every component but `RunnerClock` and `SerialRx`, as theorems or as a part of its invariant,
`WithinLimits`, `ReservationAdmitted` and `SimRefines`.

Model-checked only: liveness (`StopEndsThread`, `StopHonoured`, `SigintEnds`, `PhaseCompletes`, `ReaderStops`,
`CallsReturn`, `Decides`, `StopReturns`), which is beyond the prover, and the four findings, which are counterexamples.

Not modelled: control laws and kinematics (floating point matrix algebra), the rounding of floats, functions composed of two
blocks, `setAngelOffset` and `rad_format` (nothing calls them), the toml and CRC libraries, the wording of logs except where a
finding is about it, the build files. `Socket::send` writes one datagram and keeps no state.
`SocketRx` takes datagrams to fit `Io::buffer`: `recvfrom` is given 256 bytes whatever `buffer_size` is, and what a longer datagram
overwrites is left out (the one `Socket` of the repository, of 100 bytes, is never run). `MotorLink` has no torque that is not a
number, whose conversion to `int16_t` is undefined. Commands of two controllers that share a port may overlap in `RobotRun`;
`MainSendsAlone` speaks of devInit only, and `NoRetractUnderControl` of commands as they are issued: one that the line loses is not seen.
The data races on device floats and on `sync_point` are treated as atomic reads and writes of the word; `MotorLink`,
`SimDevices` and `ChassisLoop` take apart what is made of several. In `MainProcess` a second SIGINT and the C++ library's own state
inside a signal handler are left out.
