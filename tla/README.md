# Verification of viam-isaac-sim

TLA+ models of the viam module that runs Isaac Sim (`src/isaac_module`,
`src/pickcell`, `src/main.py`), their TLC configurations, and proofs checked by
TLAPS. Line numbers below are those of the source files at this commit; paths
are relative to the package directory (`src/isaac_module/` for all that has no
other prefix) unless they start with `docs/` or name a file of the repository's
root.

## The system

Isaac Sim must be driven from one thread. The module therefore has a *sim
thread*, which is the process's main thread, and everything else: an asyncio
event loop on a daemon thread, where viam's resources live, and the worker
threads of the loop's executor. `SimManager` lies between them.

| part | state it keeps | operations | how it meets the others |
|---|---|---|---|
| `SimManager` (`sim_manager.py`) | task queue, boot and gate events, warm-up counter, stop flags | `main_loop`, `run`, `ensure_booted`, `finalize_scene`, `request_stop` | every component calls `run`; tasks are Futures |
| its handle registry | handles by name, post-reset hooks, spawned prims | `create_*`, `release_handle`, world reset | factories are tasks that do not wait for the gate |
| module process (`main.py`) | module thread, signal handler | `_run_module`, `_shutdown` | the handler runs on the sim thread and joins the module thread |
| world component (`models/world.py`, `world_commands.py`, `handles/world.py`) | configuration, props, a lock | `reconfigure`, verbs | boots the sim, blocking the event loop; one task per prop it moves |
| scene-finalizer (`models/scene_finalizer.py`, `workcell_client.py`, `frame_system.py`) | one thread per build | probe the dependencies, spawn, `finalize_scene` | releases the gate of the world |
| arm (`models/arm.py`, `handles/arm.py`) | targets, settle callback, trajectory in flight | moves, `stop`, `is_moving` | a coroutine, a worker thread and a physics callback per move |
| gripper (`models/gripper.py`, `handles/gripper.py`) | target, stall window, latch | `open`, `grab`, `stop`, questions | polls its handle, which counts the polls |
| vacuum gripper (`models/vacuum.py`, `handles/vacuum.py`) | engaged, load window, monitor | `grab`, `open`, `status`, `stop` | Isaac's surface gripper, a physics callback |
| camera, base | a handle each | images, motions | `run` on the sim thread |
| conductor (`models/conductor.py`, `run_log.py`) | state, cancel flag, rollup, window of records | `start`, `stop`, `status`, the background run | resets the cell, takes censuses, runs pick pipelines |
| sort plan, pick pipeline (`sort_plan.py`, `pickcell/`) | slots per colour; ignored props; where a block is | `next_slot`, `release`; look, grab, carry, release | called by one loop of the conductor |
| sorter sensor (`models/sorter_sensor.py`) | the mark of the last record it emitted | `get_readings` | polls the conductor's status |
| palletizer (`models/palletizer.py`, `sequencer_client.py`) | state, cancel flag, records, infeed pose | `start`, `stop`, `status`, the background run | asks an external sequencer for the next seq and reports to it |
| configuration, geometry, materials, assets | none | pure functions | used while something is configured or spawned |

What is hard in it, and what each part has to keep to be correct:

* **SimManager.** A timeout races with the start of the task it gives up on; the
  gate is checked long before the task runs; a failed boot releases the same
  event as a successful one; the sim thread polls a closed gate and has to serve
  the factories that will open it. *An answer must tell what happened to the
  task; nothing operational runs before the sim is ready; every caller returns.*
* **Process.** The signal handler blocks the very thread the module thread may
  be waiting for. *It must nevertheless end.*
* **Registry.** A factory times out and its task goes on; a reset visits the
  hooks that were there when it began; a jaw replaces the articulation of its
  arm. *What a reset and a step reach is the live handle, with its settings.*
* **Scene.** Probes of several components, timeouts, failed tasks and threads
  that give up. *Scenery precedes the first step, and the gate is released.*
* **Props.** A verb is many tasks; others come between. *An answer is the cell.*
* **Arm.** Two moves share one callback name, a stop or a reset changes the
  target a wait is judged against. *Success means arrived; a move that ends
  leaves nothing behind; every move ends.*
* **Gripper.** It cannot feel, and concludes a hold from questions that
  several clients ask of one window. *A hold was earned and is not forgotten.*
* **Vacuum.** The load window outlives a hold, `grab` answers before the
  plugin gives up. *A box is released for its own load, and then it is.*
* **Conductor.** Commands come at every await of a run, and the flags they set
  are read later. *One run at a time, no work after a stop, records that say
  what happened.*
* **One sorting loop.** Censuses see different blocks each time, picks fail at
  every await. *Slots stay distinct and suffice; a block is neither retried for
  ever nor forgotten; the planner ignores the target and nothing else.*
* **Sensor.** Replies overlap, the window moves. *Each record once and in order.*
* **Palletizer.** A run dies between the release of a box and the report of it;
  the sequencer's cursor outlives the run. *A box that counts as placed is left
  alone; retries are bounded; a run starts with an empty cup.*

The list of what is hard to test, each at its line, is `hazards` in
`PROJECT.json`. A few more, which no property covers, are at the end.

## The modules

| module | what it models |
|---|---|
| `SimManager` | the sim thread and `run()`, `ensure_booted`, `finalize_scene`, `request_stop` |
| `MarshalledCalls` | abstract: what a caller of `run()` may rely on |
| `ModuleProcess` | extends `SimManager` by the module thread and the signal handler |
| `SceneBuild` | extends `SimManager` by scene-finalizer threads |
| `SimManagerProofs` | invariants, action property and refinement of `SimManager`, what `ModuleProcess` keeps of them and the order of the scene in `SceneBuild`, proved |
| `Registry`, `RegistryProofs` | factories, handles, hooks, the world reset and the release of a handle; proofs |
| `WorldCell`, `WorldCellProofs` | the verbs of the world component that move and size props; proofs |
| `Arm`, `ArmProofs` | moves, stops and the settle callback of one arm; proofs |
| `Jaw` | the parallel-jaw gripper and its stall window |
| `Vacuum` | the vacuum gripper, its coaxial monitor and Isaac's plugin |
| `GripperProofs` | `Jaw` and `Vacuum`, proved; the names of `Jaw` differ from those of `Vacuum` for it (`JawNext`, `phase`) |
| `Conductor` | commands and runs of the conductor, loop by loop, with its log |
| `SortJob` | abstract: a service that runs one job at a time |
| `SorterSensor` | extends `Conductor` by readings that overlap |
| `Filter` | what a filter keeps of a sequence, said by places instead of by recursion; lemmas of the proofs stand on it |
| `ConductorProofs` | `Conductor` and `SorterSensor`, proved |
| `SortLoop` | one loop of the conductor: passes, censuses, attempts, slots and blocks |
| `Pick` | extends `SortLoop` by every await of a pick |
| `PickProofs` | safety of `SortLoop` and `Pick`, proved |
| `Palletizer`, `PalletizerProofs` | commands and runs of the palletizer, the sequencer and the boxes; proofs |
| `MC*` | instances for TLC; they define constant functions and symmetry. `MCProcessAndScene` and `MCGrippers` check two components in one run: a behaviour is of the one or of the other |

`PROJECT.json` maps every definition to its lines. Conventions:

* An action is what happens between two points where another thread or
  coroutine may run: two operations on shared state for threads, two `await`s
  for coroutines. The conditions in between are guards of the same action.
* `pc`-like variables name the point a thread has reached. In `SimManager`:
  `simPc` for the main loop, `worldPc` for the world's `ensure_booted`, `pc[c]`
  for each caller of `run`. In `Conductor`, `startPc` and `runPc`; in
  `Palletizer` and `Pick`, the await of the run.
* A variable marked *history* is not in the code. It remembers what a property
  needs (`execs`, `seen`, `stopAsked`, `emitted`, `owner`, `alone`, `touched`).
* An operator whose comment starts with *Seeded fault* is not part of a
  specification. It is the form a definition would have with a plausible bug;
  `mutants` in `PROJECT.json` says which property then fails, so that no
  property is listed that no bug could break.
* A property whose name joins several (`SceneGateHolds`, `StatusIsTrue`,
  `HandlesAgree`, `ReportsAreEarned`, ...) is a conjunction of named parts, each
  with its own comment.

### SimManager

`tasks` is `_tasks`; `fut[c]` is the Future's state; `current` the task being
executed. `ready`, `booted`, `finalized` and `bootError` are the events and the
error of the same names. Calls are of three kinds that `run()` tells apart: those that
wait for the gate (operational), those that do not (factories and the scene),
and nested calls made on the sim thread, which are executed on the spot
(`RunInline`). A drain is modelled task by task, because a task that ends and
the next that starts are separated by other threads' steps. A boot is one step that
succeeds or fails. `AppDies` is Isaac Sim's window being closed.

`MarshalledCalls` has no queue and no gate: a call is submitted, started at most once,
finished, and answered with `ok`, `refused` or `timeout`; a call that timed out
before it was started never starts. `SimManager!Abstract` is the refinement
mapping.

### ModuleProcess and SceneBuild

Both extend `SimManager` and conjoin its actions with guards, so the sim thread
does not move while the handler joins, and calls are made by the threads that
make them. In `SceneBuild` a finalizer thread makes two calls
(the frame system's colliders, then the scenery of the components), each of
which may time out at the caller and still be executed, and finalizes whatever
they bring. Shapes, poses and the RPCs of the probes are abstracted to "has
visuals", "has none", "fails", "cannot be parsed".

### Registry

`handles`, `hooks` and `spawned` are `_handles`, `_post_reset_hooks` and
`_prim_spawned`. A build is the await of a factory (`Build`), its task on the
sim thread in the pieces between which it can die or reset the world
(`SpawnFirst`, `Reattach`, `JawJoins`, `CupRig`, ...), and the registration on
the event loop (`Register`). A handle is the number of the build that made it, and so is
the articulation wrapper it drives: `art[i]` is the wrapper of handle `i`,
`scene` the wrapper in Isaac's scene registry. A world reset puts `solver`,
`drives` and `athome` back to what is authored, and then fires the hooks
one by one (`FireHook`), while the event loop may close or build.
What a prim looks like in USD is left out; `prim[n]` is the pose it was spawned
with.

### WorldCell

A verb is a worker thread with a plan and a list of moves, one task of
the sim thread for each. `lock` is the asyncio lock of `scatter_cell` and
`randomize_props`; a dropped RPC gives it back while the worker goes on.
Between two tasks the physics may push props that are inside each other (`Pushed`)
and drop those that hang (`Falls`). A place is one of a few that are far enough
apart; drawing them is nondeterministic. An edge is any number above zero, as
for the code, below or above the one a prop is spawned with.

The places where props are spawned or parked are outside the region and apart from each
other. That is so in a cell laid out as `cell_layout.py` lays it out, and it is an
assumption: no code checks it, and a prop whose spawn pose is inside the region
would be drawn onto.

### Arm, Jaw, Vacuum

Each has the calls as coroutines over a queue of tasks (in `Jaw`, where the
order of two tasks is the order of the calls, without the queue) and a physics
step in which the callback of the handle runs.

* `Arm`: `pc[m]` is the coroutine of a move, `worker[m]` the thread of the handle
  method it awaits, `callback` the wait that the shared callback name stands for.
  `Densify` puts the extra waypoints in; `track` is `_StepTracker` with its window,
  its still steps and its lack of progress. The joints are one joint, the worst;
  the drive may be held back or pushed, and the sim may not step at all.
* `Jaw`: `best`, `count` and `latch` are the window of `is_holding()`. Every
  question of any client (`Asks`) advances it. An object comes, creeps and goes.
* `Vacuum`: the fields that `grab` and `open` write on a worker thread
  before their task is queued, the tasks, and the monitor with `samples`.
  Isaac's surface gripper (external) takes hold within a while, gives up, or drops under shear. `own` (history) has the
  loads of the present hold since the last command, and begins anew with each hold;
  `inherited` says that the window had loads of an earlier hold when this one began. A
  world reset brings that about: the hold ends while the status still says closing, so the
  monitor does not clear its window (`handles/vacuum.py:490-501`).

### Conductor, SortLoop, Pick, SorterSensor

A run is seen at three scales. `Conductor` has the states that `status` shows,
the loops and their records; a loop's work is a few steps of it. `SortLoop`
opens one loop: the census finds any subset of the blocks that are
in the zone, with detectors that may fire on another colour and looks that see
a block twice, and claims the items it knows by name; an attempt goes through
the steps of the pipeline that move a block. It models what the
conductor books (`outcome`, `attempts`, `slot`) beside what is so in the cell
(`at`, `onSlot`). `Pick` opens an attempt: `step` is the await of `run()`,
`After` and `Fallback` are the order of the moves and what each falls back on,
`ignored` the props the planner leaves out. `SorterSensor` splits a reading
at its one await, the status call.

A start checks the state, awaits the probe of the arm and sets the state after
it, so two starts may both be accepted. `overlap` (history) is set when a start that found
nobody at work when it was checked is accepted beside a run, and cleared when one
is accepted with nobody at work. A check that lets a start through beside a run is not
excused by it (`met`). What is stated of one run at a time excepts `overlap`, and the run
`SecondStart` shows what happens there.

### Palletizer

`Legs` are the motions of one box in order; `plan` is how the leg under way is
planned: a straight line, then free, then free once more after a planner timeout. `Raise` is
any await that raises, which ends the run as failed, since nothing closer than
`_run` catches it. The sequencer (external) is its cursor and what it was told;
it acts on a verb before the reply arrives, so a reply may be lost. `at` is
where each box is, `closing` that the surface gripper still tries to take hold:
`grab()` waits `grab_delay_ms` (150 ms) while the gripper retries for
`retry_interval_s` (2 s).

## The runs

All bounds are constants of the `.cfg` files. Deadlock is checked everywhere but
in `Registry`, where all builds may be over; elsewhere, where the system may stop,
the specification has an explicit stuttering step for that state alone.

| run | what it shows | bounds, and why they are enough |
|---|---|---|
| `SimManager` | answers, gate, readiness, no late start; refinement of `MarshalledCalls`; callers return, a stop ends `main_loop`, a finalized scene becomes ready | 2 calls: a queue has order and a nested call has a caller, and calls interact only through the queue. 2 warm-up steps, so that "not yet" and "just now" differ. 2 boot requests: a boot that failed or timed out and is asked for again |
| `ProcessAndScene` | one side: the process ends on a signal and with its module server. Other side: scenery before steps, and all of it where the call returned; a finalizer finalizes | process: 2 calls, one of them a `close()` on the event loop and one of a worker. Scene: 1 finalizer with its two calls, 1 other call, 2 components to probe: one may fail and the other not. 1 warm-up step, 1 boot request: `SimManager` has two of each |
| `Registry` | hooks, handles and wrappers agree; settings survive a reset; a rebuild finds its name free | one component of each kind, both grippers on one arm; 4 builds (an arm, a gripper, and each again), 1 reset, 2 timeouts or failures |
| `WorldCell` | an undisturbed answer is the cell | 2 verbs, since a third adds no third kind of interference; 2 blocks, 2 places, 2 sizes, one below and one above the spawned one; 2 drops, timeouts or failures. Places and calls are symmetric |
| `Arm` | success is earned, stalls are counted once, nothing is left behind, moves end | 2 moves, one a trajectory with a waypoint far enough for two to be put before it; 1 intrusion (drop, stop, reset, close); a window of 2 and 2 stalls, so that one less than the limit differs from none |
| `Grippers` | jaw: a hold is earned and kept, grabs are watched, calls end. Vacuum: a box is released for its own load, and an overload is; open and rest agree | jaw: 2 calls and a third client that stops and asks; a travel of 3; `HoldingSteps` of 2 for the code's 5: the window is full or not. Tolerance 0; the proofs have every value. Vacuum: 2 calls, 1 reset or other box, and a close, 2 boxes, a window of 2 and two loads, one over the limit and one below |
| `Conductor` | log window, rollup, outcome, stop, one job at a time | 2 starts, so that a run follows another or begins beside it; 2 loops, 3 records, a window of 2 (one record is dropped), 2 errors in a row |
| `SecondStart` (violation) | a second start is not a no-op | as `Conductor` |
| `SorterSensor` | records are emitted once, in order, none jumped over | 2 captures and 1 live view; 3 records, a window of 2 |
| `Pick` | slots, retries, reports, ignored props, the jaw, the end of a loop | 3 blocks of two colours, so that two compete for a pad; both detectors fire on blue; 2 looks, 2 item numbers, 2 slots; 3 passes and 2 attempts, so that attempts run out before passes and the other way round |
| `FreeSlots` (violation) | a block may stand on a slot that is free to be drawn | as `Pick` |
| `Palletizer` | retries, records, bound, resumption, stop | 3 boxes, so that one is skipped between two others; 2 attempts and 2 teleports (the code has 3: the third repeats the second) |

In no run are starts kept apart: in `Conductor` and `SorterSensor` the probe of the
arm's readiness in one start may overlap another start, its run and its end.

### Fairness

* The sim thread (`WF` of its steps): `main_loop` is the process's main thread and
  blocks only in polls with a timeout. Tasks return: a task that does not return
  blocks the real sim as well.
* Callers of `run`: `fut.result(timeout)` returns. Nothing is assumed of the
  finalizer or of viam-server, except in `SceneBuild`, where the finalizer's
  own thread runs and its probes answer or time out.
* The process: the main thread runs and `join` times out. The module thread may
  serve for ever.
* `Arm`: the sim thread's tasks, the coroutines and the worker threads go on. The
  physics need not step: the guard of each wait is wall-clock time, so `MovesEnd`
  holds with the sim paused.
* `Jaw`: a call's coroutine goes on and its deadline comes. No fairness of the
  physics or of other clients.
* `Vacuum`: tasks and physics steps, since `OverloadIsReleased` is about a sim
  that steps. None of the plugin, the client or the boxes.
* Runs of the conductor and the palletizer, and the loop of `Pick`: the event
  loop resumes a coroutine whose await is over, and every await returns or
  raises. Motions have timeouts; a sampler that waits for a box to settle has one
  too. Commands are never fair.
* Sensor: captures are periodic. Live views are not fair.
* `Registry` and `WorldCell` state safety only and need none.

## What is proved

Every proof holds for all values of the constants that satisfy the module's
assumption, where a run has one instance. The module comments and the lemmas'
comments lead through each argument.

### SimManager (`SimManagerProofs`)

For every set of calls, every number of warm-up steps
and boot requests, with and without a finalizer or the mock:

| theorem | property |
|---|---|
| `AnswersMatchEffects` | `AnswerMatchesEffect` |
| `SceneIsGuarded` | `SceneGateHolds`, from the next two |
| `GateIsRespected` | `GateHolds` |
| `SceneComesFirst` | `NoStepBeforeScene`, `ReadyMeansWarm` |
| `TimedOutNeverStarts` | `NoLateStart`, which the refinement implies |
| `TypeCorrect` | `TypeOK` |
| `Refinement` | `ImplementsMarshalledCalls` |

None of the properties is inductive. The invariant `IInv` adds to `TypeOK`:

* `QueueInv`: no call is queued twice, and what is queued has a Future that is pending or cancelled and a
  caller that is waiting for it or has given up. Without it a drain could start
  a task a second time.
* `CallInv`, `ExecInv`: how a caller's point, its Future and the number of
  executions belong together. This is where the race between `fut.cancel()` and
  `set_running_or_notify_cancel()` is settled.
* `GateInv`, `WorldInv`, `SceneInv`: when the gate can be closed again, which
  is only while the boot has not come so far that a task could have passed it.

There is one lemma per part (`QueueStep`, `CallStep`, ...), with one step per
action, and `StepIInv` puts them together. `StepRefines` shows that a step is a
step of `MarshalledCalls` or leaves its variables alone, which uses `IInv`.

### ModuleProcess and SceneBuild (`SimManagerProofs`)

For any calls, warm-up steps and boot requests:

| theorem | property |
|---|---|
| `ProcessKeepsThePromises` | what is proved of `SimManager`, inside the process |
| `SceneryComesFirst` | `SceneryPrecedesSteps`, under `OneBuild` |

A step of the process is one of `SimManager` or leaves its variables alone; the
guards that the module thread and the handler add are never needed (the lemma
`ProcessIsASimManager`). The promises follow, because they were proved for every behaviour of `SimManager`.

`OneBuild` is that the sim waits for a finalizer and that there is one: with two,
the first to end gives the signal for both. `FinInv` stands on `IInv` and adds
`AwaitInv` (a finalizer's call is under way only while its thread waits for it),
`SpawnInv` (what a task that ended well was to spawn is in the stage) and
`OrderInv` (nobody but the finalizer finalizes the scene of a world that is
built, it does so last, and no step is taken while one of its tasks is left,
also one it gave up waiting for).

### Registry (`RegistryProofs`)

For any components, builds, world resets, timeouts and failures:

| theorem | property |
|---|---|
| `RebuildsStayPossible` | `RebuildsFindTheirNames` |
| `HooksStayTheLiveHandles` | `HooksAreTheLiveHandles`, a part of `HandlesAgree` |
| `HandlesStayAgreed` | `HandlesAgree`, under `OneJawEach` |
| `SettingsStay` | `SettingsSurviveResets`, under `OneJawEach` |

The event loop gives up a factory whose task goes on, so what the task will write
is not known from the registry. `RegistryInv` says why it does no harm:

* `QueueInv`: besides world resets there is one task at most, and the event loop waits for it
  or has given it up.
* `LoopInv`, `RunningInv`: a build in hand has a number and a name that no live handle
  has, whether its caller is still there or not.
* `RestoredInv`: of what a reset undid, each setting of a live arm is back, or the hook that
  puts it back is still to fire and is the live handle's. The exception is an arm
  that had no hook when the reset began (`lapsed`).
* `SceneInv`, `ClashInv`, `ShutInv`: what the scene may hold under a name, and what is left of a
  component that is closed.

`JawInv` says of a jaw and its arm that both use the wrapper of the one that came last
and that the passive drives are free or about to be. It needs `OneJawEach`, that no
two jaws are on one arm: a jaw's asset is referenced at `<arm prim>/Gripper`
(`sim_manager.py:2042`, `2070`), which an arm has once. Nothing
refuses a configuration with two, and TLC finds `SettingsSurviveResets` and
`HandlesAgree` violated for it.

### Arm (`ArmProofs`)

For any moves, paths, tolerances, windows, bounds, and any number of drops,
stops, resets and closes:

| theorem | property |
|---|---|
| `EndedMovesStayGone` | `EndedMovesLeaveNothing` |
| `ReportsStayEarned` | `ReportsAreEarned` |
| `ArmStaysInStep` | `ArmInv`, on which they rest |

A move is a coroutine, the thread it awaits, tasks of the sim thread and a callback, each
of which can outlive another. `TasksFit` says that a thread has one task at
most and stands where it waits for it; `StageInv`, how far coroutine and thread can
be apart; `PlaceInv`, which waypoint the thread works on. The others speak of what
is reported: `AnswerInv` and `ArriveInv` follow *reached* from the step that saw
the joint at the waypoint to the reply, for a move that was left alone;
`CountInv` ties the count that the coroutine keeps between two waits to the
stalls there were; `JudgedInv` ties the tracker's counters to the steps since the
waypoint was begun. Most actions are about one move. `KeptMove` says what of another
move's state has to stay, or may go (a callback, a wait), for its part of the invariant to hold.

`ArmAssumption` asks for `StillSteps <= ProgressSteps + 1`: without it a wait would be
judged blocked before it has seen `StillSteps` steps. The code has 30 and 120
(`handles/arm.py:74`, `90`). That a densified path is a sequence at all needs an
induction, because `Densify` flattens with a recursive function: `SetInduction`
states the induction over a set of numbers.

### WorldCell (`WorldCellProofs`)

For any blocks, places, sizes, calls and faults:

| theorem | property |
|---|---|
| `AnswersStayTheCell` | `AnswersAreTheCell` |

A call places its props one task after another, so nothing in its own state says that those
it moved first still stand when it answers. `WorldInv` follows each call from its
draw to its answer:

* `LockInv`: a scatter that is not dropped holds the lock from its draw to its answer. Of two
  scatters that are under way one was therefore dropped, and a task of it, as of a verb
  that the lock leaves out, ends that the other is `alone` (`OwnTask`, `NoneElse`).
* `PlanInv`, `TaskInv`: a plan has a free spot for each block it draws, and the task in the
  queue is the next of what its call still has to move.
* `CellInv`: for a call that was left alone, what it has moved stands where it is to stand, every
  other prop is out of the region, and the sizes on the stage are those it drew.

From `CellInv` no two props are in one place (`Apart`), so neither a spawn nor the
physics pushes away what was put. `WorldCellAssumption` asks of sizes that they
are above zero; zero is the size of a prop that is not there. Of a call that was
disturbed the theorem says nothing.

### Jaw (`GripperProofs`)

For every travel of the jaw, tolerance, progress threshold, window and set
of callers with `Eps <= Tol` and `Eps < Travel` (a free jaw makes progress in a
step; with the code's numbers it does):

| theorem | property |
|---|---|
| `HoldsAreKeptAlways` | `HoldsAreKept` |
| `GrabsStayWatched` | `GrabsAreWatched` |
| `AnswersStayEarned` | `AnswersAreEarned` |
| `JawTypeCorrect` | `JawTypeOK` |

The invariant `JawInv` adds to the types `PlaceInv` (where the jaw can be
relative to what blocks it), `GapInv` (while nothing has touched
or disturbed the jaw, the window has counted no more than the questions since the last
step, and the best gap is one the next step will undercut) and `OwnerInv`
(whose command is in force). `FreeJawIsMoving` draws from it that an untouched
jaw is never found to stall, which is the heart of `AnswersStayEarned`.

### Conductor (`ConductorProofs`)

For any number of starts, loops and records, any window of the log and any
bound on the errors in a row, and for starts that overlap in any way. What the properties
except is a run that was accepted beside another (`overlap`), where they do fail:
the flag and the rollup are then shared.

| theorem | property |
|---|---|
| `StatusStaysTrue` | `StatusIsTrue` |
| `NothingAfterStop` | `NoWorkAfterStop` |
| `OneJobAtATime` | `ImplementsSortJob` |

The invariant `CondInv` has `BaseInv` and the window of the log in every state, and while
there is no overlap also, beside the types and `StatusIsTrue`:

* `SoloInv`: a run at work is the last one accepted, and `state` says so; the cancel
  flag belongs to that run; nobody has been let through beside it. The code has no such
  bookkeeping: a run does not know its start, and the flag is one for all.
* `RunInv`: the rollup and `loopIndex` of the run at work count the same loops
  (`Counted`), and its errors in a row end the log (`Streak`). "complete" and
  "failed" are read off these when the run ends.

`RecordFacts` says what `_record_loop` leaves of a log that may drop its oldest
record, `RecordExtendsErrors` draws from it that a streak grows by one.

### SorterSensor (`ConductorProofs`)

For any pollers and any number of overlapping readings, whatever starts do:

| theorem | property |
|---|---|
| `CapturesStayComplete` | `CapturesAreComplete` |

A reply may be old when it is read, and an older one may be read after a newer. `SensorInv`
says of each reply under way (`Answer`) that it is a piece of consecutive records, none newer
than the log's last, that it does not begin after the log does, and that it agrees
with the log where both have a record. So what is newer than the mark is an end
of the reply (`KeptEnd`), and what it leaves out had been dropped from the window.

### SortLoop and Pick (`PickProofs`)

From `LoopAssumption`, that is for any blocks, colours, passes and attempts, any
detectors, and at least as many slots per colour as blocks of it:

| theorem | property |
|---|---|
| `SlotsAlwaysSuffice` | `SlotsSuffice` |
| `JawStaysAccountedFor` | `JawIsAccountedFor` |
| `HandledStaysFinal` | `HandledIsFinal` |
| `IgnoreAlwaysFits` | `IgnoreFitsTheMotion` |
| `SeenBlocksStayReported` | `SeenBlocksAreReported` |

`LoopInv`, `SlotInv` and `PadInv` are invariants of `SortLoop`, and the lemma `PickIsALoop`
(`PickSpec => Spec`: retried moves and ignored props are steps of the loop or none) carries
them to `Pick`. `LoopInv`: the work list holds a block once, and none that is
dealt with or in the jaw; what is in the jaw is carried, or left there by an attempt
that is booked as failed, until the next `open()`. `SlotInv`: the slots that were
drawn are free, once each, or have exactly one owner, a block that is
placed or under way. `SlotsAreEnough` is then a matter of counting: a colour
without a free slot has placed as many blocks as it has slots, and the one at hand would be
a block too many. `PadInv` says of each block on a pad that it is under way or placed, on its
own slot, or that its attempt failed: from it and `SlotInv`, no second block comes to a slot
but after such a failure. `StepInv` ties the await of a pick to the point of the loop.
`SeenInv` follows a block from the census that saw it: it has an outcome, is on the
work list or in the jaw, or went by the name of one that is; and the work list is
empty when a pass ends that was not cancelled.

### Palletizer (`PalletizerProofs`)

For any number of boxes, of attempts per box and of teleports:

| theorem | property |
|---|---|
| `ToldStaysTrue` | `ToldIsKept` |
| `StopEndsMotion` | `NoMotionAfterStop` |
| `RunsStayOrderly` | `RunsAreOrderly`, from the next two and `AttemptsInv` |
| `EveryRunStartsFit` | `RunsStartFit` |
| `BoundedRunsEnd` | `BoundedRunEnds` |

`PackInv` rests on the cursor of the sequencer, which the palletizer never reads
back. From its question to its report a run is at the seq of the cursor, and all
that was told is below it (`SeqInv`), so no restage and no pick reaches a box
that was told, although the run keeps no list of them. `InfeedInv` carries what
box 1 has shown from its first read to the runs that follow; `BoundInv` says that
nothing goes on past the record at the bound. The awaits of one attempt, over a
dozen, have one form (`Working`, `WorkIsOrdered`), and one lemma for all of them.

The third part of `RunsAreOrderly` is `SkippedAfterItsOwnFailures`. The run counts
failures in a local variable that it resets when the sequencer names another seq.
`AttemptsInv` says that this count is that of the failed records of the seq
(`CountInv`; one more between a record and the return of its report), and where
the seq that is tracked stands relative to the cursor (`TrackInv`), which is why no
attempt at a later seq is counted in.

### Vacuum (`GripperProofs`)

For any boxes, loads, limit, length of the window and number of calls:

| theorem | property |
|---|---|
| `HoldsAreAccountedFor` | `HoldIsAccountedFor` |
| `ReleasesAreOwn` | `ReleasedForItsOwnLoad` |

`VacuumInv` has `TaskInv` (the client has one task at most and waits for it, so
what it wrote before the task still stands when the task runs), `OpenInv` and
`RestInv` (what survives a reset, a late catch or a box that is changed under
the cups), and `WindowInv`: the window is the end of the record of this hold, or, when
this hold inherited a window, the record is the end of the window. As both
are pushed alike, a full window and a full record are the same (`PushKeepsEnd`), so the
exception of `ReleasedForItsOwnLoad` ends when the hold's own loads fill the window.

### Only model-checked

All liveness, which the prover cannot do. Every invariant and action property that a run
checks is proved.
`TypeOK` and `JawTypeOK` are proved and no run lists them; the runs would find every
violation of them as an error in an action or a property.

## Where the source and its documentation part

Each of these was met while modelling. Where a definition is named, it is in the module,
beside the text it quotes. `SecondStartIsNoOp` and `FreeSlotsAreFree` have runs of
their own; of the others TLC finds a violation when they are added to the run's `.cfg`.

| definition | run | what the text says, and what the code does |
|---|---|---|
| `FailedBootIsReported` | `SimManager` | `sim_manager.py:622`: a world that is configured again after a failed boot is told. It is told nothing: the check comes after the one for `_booted`, which is set as well |
| `SecondStartIsNoOp` | `SecondStart` | `docs/BLOCK_SORTING.md:361`: a second start is a no-op. Two starts that overlap in the probe of the arm both create a run (`models/conductor.py:583`) |
| `FreeSlotsAreFree` | `FreeSlots` | `sort_plan.py:84`: what is handed back is the slot of an attempt that never placed. An exception after the release hands back the slot the block stands on (`models/conductor.py:1165`), and the next attempt draws it |
| `PadsAreCounted` | `Pick` | `models/conductor.py:822`: the keep-out of a carry is as high as the tallest block on the pads. A block whose attempt failed after its release stands there uncounted |
| `NoBlockIsShadowed` | `Pick` | `models/conductor.py:1033`: an item that is dropped is a phantom or a duplicate. It may be another block that has the same name at another look |
| `OneBoxOnStation` | `Palletizer` | `models/palletizer.py:1231`: the box of a skipped seq stays on the station, and the next box is sent into it |
| `StopHolds` | `Arm` | `docs/SIMULATION.md:113-114`: an operator can always stop a machine. A stop ends the wait of a move as *reached* (`handles/arm.py:851-859`), and a trajectory goes on to its next waypoint; one that comes before the task that starts a followed path is overtaken by it |
| `DroppedMoveHolds` | `Arm` | `models/arm.py:261-262`: a dropped move holds the arm where it is. One that is dropped in the await that commands its target is not, and the worker thread of a handle method is never dropped |
| `HoldsAreFelt` | `Grippers` | `handles/gripper.py:23`: still *steps*. Questions are counted; enough of them within one step make a hold of nothing |
| `DroppedWaitHolds` | `Grippers` | `models/gripper.py:128-130`: a wait that is dropped holds the jaw. Another call's command may come between, or the command itself after the hold |
| `HoldsFillTheirWindow` | `Grippers` | `surface_gripper.py:184-186`: the mean is 0 until the window has filled, so a hold cannot be released on its first samples. The hold that a world reset brings about finds the window of the one before it (`handles/vacuum.py:490-501`) and may be released on its first |
| `StopAlwaysWorks` | `Grippers` | `docs/SIMULATION.md:113-114`, `docs/ARCHITECTURE.md:96`: a stop works while the sim initialises. The one of the vacuum gripper is an operational call and is refused |
| `NotAStalePrim` | `Registry`, with `Poses = {p1, p2}` | `README.md:846-851`: other spawn attributes are rejected, so that no component runs on a stale prim. One that is closed and built again is attached to the prim as it was spawned |
| `ScattersAreSerialized` | `WorldCell` | `models/world.py:57-60`: scatters run one after the other. The lock of a dropped call is free while its worker goes on |

Without a definition, because they are about what a module leaves out or
about two components of which it has one:

* `errors.py:73` says a timed-out callable never executes later. One that has
  started runs on (`sim_manager.py:820`); `NoLateStart` is what does hold.
* `sim_manager.py:690` says callers fail fast once `main_loop` has ended. A
  caller that is already waiting waits out its timeout.
* `main.py:93` lets each resource's `close()` run before the process exits. A
  `close()` that needs the sim thread is not executed, as the handler holds it.
* `models/scene_finalizer.py:59` puts all scenery before the signal. With a
  finalizer that is built twice, the first thread to end gives the signal.
* `workcell_client.py:185` says a component that answers badly is skipped.
  Visuals that cannot be parsed end the whole gather (line 240).
* `docs/BLOCK_SORTING.md:366` lands a stop in `idle` with `remaining`
  preserved. A stop that meets an exception lands in `failed`, and one during a
  census sees `remaining` replaced.
* `run_log.py:96` calls record ids monotonic for the module's lifetime. A
  conductor that is rebuilt numbers from 1, and a sensor that stayed drops its
  records.
* `models/palletizer.py:1206` starts every run with an empty cup, because a held
  box cannot be restaged. Within a run the cup may take hold after `grab()` has
  said no, and the next attempt restages a held box. The next seq then even
  carries the earlier box and reports it as its own.
* `src/pickcell/pipeline.py:549-560`: the free fallback of the retreat is planned
  with the target still ignored, so the planner does not see the block that
  was just released, which the text at 471-478 keeps the motion clear of. The
  obstacles themselves are read before the jaw opens, which may drop another block.

## What is not modelled, and what is left

Not modelled for good: floating-point geometry and kinematics, USD authoring,
images and materials, configuration validation and asset lookup (no state, no
ordering), logging, and the checklist scripts under `examples/` and `tools/`,
which drive a running module from outside. These are two thirds of the source,
so a share of the lines far above the present one is not within reach of
a state machine.

Left out of a component that is modelled:

* pipeline: the ladder of scans, randomizing and the probes that only the
  checklist scripts configure; measurements and obstacle boxes.
* palletizer: `reconfigure` during a run; the obstacle relay and the settling
  windows of `stack_stability.py` it waits for.
* world: the verbs that only read, `add_usd`, and `set_prop_physics`, whose two
  tasks may have another verb between them (`handles/world.py:572-588`).
* base: its motions set velocities and sleep. The await that starts one comes
  before the `try` (so a dropped RPC leaves it driving), and the `finally` of
  one move stops another.
* camera: a read is one operational call of `SimManager`.
* jaw: mock handles, and the reset of the world against its stall window, of
  which only "something disturbed it" is kept.

Hazards met and covered by no property: the executor has eight workers, which
calls that wait out a timeout may use up (`main.py:42`); the last park after
a run's flag is cleared, which a new start may overtake
(`models/conductor.py:790`); a stop among the awaits of a census
(`models/conductor.py:854`); tasks that are left in the queue when `main_loop` ends,
whose callers wait out their timeout (`sim_manager.py:720`); the vacuum's reset
hook taking hold again of what the reset moved away.

Worth doing next: a module for the base, and one for the settling windows.
