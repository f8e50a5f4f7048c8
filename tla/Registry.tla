------------------------------ MODULE Registry ------------------------------
(***************************************************************************)
(* The component registry of SimManager: the factories that build a handle *)
(* on a prim, the handles by name, the hooks that put back what a reset of *)
(* the world undoes, and the release of a handle.                          *)
(*                                                                         *)
(* Components are built and closed by the event loop, one after the other. *)
(* Each factory runs a task on the sim thread and registers its handle     *)
(* after the answer, on the event loop again; a verb of the world resets   *)
(* the world from a thread of its own. A wait can time out: a task that    *)
(* has not started is then cancelled, one that has goes on unobserved.     *)
(*                                                                         *)
(* A handle is the number of the build that made it, and so is the Isaac   *)
(* wrapper of an articulation; 0 is none.                                  *)
(***************************************************************************)
EXTENDS Integers, Sequences, FiniteSets, Filter

CONSTANTS
    Arms, Jaws, Cups, Bases, Cameras,   \* the names of the components
    ArmOf,          \* the arm a gripper rides
    Homed,          \* the arms with home_joints_deg
    Poses,          \* the spawn attributes a component can be given
    NoPose,
    MaxBuilds,      \* how many builds there are
    MaxResets,      \* how often the reset verb is called
    MaxFaults       \* how many waits time out and how many tasks raise

Grippers == Jaws \cup Cups
Names    == Arms \cup Grippers \cup Bases \cup Cameras
Ids      == 1..MaxBuilds

ASSUME RegistryAssumption ==
    /\ Arms \cap (Jaws \cup Cups \cup Bases \cup Cameras) = {}
    /\ Jaws \cap (Cups \cup Bases \cup Cameras) = {}
    /\ Cups \cap (Bases \cup Cameras) = {} /\ Bases \cap Cameras = {}
    /\ ArmOf \in [Grippers -> Arms] /\ Homed \subseteq Arms
    /\ NoPose \notin Poses
    /\ {MaxBuilds, MaxResets, MaxFaults} \subseteq Nat

VARIABLES
    \* SimManager
    handles,        \* _handles
    hooks,          \* _post_reset_hooks: owners and handles, in order
    spawned,        \* _prim_spawned
    ready,
    \* the objects of the handles: the articulation wrapper, and of an arm
    \* its gains snapshot and whether it has targets to put back
    art, gains, targets,
    \* Isaac: the scene registry and the physics callbacks by name, where a
    \* prim stands, the rigs that are authored, and what a reset undoes
    scene, callbacks, prim, rigs, solver, drives, athome,
    \* the event loop's operation, and the sim thread's tasks
    loop, queue, running, firing,
    builds, resets, faults,
    config,         \* the attributes each component was last given
    \* history
    lapsed,         \* arms whose hook was missing when the world was reset
    shut,           \* components whose release ran and that were not built since
    torn,           \* components whose first build died in its world reset
    loose,          \* handles whose factory failed or whose release did not run
    clashed         \* components whose build added a name to the scene twice

manager == <<handles, hooks, spawned, ready>>
objects == <<art, gains, targets>>
isaac   == <<scene, callbacks, prim, rigs, solver, drives, athome>>
threads == <<loop, queue, running, firing>>
bounds  == <<builds, resets, faults>>
history == <<lapsed, shut, torn, loose, clashed>>
vars == <<manager, objects, isaac, threads, bounds, config, history>>

Idle    == [pc |-> "idle", name |-> NoPose, id |-> 0]
NoTask  == [kind |-> "none", name |-> NoPose, id |-> 0, arm |-> 0]
Task(kind, n, id, arm) == [kind |-> kind, name |-> n, id |-> id, arm |-> arm]

Init ==
    /\ handles = [n \in Names |-> 0] /\ hooks = <<>> /\ spawned = {} /\ ready = FALSE
    /\ art = [i \in Ids |-> 0]
    /\ gains = [i \in Ids |-> "none"] /\ targets = [i \in Ids |-> FALSE]
    /\ scene = [n \in Names |-> 0] /\ callbacks = [n \in Names |-> 0]
    /\ prim = [n \in Names |-> NoPose] /\ rigs = {}
    /\ solver = [a \in Arms |-> FALSE] /\ drives = [a \in Arms |-> "stiff"]
    /\ athome = [a \in Arms |-> FALSE]
    /\ loop = Idle /\ queue = <<>> /\ running = NoTask /\ firing = <<>>
    /\ builds = 0 /\ resets = 0 /\ faults = 0
    /\ config = [n \in Names |-> NoPose]
    /\ lapsed = {} /\ shut = {} /\ torn = {} /\ loose = {} /\ clashed = {}

Fault == faults < MaxFaults /\ faults' = faults + 1

-----------------------------------------------------------------------------
(***************************************************************************)
(* The event loop: reconfigure calls create_*, close calls release_handle. *)
(***************************************************************************)
\* _cached_handle: a live handle is returned as it is, whatever was changed.
Reconfigure(n, p) ==
    /\ loop = Idle /\ handles[n] # 0
    /\ config' = [config EXCEPT ![n] = p]
    /\ UNCHANGED <<manager, objects, isaac, threads, bounds, history>>

\* A gripper is refused without its arm's handle, which its task keeps.
Build(n, p) ==
    /\ loop = Idle /\ handles[n] = 0
    /\ n \in Grippers => handles[ArmOf[n]] # 0
    /\ builds < MaxBuilds /\ builds' = builds + 1
    /\ config' = [config EXCEPT ![n] = p]
    /\ loop' = [pc |-> "spawn", name |-> n, id |-> builds']
    /\ queue' = Append(queue, Task("build", n, builds',
                                   IF n \in Grippers THEN handles[ArmOf[n]] ELSE 0))
    /\ shut' = shut \ {n}
    /\ UNCHANGED <<manager, objects, isaac, running, firing, resets, faults, lapsed, torn, loose, clashed>>

\* The rest of an arm's factory: the home pose is a second task.
Home ==
    /\ loop.pc = "spawned" /\ loop.name \in Homed
    /\ loop' = [loop EXCEPT !.pc = "home"]
    /\ queue' = Append(queue, Task("home", loop.name, loop.id, 0))
    /\ UNCHANGED <<manager, objects, isaac, running, firing, bounds, config, history>>

HooksWith(n, id) == IF n \in Bases THEN hooks ELSE Append(hooks, [owner |-> n, id |-> id])

\* register_post_reset, and the handle is cached under its name.
Register ==
    /\ \/ loop.pc = "spawned" /\ loop.name \notin Homed
       \/ loop.pc = "homed"
    /\ hooks' = HooksWith(loop.name, loop.id)
    /\ handles' = [handles EXCEPT ![loop.name] = loop.id]
    /\ loop' = Idle
    /\ UNCHANGED <<spawned, ready, objects, isaac, queue, running, firing, bounds, config, history>>

\* The task raised: so does the factory, and nothing is registered.
Fails ==
    /\ loop.pc = "raised" /\ loop' = Idle
    /\ loose' = loose \cup {loop.id}
    /\ UNCHANGED <<manager, objects, isaac, queue, running, firing, bounds, config, lapsed, shut, torn,
                   clashed>>

HooksWithout(n) == Kept(hooks, {i \in DOMAIN hooks : hooks[i].owner # n})

\* A jaw has nothing to release; the others' task is refused by the gate until
\* the world is ready, and the refusal is logged.
Close(n) ==
    /\ loop = Idle /\ handles[n] # 0
    /\ handles' = [handles EXCEPT ![n] = 0]
    /\ hooks' = HooksWithout(n)
    /\ IF ready /\ n \notin Jaws
       THEN /\ loop' = [pc |-> "release", name |-> n, id |-> handles[n]]
            /\ queue' = Append(queue, Task("release", n, handles[n], 0))
       ELSE UNCHANGED <<loop, queue>>
    /\ loose' = IF ready THEN loose ELSE loose \cup {handles[n]}
    /\ UNCHANGED <<spawned, ready, objects, isaac, running, firing, bounds, config, lapsed, shut, torn,
                   clashed>>

\* SimManager.run gives up and cancels what has not started.
TimeOut ==
    /\ loop.pc \in {"spawn", "home", "release"} /\ Fault
    /\ queue' = Kept(queue, {i \in DOMAIN queue : queue[i].id # loop.id})
    /\ loop' = Idle
    /\ loose' = loose \cup {loop.id}
    /\ UNCHANGED <<manager, objects, isaac, running, firing, builds, resets, config, lapsed, shut, torn,
                   clashed>>

-----------------------------------------------------------------------------
(***************************************************************************)
(* The world component's reset verb, and the gate.                         *)
(***************************************************************************)
ResetVerb ==
    /\ ready /\ resets < MaxResets /\ resets' = resets + 1
    /\ queue' = Append(queue, Task("reset", NoPose, 0, 0))
    /\ UNCHANGED <<manager, objects, isaac, loop, running, firing, builds, faults, config, history>>

BecomeReady ==
    /\ ~ready /\ ready' = TRUE
    /\ UNCHANGED <<handles, hooks, spawned, objects, isaac, threads, bounds, config, history>>

-----------------------------------------------------------------------------
(***************************************************************************)
(* _reset_world.  Isaac puts the solver count, the gains and the pose of   *)
(* every articulation back to what is authored; then the hooks registered  *)
(* at that moment fire, one after the other.                               *)
(***************************************************************************)
Unhooked == {a \in Arms \cap spawned : \A i \in DOMAIN hooks : hooks[i].owner # a}

Undone ==
    /\ solver' = [a \in Arms |-> FALSE]
    /\ drives' = [a \in Arms |-> "stiff"]
    /\ athome' = [a \in Arms |-> FALSE]

ResetWorld ==
    /\ Undone
    /\ firing' = hooks
    /\ lapsed' = lapsed \cup Unhooked

\* world.reset() itself raises: no hook fires.
ResetRaises ==
    /\ Fault
    /\ Undone
    /\ lapsed' = lapsed \cup (Arms \cap spawned)

\* ArmHandle.post_reset; what the other hooks put back is in their modules.
FireHook ==
    /\ firing # <<>> /\ firing' = Tail(firing)
    /\ LET a == Head(firing).owner  id == Head(firing).id IN
       IF a \in Arms
       THEN /\ solver' = [solver EXCEPT ![a] = TRUE]
            /\ drives' = [drives EXCEPT ![a] = IF gains[id] = "none" THEN @ ELSE gains[id]]
            /\ athome' = [athome EXCEPT ![a] = @ \/ targets[id]]
       ELSE UNCHANGED <<solver, drives, athome>>
    /\ UNCHANGED <<manager, objects, scene, callbacks, prim, rigs, loop, queue, running, bounds,
                   config, history>>

-----------------------------------------------------------------------------
(***************************************************************************)
(* The sim thread.                                                         *)
(***************************************************************************)
\* What the waiting caller is told of task t; an operation that timed out
\* hears nothing.
Answer(t, pc) ==
    loop' = IF loop.pc \in {"spawn", "home", "release"} /\ loop.id = t.id
            THEN IF pc = "idle" THEN Idle ELSE [loop EXCEPT !.pc = pc]
            ELSE loop

Next1 == Head(queue)
Takes(kind) == running = NoTask /\ queue # <<>> /\ Next1.kind = kind /\ queue' = Tail(queue)
TakesBuild(names) == Takes("build") /\ Next1.name \in names

Reattaching(n) == n \in spawned

\* A first build of an arm or a base joins the scene, and resets the world.
SpawnFirst ==
    /\ TakesBuild(Arms \cup Bases) /\ ~Reattaching(Next1.name)
    /\ LET t == Next1  n == t.name IN
       IF scene[n] # 0
       THEN \* Scene.add refuses a name it has
            /\ clashed' = clashed \cup {n} /\ Answer(t, "raised")
            /\ UNCHANGED <<isaac, running, firing, faults, lapsed, torn>>
       ELSE /\ scene' = [scene EXCEPT ![n] = t.id]
            /\ prim' = [prim EXCEPT ![n] = config[n]]
            /\ \/ ResetWorld /\ running' = t
                  /\ UNCHANGED <<loop, faults, torn>>
               \/ ResetRaises /\ Answer(t, "raised") /\ torn' = torn \cup {n}
                  /\ UNCHANGED <<running, firing>>
            /\ UNCHANGED <<callbacks, rigs, clashed>>
    /\ UNCHANGED <<manager, objects, builds, resets, config, shut, loose>>

\* Articulation wrapped, gains snapshotted, solver count set; a base drives on
\* every physics step.  Adding a callback under a name that is taken may keep
\* the old one.
Handle(t) ==
    LET n == t.name  id == t.id IN
    IF n \in Arms
    THEN /\ art' = [art EXCEPT ![id] = id]
         /\ gains' = [gains EXCEPT ![id] = drives[n]]
         /\ solver' = [solver EXCEPT ![n] = TRUE]
         /\ UNCHANGED <<targets, callbacks, drives>>
    ELSE /\ callbacks' \in {[callbacks EXCEPT ![n] = i] :
                               i \in IF callbacks[n] = 0 THEN {id} ELSE {id, callbacks[n]}}
         /\ UNCHANGED <<objects, solver, drives>>

\* Seeded fault: the prim is marked as spawned only after its wrapper.
WrapsThenMarks(t) ==
    \/ Handle(t) /\ Answer(t, "spawned") /\ spawned' = spawned \cup {t.name} /\ UNCHANGED faults
    \/ Fault /\ Answer(t, "raised") /\ UNCHANGED <<spawned, objects, solver, callbacks, drives>>

\* The factory goes through, or raises once the prim is marked as spawned.
Wraps(t) ==
    /\ spawned' = spawned \cup {t.name}
    /\ \/ Handle(t) /\ Answer(t, "spawned") /\ UNCHANGED faults
       \/ Fault /\ Answer(t, "raised") /\ UNCHANGED <<objects, solver, callbacks, drives>>

Reattach ==
    /\ TakesBuild(Arms \cup Bases) /\ Reattaching(Next1.name)
    /\ Wraps(Next1)
    /\ UNCHANGED <<handles, hooks, ready, scene, prim, rigs, athome, running, firing, builds, resets,
                   config, history>>

SpawnEnds ==
    /\ running.kind = "build" /\ running.name \in Arms \cup Bases /\ firing = <<>>
    /\ running' = NoTask
    /\ Wraps(running)
    /\ UNCHANGED <<handles, hooks, ready, scene, prim, rigs, athome, queue, firing, builds, resets,
                   config, history>>

\* Seeded fault: a jaw leaves the arm its old wrapper.
KeepsWrapper(t) == UNCHANGED art

\* replace_articulation.
Replaced(t) == art' = [art EXCEPT ![t.arm] = t.id]

\* A jaw joins the arm's articulation, which gets a fresh wrapper in the scene
\* and no gains snapshot, on every build; nothing has changed if the asset is
\* refused.
JawJoins ==
    /\ TakesBuild(Jaws)
    /\ LET t == Next1  a == ArmOf[t.name] IN
       \/ /\ scene' = [scene EXCEPT ![a] = t.id]
          /\ prim' = [prim EXCEPT ![t.name] = config[t.name]]
          /\ Replaced(t)
          /\ gains' = [gains EXCEPT ![t.arm] = "none"]
          /\ \/ ResetWorld /\ running' = t /\ UNCHANGED <<loop, faults>>
             \/ ResetRaises /\ Answer(t, "raised") /\ UNCHANGED <<running, firing>>
          /\ UNCHANGED <<targets, callbacks, rigs>>
       \/ /\ Fault /\ Answer(t, "raised")
          /\ UNCHANGED <<objects, isaac, running, firing, lapsed>>
    /\ UNCHANGED <<manager, builds, resets, config, shut, torn, loose, clashed>>

\* Seeded fault: a jaw leaves the arm the snapshot of before.
GainsKept(t) == UNCHANGED gains

\* refresh_dofs retakes the snapshot; the jaw's handle then releases the
\* passive drives, and the snapshot is taken once more.
GainsRetaken(t) == gains' = [gains EXCEPT ![t.arm] = "free"]
DrivesReleased(a) == drives' = [drives EXCEPT ![a] = "free"]

JawEnds ==
    /\ running.kind = "build" /\ running.name \in Jaws /\ firing = <<>>
    /\ running' = NoTask
    /\ LET t == running  a == ArmOf[t.name] IN
       \/ /\ art' = [art EXCEPT ![t.id] = art[t.arm]]
          /\ GainsRetaken(t)
          /\ solver' = [solver EXCEPT ![a] = TRUE]
          /\ DrivesReleased(a)
          /\ lapsed' = lapsed \ {a}
          /\ Answer(t, "spawned")
          /\ UNCHANGED faults
       \/ /\ Fault /\ Answer(t, "raised")
          /\ UNCHANGED <<art, gains, solver, drives, lapsed>>
    /\ UNCHANGED <<manager, targets, scene, callbacks, prim, rigs, athome, queue, firing, builds,
                   resets, config, shut, torn, loose, clashed>>

\* A cup's rig is authored once, and only then is the world reset; authoring
\* that raises part way leaves the scope that is taken for the rig.
CupRig ==
    /\ TakesBuild(Cups) /\ Next1.name \notin rigs
    /\ LET t == Next1 IN
       /\ rigs' = rigs \cup {t.name}
       /\ prim' = [prim EXCEPT ![t.name] = config[t.name]]
       /\ UNCHANGED <<scene, callbacks>>
       /\ \/ ResetWorld /\ running' = t /\ UNCHANGED <<loop, faults>>
          \/ ResetRaises /\ Answer(t, "raised") /\ UNCHANGED <<running, firing>>
          \/ /\ Fault /\ Answer(t, "raised")
             /\ UNCHANGED <<solver, drives, athome, running, firing, lapsed>>
    /\ UNCHANGED <<manager, objects, builds, resets, config, shut, torn, loose, clashed>>

\* The cup's handle replaces the monitor that is there.
CupEnds ==
    /\ \/ running.kind = "build" /\ running.name \in Cups /\ firing = <<>>
          /\ running' = NoTask /\ Answer(running, "spawned")
          /\ callbacks' = [callbacks EXCEPT ![running.name] = running.id]
          /\ UNCHANGED queue
       \/ TakesBuild(Cups) /\ Next1.name \in rigs
          /\ Answer(Next1, "spawned")
          /\ callbacks' = [callbacks EXCEPT ![Next1.name] = Next1.id]
          /\ UNCHANGED running
    /\ UNCHANGED <<manager, objects, scene, prim, rigs, solver, drives, athome, firing, bounds,
                   config, history>>

\* A camera is wrapped anew each time, or fails after its last attempt.
CameraBuilds ==
    /\ TakesBuild(Cameras)
    /\ prim' = [prim EXCEPT ![Next1.name] = config[Next1.name]]
    /\ \/ Answer(Next1, "spawned") /\ UNCHANGED faults
       \/ Answer(Next1, "raised") /\ Fault
    /\ UNCHANGED <<manager, objects, scene, callbacks, rigs, solver, drives, athome, running, firing,
                   builds, resets, config, history>>

\* ArmHandle.home: the joints are placed and become the targets.
HomeTask ==
    /\ Takes("home")
    /\ athome' = [athome EXCEPT ![Next1.name] = TRUE]
    /\ targets' = [targets EXCEPT ![Next1.id] = TRUE]
    /\ Answer(Next1, "homed")
    /\ UNCHANGED <<manager, art, gains, scene, callbacks, prim, rigs, solver, drives, running, firing,
                   bounds, config, history>>

\* handle.release(): the callback and the scene entry go by name, the prim stays.
Releases(n) ==
    /\ callbacks' = [callbacks EXCEPT ![n] = 0]
    /\ scene' = [scene EXCEPT ![n] = 0]

ReleaseTask ==
    /\ Takes("release")
    /\ Releases(Next1.name)
    /\ shut' = shut \cup {Next1.name}
    /\ Answer(Next1, "idle")
    /\ UNCHANGED <<manager, objects, prim, rigs, solver, drives, athome, running, firing, bounds,
                   config, lapsed, torn, loose, clashed>>

ResetTask ==
    /\ Takes("reset")
    /\ ResetWorld
    /\ running' = Next1
    /\ UNCHANGED <<manager, objects, scene, callbacks, prim, rigs, loop, bounds, config, shut, torn,
                   loose, clashed>>

ResetEnds ==
    /\ running.kind = "reset" /\ firing = <<>>
    /\ running' = NoTask
    /\ UNCHANGED <<manager, objects, isaac, loop, queue, firing, bounds, config, history>>

SimThread ==
    \/ FireHook \/ SpawnFirst \/ Reattach \/ SpawnEnds \/ JawJoins \/ JawEnds
    \/ CupRig \/ CupEnds \/ CameraBuilds \/ HomeTask \/ ReleaseTask \/ ResetTask \/ ResetEnds

Next ==
    \/ \E n \in Names, p \in Poses : Reconfigure(n, p) \/ Build(n, p)
    \/ \E n \in Names : Close(n)
    \/ Home \/ Register \/ Fails \/ TimeOut \/ ResetVerb \/ BecomeReady
    \/ SimThread

Spec == Init /\ [][Next]_vars

-----------------------------------------------------------------------------
(***************************************************************************)
(* Properties.                                                             *)
(***************************************************************************)
Live(n) == handles[n] # 0
Calm == running = NoTask
Hooked == Names \ Bases

\* A live component that has a hook has one, its own handle's, and nothing
\* else fires after a reset: not the handle of a closed component, nor one
\* whose factory raised or timed out.
HooksAreTheLiveHandles ==
    /\ \A n \in Hooked : Live(n) => \E i \in DOMAIN hooks : hooks[i].owner = n
    /\ \A i, j \in DOMAIN hooks : hooks[i].owner = hooks[j].owner => i = j
    /\ \A i \in DOMAIN hooks : hooks[i].id = handles[hooks[i].owner]

\* What a reset undoes is back once the sim thread is done with it (the arm's
\* solver count, its home pose, and the jaw's passive drives, which only the
\* arm's gains snapshot restores), however components were rebuilt in between.
\* The one gap is a reset that falls while the arm has no hook: between its
\* close and its build, or before its factory has registered it.
SettingsSurviveResets ==
    \A a \in Arms : Live(a) /\ Calm /\ a \notin lapsed =>
        /\ solver[a]
        /\ a \in Homed => athome[a]
        /\ \A j \in Jaws : Live(j) /\ ArmOf[j] = a => drives[a] = "free"

\* The wrapper the scene initializes and resets under the name of a live arm
\* is the one its handle drives, and the jaw's too if it was built since; the
\* scene keeps the wrapper of a dead handle only if its factory failed or the
\* gate or a timeout kept its release from running.
SceneHoldsTheDrivenWrapper ==
    \A a \in Arms : Live(a) /\ Calm =>
        /\ scene[a] \in {0, art[handles[a]]} \cup loose \cup {art[i] : i \in loose}
        /\ \A j \in Jaws : Live(j) /\ ArmOf[j] = a /\ handles[a] < handles[j] =>
              art[handles[j]] = art[handles[a]]

\* The registry, the hooks and the scene mean the same handle by a name.
HandlesAgree == HooksAreTheLiveHandles /\ SceneHoldsTheDrivenWrapper

\* A build never adds a name the scene has, however often the component was
\* closed, timed out or failed before, unless a world reset raised in its
\* first build: that one is not known as spawned, and no retry succeeds.
OnlyTornBuildsClash == clashed \subseteq torn

\* Once its release ran, nothing of a component is left until it is built
\* again: no callback steps its dead handle, and its name is free in the scene.
ClosedLeavesNothing ==
    \A n \in shut : callbacks[n] = 0 /\ scene[n] = 0

\* A component that was closed, failed or timed out can be built again.
RebuildsFindTheirNames == OnlyTornBuildsClash /\ ClosedLeavesNothing

\* README: a component is not left running a prim with other attributes than
\* it was given.
NotAStalePrim == \A n \in Names : Live(n) => prim[n] = config[n]
=============================================================================
