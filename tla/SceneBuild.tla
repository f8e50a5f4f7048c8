----------------------------- MODULE SceneBuild -----------------------------
(***************************************************************************)
(* The scene-finalizer (src/isaac_module/models/scene_finalizer.py) and    *)
(* the gathering of workcell scenery (workcell_client.py), composed with   *)
(* SimManager.                                                             *)
(*                                                                         *)
(* reconfigure starts a thread that materialises the frame system's        *)
(* colliders, asks every generic dependency for its scenery, materialises  *)
(* what was gathered, and finalizes the scene whatever went wrong.  Each   *)
(* materialise_* is one run() on the sim thread.  A finalizer that         *)
(* viam-server rebuilds is a second thread beside the first.               *)
(***************************************************************************)
EXTENDS SimManager

CONSTANTS
    Finalizers,     \* the builds of the scene-finalizer
    Sources,        \* the generic dependencies that may be workcell components
    FrameCall,      \* the run() of a finalizer's materialise_frame_system
    SceneryCall     \* the run() of a finalizer's materialise_components

ASSUME SceneAssumption ==
    /\ FrameCall \in [Finalizers -> Calls]
    /\ SceneryCall \in [Finalizers -> Calls]
    /\ \A f, g \in Finalizers :
         /\ FrameCall[f] # SceneryCall[g]
         /\ f # g => FrameCall[f] # FrameCall[g] /\ SceneryCall[f] # SceneryCall[g]

VARIABLES
    finPc,      \* where each finalizer's thread is
    toProbe,    \* the dependencies a finalizer has not probed yet
    gathered,   \* the scenery a finalizer gathered, by dependency
    spawned     \* the dependencies whose scenery is in the stage

sceneVars == <<finPc, toProbe, gathered, spawned>>

SceneCalls == {FrameCall[f] : f \in Finalizers} \cup {SceneryCall[f] : f \in Finalizers}
Finalizer(c) == CHOOSE f \in Finalizers : c \in {FrameCall[f], SceneryCall[f]}

SceneInit ==
    /\ Init
    /\ finPc = [f \in Finalizers |-> "new"]
    /\ toProbe = [f \in Finalizers |-> Sources]
    /\ gathered = [f \in Finalizers |-> {}]
    /\ spawned = {}

Move(f, p) == finPc' = [finPc EXCEPT ![f] = p]

\* The except branch of materialise(): logged, and on to the finally.
GiveUp(f) == Move(f, "finalize")

-----------------------------------------------------------------------------
\* reconfigure starts the thread; the finalizer depends on the world.
StartMaterialise(f) ==
    /\ finPc[f] = "new"
    /\ worldPc = "built"
    /\ Move(f, "frame")
    /\ UNCHANGED <<vars, toProbe, gathered, spawned>>

\* frame_system_colliders() answers with colliders, or with none: no client
\* yet, a call that failed or timed out, or no part that declares a box.
ReadFrameSystem(f) ==
    /\ finPc[f] = "frame"
    /\ Move(f, "frame_call") \/ Move(f, "gather")
    /\ UNCHANGED <<vars, toProbe, gathered, spawned>>

\* The materialise_* call in flight: run() on the finalizer's own thread.
InCall(f, c) ==
    \/ c = FrameCall[f]   /\ finPc[f] = "frame_call"
    \/ c = SceneryCall[f] /\ finPc[f] = "scenery_call"

Materialise(f) ==
    /\ \E c \in SceneCalls :
         /\ InCall(f, c)
         /\ RunChecksStopped(c) \/ Run(c)
         /\ pc[c] = "idle" => kind'[c] = "ungated"
    /\ UNCHANGED sceneVars

FrameSystemDone(f) ==
    /\ finPc[f] = "frame_call"
    /\ pc[FrameCall[f]] \in Outcomes
    /\ IF pc[FrameCall[f]] = "returned"
         THEN Move(f, "gather")
         ELSE GiveUp(f)
    /\ UNCHANGED <<vars, toProbe, gathered, spawned>>

\* One probe of gather_workcell_scenery: the dependency answers with scenery,
\* or it is skipped - it is not workcell scenery, it raises while it is asked,
\* or PROBE_TIMEOUT_S passes.
Probe(f) ==
    /\ finPc[f] = "gather"
    /\ \E s \in toProbe[f] :
         /\ toProbe' = [toProbe EXCEPT ![f] = @ \ {s}]
         /\ gathered' = [gathered EXCEPT ![f] = @ \cup {s}] \/ UNCHANGED gathered
    /\ UNCHANGED <<vars, finPc, spawned>>

\* group_anchor() parses the visuals after the last except of
\* gather_component_scenery: a value it cannot parse raises through the whole
\* gather.
ProbeBadReply(f) ==
    /\ finPc[f] = "gather"
    /\ toProbe[f] # {}
    /\ GiveUp(f)
    /\ UNCHANGED <<vars, toProbe, gathered, spawned>>

\* GATHER_TIMEOUT_S passes: what was gathered so far is lost.
GatherExpires(f) ==
    /\ finPc[f] = "gather"
    /\ GiveUp(f)
    /\ UNCHANGED <<vars, toProbe, gathered, spawned>>

\* Seeded fault: the scene is finalized first and its scenery materialised next.
GatheredFinalizesFirst(f) ==
    /\ finPc[f] = "gather"
    /\ toProbe[f] = {}
    /\ FinalizeScene
    /\ Move(f, "scenery_call")
    /\ UNCHANGED <<toProbe, gathered, spawned>>

Gathered(f) ==
    /\ finPc[f] = "gather"
    /\ toProbe[f] = {}
    /\ Move(f, "scenery_call")
    /\ UNCHANGED <<vars, toProbe, gathered, spawned>>

\* Seeded fault: a scenery call that fails ends the thread without finalizing.
SceneryDies(f) ==
    /\ finPc[f] = "scenery_call"
    /\ pc[SceneryCall[f]] = "returned"
    /\ Move(f, "finalize")
    /\ UNCHANGED <<vars, toProbe, gathered, spawned>>

SceneryDone(f) ==
    /\ finPc[f] = "scenery_call"
    /\ pc[SceneryCall[f]] \in Outcomes
    /\ Move(f, "finalize")
    /\ UNCHANGED <<vars, toProbe, gathered, spawned>>

\* The finally of materialise().
Finalize(f) ==
    /\ finPc[f] = "finalize"
    /\ FinalizeScene
    /\ Move(f, "done")
    /\ UNCHANGED <<toProbe, gathered, spawned>>

FinalizerThread(f) ==
    \/ ReadFrameSystem(f) \/ Materialise(f) \/ FrameSystemDone(f)
    \/ Probe(f) \/ ProbeBadReply(f) \/ GatherExpires(f) \/ Gathered(f)
    \/ SceneryDone(f) \/ Finalize(f)

-----------------------------------------------------------------------------
\* _materialise_on_sim_thread spawns one component after the other; the first
\* spawn that raises leaves the rest out and fails the task.
SceneTaskEnds ==
    /\ ExecEnds
    /\ IF \E f \in Finalizers : current = SceneryCall[f]
         THEN LET g == gathered[Finalizer(current)] IN
              IF fut'[current] = "finished"
                THEN spawned' = spawned \cup g
                ELSE \E part \in SUBSET g \ {g} : spawned' = spawned \cup part
         ELSE UNCHANGED spawned
    /\ UNCHANGED <<finPc, toProbe, gathered>>

SceneSim ==
    \/ SceneTaskEnds
    \/ SimThread /\ simPc # "exec" /\ UNCHANGED sceneVars

SceneEnvironment ==
    /\ \/ EnsureBootedChecks \/ EnsureBooted \/ RequestStop \/ AppDies
       \/ \E c \in Calls \ SceneCalls : RunChecksStopped(c) \/ Run(c) \/ RunInline(c)
    /\ UNCHANGED sceneVars

SceneTerminated == simPc = "stopped" /\ UNCHANGED <<vars, sceneVars>>

SceneNext ==
    \/ SceneSim
    \/ \E f \in Finalizers : StartMaterialise(f) \/ FinalizerThread(f)
    \/ SceneEnvironment
    \/ SceneTerminated

SceneSpec == SceneInit /\ [][SceneNext]_<<vars, sceneVars>>

\* Threads run and timeouts expire; a probe may never answer.
SceneFairSpec ==
    /\ SceneSpec
    /\ WF_<<vars, sceneVars>>(SceneSim)
    /\ \A f \in Finalizers : WF_<<vars, sceneVars>>(FinalizerThread(f))

-----------------------------------------------------------------------------
\* The scene is complete before the world steps: no step is taken while a
\* materialise task of a finalizer is queued or could still be queued, even
\* when that finalizer was told its call timed out; and the scenery of a
\* finalizer whose call returned is all in the stage.
SceneryPrecedesSteps == steps > 0 =>
    \A f \in Finalizers :
        /\ pc[SceneryCall[f]] = "returned" => gathered[f] \subseteq spawned
        /\ finPc[f] # "scenery_call"
        /\ fut[FrameCall[f]] \notin {"pending", "running"}
        /\ fut[SceneryCall[f]] \notin {"pending", "running"}

\* Nothing a dependency or the sim thread does strands the world behind the
\* gate: once a finalizer is built, the scene is finalized.
FinalizerFinalizes == \A f \in Finalizers :
    []<>(finPc[f] = "new" \/ (finPc[f] = "done" /\ finalized))
=============================================================================
