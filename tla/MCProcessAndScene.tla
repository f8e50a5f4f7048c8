-------------------------- MODULE MCProcessAndScene --------------------------
(* Two sides of the module process that share the sim thread and nothing     *)
(* else: ModuleProcess with one close() and one worker's call, and SceneBuild *)
(* with one build of the scene-finalizer and one other call.                 *)
EXTENDS ModuleProcess, SceneBuild, TLC

CONSTANTS f1, frame1, scenery1, c2

OneFrameCall   == f1 :> frame1
OneSceneryCall == f1 :> scenery1

VARIABLE side

allVars == <<side, vars, procVars, sceneVars>>

SideInit == side \in {"process", "scene"} /\ ProcInit /\ SceneInit

\* Each side has calls of its own; c1 is close() on the one, any call on the other.
ProcessSide ==
    /\ side = "process" /\ UNCHANGED <<side, sceneVars>>
    /\ ProcNext
    /\ \A c \in SceneCalls : pc'[c] = "idle"

SceneSide ==
    /\ side = "scene" /\ UNCHANGED <<side, procVars>>
    /\ SceneNext
    /\ pc'[c2] = "idle"

\* The fairness of ProcFairSpec on one side, of SceneFairSpec on the other.
SideSpec ==
    /\ SideInit /\ [][ProcessSide \/ SceneSide]_allVars
    /\ WF_<<vars, procVars>>(side = "process" /\ MainThread)
    /\ WF_<<vars, procVars>>(side = "process" /\ JoinReturns)
    /\ WF_<<vars, sceneVars>>(side = "scene" /\ SceneSim)
    /\ \A f \in Finalizers : WF_<<vars, sceneVars>>(side = "scene" /\ FinalizerThread(f))
=============================================================================
