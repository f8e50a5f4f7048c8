-------------------------- MODULE SimManagerProofs --------------------------
(***************************************************************************)
(* Proofs about SimManager, for any set of calls, any warm-up count, any   *)
(* number of boot attempts, with and without mock and the scene gate.      *)
(*                                                                         *)
(* No safety property of SimManager is inductive by itself: whether a task *)
(* may start depends on its Future, on the queue holding it once, on what  *)
(* its caller still waits for, and on no component existing before the     *)
(* world was built.  IInv says all of that.                                *)
(*                                                                         *)
(* Then about the two compositions: the module's process, and the build of *)
(* the scene.                                                              *)
(***************************************************************************)
EXTENDS ModuleProcess, SceneBuild, TLAPS

\* The queue holds each call at most once, and only calls that have not run.
QueueInv ==
    /\ \A i \in 1..Len(tasks) : fut[tasks[i]] \in {"pending", "cancelled"}
    /\ \A i, j \in 1..Len(tasks) : tasks[i] = tasks[j] => i = j

\* A call's place in run(), its Future and its executions agree.
CallInv == \A c \in Calls :
    /\ pc[c] \in {"idle", "checked", "gated", "not_booted", "initializing"}
         => fut[c] = "none" /\ execs[c] = 0
    /\ pc[c] \in {"waiting", "expired"}
         => fut[c] \in {"pending", "running", "finished", "failed"}
    /\ pc[c] = "timeout"
         => fut[c] \in {"running", "finished", "failed", "cancelled"}
    /\ pc[c] \in {"returned", "raised"}
         => execs[c] = 1 /\ fut[c] \in {"none", "finished", "failed"}
    /\ fut[c] \in {"pending", "cancelled"} => execs[c] = 0
    /\ fut[c] \in {"running", "finished", "failed"} => execs[c] = 1

\* The sim thread runs the one task whose Future is running.
ExecInv ==
    /\ simPc = "exec" => current \in Calls
    /\ \A c \in Calls : fut[c] = "running" <=> simPc = "exec" /\ current = c

\* An operational call past the gate keeps the gate open behind it.
GateInv == \A c \in Calls :
    kind[c] = "op" /\ (pc[c] = "gated" \/ fut[c] \in {"pending", "running"})
        => ready

\* Nothing of the world exists before a boot was requested, and no component
\* calls before the world was built.
WorldInv ==
    /\ booted => bootRequested
    /\ simPc \in {"booting", "boot_failed", "loop", "gate_poll", "step", "closing"}
         => bootRequested
    /\ drainRet \in {"gate_poll", "step"} => bootRequested
    /\ worldPc = "built" => booted
    /\ worldPc # "built" => \A c \in Calls : pc[c] = "idle"

\* How far the scene and its warm-up have come.
SceneInv ==
    /\ ~ready => WaitForFinalizer /\ warmupSteps < Warmup /\ steps = warmupSteps
    /\ WaitForFinalizer =>
         /\ ~bootRequested => steps = 0 /\ warmupSteps = 0
         /\ worldPc # "built" =>
              /\ steps = 0 /\ warmupSteps = 0
              /\ drainRet # "step" /\ simPc # "step"
              /\ bootRequested => ~finalized /\ ~ready
         /\ drainRet = "step" \/ simPc = "step" \/ steps > 0 => finalized
         /\ bootRequested /\ ready => finalized /\ steps >= Warmup

IInv == TypeOK /\ QueueInv /\ CallInv /\ ExecInv /\ GateInv /\ WorldInv /\ SceneInv

-----------------------------------------------------------------------------
(***************************************************************************)
(* The induction: one lemma per conjunct of IInv, one step per action that *)
(* can disturb it; every other action leaves its variables alone.          *)
(***************************************************************************)
LEMMA InitIInv == Init => IInv
<1> SUFFICES ASSUME Init PROVE IInv
  OBVIOUS
<1>1. TypeOK
  <2>1. /\ pc \in [Calls -> CallPcs] /\ kind \in [Calls -> Kinds]
        /\ fut \in [Calls -> FutStates] /\ execs \in [Calls -> Nat]
    BY DEF Init, CallPcs, Kinds, FutStates
  <2>2. /\ steps \in 0..Warmup /\ warmupSteps \in 0..Warmup
        /\ attempts \in 0..MaxBootAttempts
    BY SimAssumption DEF Init
  <2>3. tasks \in Seq(Calls)
    BY DEF Init
  <2> QED
    BY <2>1, <2>2, <2>3 DEF Init, TypeOK, SimPcs, DrainRets, WorldPcs
<1>2. QueueInv /\ CallInv /\ ExecInv /\ GateInv
  BY SimAssumption DEF Init, QueueInv, CallInv, ExecInv, GateInv
<1>3. WorldInv /\ SceneInv
  BY SimAssumption DEF Init, WorldInv, SceneInv
<1> QED
  BY <1>1, <1>2, <1>3 DEF IInv

\* TypeOK is kept by every step.
LEMMA TypeStep == IInv /\ [Next]_vars => TypeOK'
<1> SUFFICES ASSUME TypeOK, CallInv, ExecInv, SceneInv, [Next]_vars PROVE TypeOK'
  BY DEF IInv
<1> USE DEF TypeOK, SimPcs, DrainRets, CallPcs, Outcomes, Kinds, FutStates,
       WorldPcs, simVars, eventVars, callVars, worldVars
<1>1. CASE AwaitBoot
  BY <1>1 DEF AwaitBoot, GoTo, DrainThen
<1>2. CASE BootSucceeds
  BY <1>2 DEF BootSucceeds, GoTo
<1>3. CASE BootFails
  BY <1>3 DEF BootFails, GoTo
<1>4. CASE BootFailureSignalled
  BY <1>4 DEF BootFailureSignalled, GoTo
<1>5. CASE LeaveLoop
  BY <1>5 DEF LeaveLoop, GoTo, LoopMayRun
<1>6. CASE TurnOfLoop
  BY <1>6 DEF TurnOfLoop, DrainThen, LoopMayRun
<1>7. CASE GatePoll
  BY <1>7 DEF GatePoll, GoTo
<1>8. CASE DrainEmpty
  BY <1>8 DEF DrainEmpty, GoTo
<1>9. CASE DrainCancelled
  BY <1>9 DEF DrainCancelled
<1>10. CASE DrainStart
  BY <1>10 DEF DrainStart
<1>11. CASE ExecEnds
  BY <1>11 DEF ExecEnds, ExecInv
<1>12. CASE StepEnds
  BY <1>12, SimAssumption DEF StepEnds, SceneInv
<1>13. CASE StepRaises
  BY <1>13 DEF StepRaises, GoTo
<1>14. CASE CloseApp
  BY <1>14 DEF CloseApp, GoTo
<1>15. CASE MainLoopReturns
  BY <1>15 DEF MainLoopReturns, GoTo
<1>16. ASSUME NEW c \in Calls, RunChecksStopped(c) PROVE TypeOK'
  BY <1>16 DEF RunChecksStopped
<1>17. ASSUME NEW c \in Calls, RunChecksReady(c) PROVE TypeOK'
  BY <1>17 DEF RunChecksReady
<1>18. ASSUME NEW c \in Calls, RunPuts(c) PROVE TypeOK'
  BY <1>18 DEF RunPuts
<1>19. ASSUME NEW c \in Calls, RunReturns(c) PROVE TypeOK'
  <2>1. CASE pc' = [pc EXCEPT ![c] = "returned"]
    BY <1>19, <2>1 DEF RunReturns
  <2>2. CASE pc' = [pc EXCEPT ![c] = "raised"]
    BY <1>19, <2>2 DEF RunReturns
  <2> QED
    BY <1>19, <2>1, <2>2 DEF RunReturns
<1>20. ASSUME NEW c \in Calls, RunExpires(c) PROVE TypeOK'
  BY <1>20 DEF RunExpires
<1>21. ASSUME NEW c \in Calls, RunCancels(c) PROVE TypeOK'
  BY <1>21 DEF RunCancels
<1>22. ASSUME NEW c \in Calls, RunInline(c) PROVE TypeOK'
  BY <1>22 DEF RunInline
<1>23. CASE EnsureBootedChecks
  BY <1>23, SimAssumption DEF EnsureBootedChecks
<1>24. CASE EnsureBootedArms
  BY <1>24, SimAssumption DEF EnsureBootedArms
<1>25. CASE EnsureBootedReturns
  BY <1>25 DEF EnsureBootedReturns
<1>26. CASE EnsureBootedExpires
  BY <1>26 DEF EnsureBootedExpires
<1>27. CASE FinalizeScene
  BY <1>27 DEF FinalizeScene
<1>28. CASE RequestStop
  BY <1>28 DEF RequestStop
<1>29. CASE AppDies
  <2>1. appRunning' \in BOOLEAN
    BY <1>29 DEF AppDies
  <2>2. UNCHANGED <<simVars, bootRequested, booted, finalized, ready, stop,
                    stopped, bootError, warmupSteps, callVars, worldVars>>
    BY <1>29 DEF AppDies
  <2> QED
    BY <2>1, <2>2
<1>30. CASE UNCHANGED vars
  BY <1>30 DEF vars
<1> QED
  BY <1>1, <1>2, <1>3, <1>4, <1>5, <1>6, <1>7, <1>8, <1>9, <1>10, <1>11, <1>12,
     <1>13, <1>14, <1>15, <1>16, <1>17, <1>18, <1>19, <1>20, <1>21, <1>22,
     <1>23, <1>24, <1>25, <1>26, <1>27, <1>28, <1>29, <1>30
  DEF Next, SimThread, Run, EnsureBooted, Terminated, vars, GoTo, DrainThen

\* What the task queue holds is kept true by every step.
LEMMA QueueStep == IInv /\ [Next]_vars => QueueInv'
<1> SUFFICES ASSUME TypeOK, QueueInv, CallInv, ExecInv, [Next]_vars PROVE QueueInv'
  BY DEF IInv
<1> USE DEF TypeOK, QueueInv, simVars, eventVars, callVars, worldVars
<1>1. CASE DrainCancelled
  BY <1>1 DEF DrainCancelled
<1>2. CASE DrainStart
  BY <1>2 DEF DrainStart
<1>3. CASE ExecEnds
  BY <1>3 DEF ExecEnds, ExecInv
<1>4. ASSUME NEW c \in Calls, RunPuts(c) PROVE QueueInv'
  BY <1>4 DEF RunPuts, CallInv
<1>5. ASSUME NEW c \in Calls, RunCancels(c) PROVE QueueInv'
  BY <1>5 DEF RunCancels
<1>6. CASE UNCHANGED <<tasks, fut>>
  BY <1>6
<1> QED
  BY <1>1, <1>2, <1>3, <1>4, <1>5, <1>6
  DEF Next, SimThread, Run, EnsureBooted, Terminated, vars, GoTo, DrainThen,
      AwaitBoot, BootSucceeds, BootFails, BootFailureSignalled, LeaveLoop,
      TurnOfLoop, GatePoll, DrainEmpty, StepEnds, StepRaises, CloseApp,
      MainLoopReturns, RunChecksStopped, RunChecksReady, RunReturns,
      RunExpires, RunInline, EnsureBootedChecks, EnsureBootedArms,
      EnsureBootedReturns, EnsureBootedExpires, FinalizeScene, RequestStop,
      AppDies

\* What each caller has been told is kept true by every step.
LEMMA CallStep == IInv /\ [Next]_vars => CallInv'
<1> SUFFICES ASSUME TypeOK, QueueInv, CallInv, ExecInv, [Next]_vars PROVE CallInv'
  BY DEF IInv
<1> USE DEF TypeOK, CallInv, CallPcs, Outcomes, FutStates, Settled, simVars,
       eventVars, callVars, worldVars
<1>1. CASE DrainStart
  BY <1>1 DEF DrainStart, QueueInv
<1>2. CASE ExecEnds
  BY <1>2 DEF ExecEnds, ExecInv
<1>3. ASSUME NEW c \in Calls, RunChecksStopped(c) PROVE CallInv'
  BY <1>3 DEF RunChecksStopped
<1>4. ASSUME NEW c \in Calls, RunChecksReady(c) PROVE CallInv'
  BY <1>4 DEF RunChecksReady
<1>5. ASSUME NEW c \in Calls, RunPuts(c) PROVE CallInv'
  BY <1>5 DEF RunPuts
<1>6. ASSUME NEW c \in Calls, RunReturns(c) PROVE CallInv'
  BY <1>6 DEF RunReturns
<1>7. ASSUME NEW c \in Calls, RunExpires(c) PROVE CallInv'
  BY <1>7 DEF RunExpires
<1>8. ASSUME NEW c \in Calls, RunCancels(c) PROVE CallInv'
  BY <1>8 DEF RunCancels
<1>9. ASSUME NEW c \in Calls, RunInline(c) PROVE CallInv'
  BY <1>9 DEF RunInline
<1>10. CASE UNCHANGED <<pc, fut, execs>>
  BY <1>10
<1> QED
  BY <1>1, <1>2, <1>3, <1>4, <1>5, <1>6, <1>7, <1>8, <1>9, <1>10
  DEF Next, SimThread, Run, EnsureBooted, Terminated, vars, GoTo, DrainThen,
      AwaitBoot, BootSucceeds, BootFails, BootFailureSignalled, LeaveLoop,
      TurnOfLoop, GatePoll, DrainEmpty, DrainCancelled, StepEnds, StepRaises,
      CloseApp, MainLoopReturns, EnsureBootedChecks, EnsureBootedArms,
      EnsureBootedReturns, EnsureBootedExpires, FinalizeScene, RequestStop,
      AppDies

\* What the sim thread has executed is kept true by every step.
LEMMA ExecStep == IInv /\ [Next]_vars => ExecInv'
<1> SUFFICES ASSUME TypeOK, QueueInv, CallInv, ExecInv, [Next]_vars PROVE ExecInv'
  BY DEF IInv
<1> USE DEF TypeOK, ExecInv, simVars, eventVars, callVars, worldVars
<1>1. CASE AwaitBoot
  BY <1>1 DEF AwaitBoot, GoTo, DrainThen
<1>2. CASE BootSucceeds
  BY <1>2 DEF BootSucceeds, GoTo
<1>3. CASE BootFails
  BY <1>3 DEF BootFails, GoTo
<1>4. CASE BootFailureSignalled
  BY <1>4 DEF BootFailureSignalled, GoTo
<1>5. CASE LeaveLoop
  BY <1>5 DEF LeaveLoop, GoTo, LoopMayRun
<1>6. CASE TurnOfLoop
  BY <1>6 DEF TurnOfLoop, DrainThen, LoopMayRun
<1>7. CASE GatePoll
  BY <1>7 DEF GatePoll, GoTo
<1>8. CASE DrainEmpty
  BY <1>8 DEF DrainEmpty, GoTo, DrainRets
<1>9. CASE DrainCancelled
  BY <1>9 DEF DrainCancelled
<1>10. CASE DrainStart
  BY <1>10 DEF DrainStart, QueueInv
<1>11. CASE ExecEnds
  BY <1>11 DEF ExecEnds
<1>12. CASE StepEnds
  BY <1>12, SimAssumption DEF StepEnds
<1>13. CASE StepRaises
  BY <1>13 DEF StepRaises, GoTo
<1>14. CASE CloseApp
  BY <1>14 DEF CloseApp, GoTo
<1>15. CASE MainLoopReturns
  BY <1>15 DEF MainLoopReturns, GoTo
<1>16. ASSUME NEW c \in Calls, RunPuts(c) PROVE ExecInv'
  BY <1>16 DEF RunPuts, CallInv
<1>17. ASSUME NEW c \in Calls, RunCancels(c) PROVE ExecInv'
  BY <1>17 DEF RunCancels
<1>18. CASE UNCHANGED <<simPc, current, fut>>
  BY <1>18
<1> QED
  BY <1>1, <1>2, <1>3, <1>4, <1>5, <1>6, <1>7, <1>8, <1>9, <1>10, <1>11, <1>12,
     <1>13, <1>14, <1>15, <1>16, <1>17, <1>18
  DEF Next, SimThread, Run, EnsureBooted, Terminated, vars, GoTo, DrainThen,
      RunChecksStopped, RunChecksReady, RunReturns, RunExpires, RunInline,
      EnsureBootedChecks, EnsureBootedArms, EnsureBootedReturns,
      EnsureBootedExpires, FinalizeScene, RequestStop, AppDies

\* The scene gate's part of the invariant is kept by every step.
LEMMA GateStep == IInv /\ [Next]_vars => GateInv'
<1> SUFFICES ASSUME TypeOK, QueueInv, CallInv, ExecInv, GateInv, WorldInv, [Next]_vars PROVE GateInv'
  BY DEF IInv
<1> USE DEF TypeOK, GateInv, simVars, eventVars, callVars, worldVars
<1>1. CASE DrainStart
  BY <1>1 DEF DrainStart, QueueInv
<1>2. CASE ExecEnds
  BY <1>2 DEF ExecEnds, ExecInv
<1>3. CASE StepEnds
  BY <1>3, SimAssumption DEF StepEnds
<1>4. ASSUME NEW c \in Calls, RunChecksStopped(c) PROVE GateInv'
  BY <1>4 DEF RunChecksStopped, CallInv
<1>5. ASSUME NEW c \in Calls, RunChecksReady(c) PROVE GateInv'
  BY <1>5 DEF RunChecksReady, CallInv
<1>6. ASSUME NEW c \in Calls, RunPuts(c) PROVE GateInv'
  BY <1>6 DEF RunPuts
<1>7. ASSUME NEW c \in Calls, RunReturns(c) PROVE GateInv'
  BY <1>7 DEF RunReturns
<1>8. ASSUME NEW c \in Calls, RunExpires(c) PROVE GateInv'
  BY <1>8 DEF RunExpires
<1>9. ASSUME NEW c \in Calls, RunCancels(c) PROVE GateInv'
  BY <1>9 DEF RunCancels
<1>10. ASSUME NEW c \in Calls, RunInline(c) PROVE GateInv'
  BY <1>10 DEF RunInline, CallInv
<1>11. CASE EnsureBootedArms
  BY <1>11, SimAssumption DEF EnsureBootedArms, WorldInv, CallInv
<1>12. CASE UNCHANGED <<kind, pc, fut, ready>>
  BY <1>12
<1> QED
  BY <1>1, <1>2, <1>3, <1>4, <1>5, <1>6, <1>7, <1>8, <1>9, <1>10, <1>11, <1>12
  DEF Next, SimThread, Run, EnsureBooted, Terminated, vars, GoTo, DrainThen,
      AwaitBoot, BootSucceeds, BootFails, BootFailureSignalled, LeaveLoop,
      TurnOfLoop, GatePoll, DrainEmpty, DrainCancelled, StepRaises, CloseApp,
      MainLoopReturns, EnsureBootedChecks, EnsureBootedReturns,
      EnsureBootedExpires, FinalizeScene, RequestStop, AppDies

\* The world's part of the invariant is kept by every step.
LEMMA WorldStep == IInv /\ [Next]_vars => WorldInv'
<1> SUFFICES ASSUME TypeOK, CallInv, ExecInv, WorldInv, [Next]_vars PROVE WorldInv'
  BY DEF IInv
<1> USE DEF TypeOK, WorldInv, simVars, eventVars, callVars, worldVars
<1>1. CASE AwaitBoot
  BY <1>1 DEF AwaitBoot, GoTo, DrainThen
<1>2. CASE BootSucceeds
  BY <1>2 DEF BootSucceeds, GoTo
<1>3. CASE BootFails
  BY <1>3 DEF BootFails, GoTo
<1>4. CASE BootFailureSignalled
  BY <1>4 DEF BootFailureSignalled, GoTo
<1>5. CASE LeaveLoop
  BY <1>5 DEF LeaveLoop, GoTo, LoopMayRun
<1>6. CASE TurnOfLoop
  BY <1>6 DEF TurnOfLoop, DrainThen, LoopMayRun
<1>7. CASE GatePoll
  BY <1>7 DEF GatePoll, GoTo
<1>8. CASE DrainEmpty
  BY <1>8 DEF DrainEmpty, GoTo, DrainRets
<1>9. CASE DrainCancelled
  BY <1>9 DEF DrainCancelled
<1>10. CASE DrainStart
  BY <1>10 DEF DrainStart
<1>11. CASE ExecEnds
  BY <1>11 DEF ExecEnds
<1>12. CASE StepEnds
  BY <1>12, SimAssumption DEF StepEnds
<1>13. CASE StepRaises
  BY <1>13 DEF StepRaises, GoTo
<1>14. CASE CloseApp
  BY <1>14 DEF CloseApp, GoTo
<1>15. CASE MainLoopReturns
  BY <1>15 DEF MainLoopReturns, GoTo
<1>16. ASSUME NEW c \in Calls, RunChecksStopped(c) PROVE WorldInv'
  BY <1>16 DEF RunChecksStopped
<1>17. ASSUME NEW c \in Calls, RunChecksReady(c) PROVE WorldInv'
  BY <1>17 DEF RunChecksReady
<1>18. ASSUME NEW c \in Calls, RunPuts(c) PROVE WorldInv'
  BY <1>18 DEF RunPuts
<1>19. ASSUME NEW c \in Calls, RunReturns(c) PROVE WorldInv'
  BY <1>19 DEF RunReturns
<1>20. ASSUME NEW c \in Calls, RunExpires(c) PROVE WorldInv'
  BY <1>20 DEF RunExpires
<1>21. ASSUME NEW c \in Calls, RunCancels(c) PROVE WorldInv'
  BY <1>21 DEF RunCancels
<1>22. ASSUME NEW c \in Calls, RunInline(c) PROVE WorldInv'
  BY <1>22 DEF RunInline, ExecInv, CallInv
<1>23. CASE EnsureBootedChecks
  BY <1>23, SimAssumption DEF EnsureBootedChecks
<1>24. CASE EnsureBootedArms
  BY <1>24, SimAssumption DEF EnsureBootedArms
<1>25. CASE EnsureBootedReturns
  BY <1>25 DEF EnsureBootedReturns
<1>26. CASE EnsureBootedExpires
  BY <1>26 DEF EnsureBootedExpires
<1>27. CASE UNCHANGED <<simPc, drainRet, bootRequested, booted, worldPc, pc>>
  BY <1>27
<1> QED
  BY <1>1, <1>2, <1>3, <1>4, <1>5, <1>6, <1>7, <1>8, <1>9, <1>10, <1>11, <1>12,
     <1>13, <1>14, <1>15, <1>16, <1>17, <1>18, <1>19, <1>20, <1>21, <1>22,
     <1>23, <1>24, <1>25, <1>26, <1>27
  DEF Next, SimThread, Run, EnsureBooted, Terminated, vars, GoTo, DrainThen,
      FinalizeScene, RequestStop, AppDies

\* The scene's part of the invariant is kept by every step.
LEMMA SceneStep == IInv /\ [Next]_vars => SceneInv'
<1> SUFFICES ASSUME TypeOK, WorldInv, SceneInv, [Next]_vars PROVE SceneInv'
  BY DEF IInv
<1> USE DEF TypeOK, WorldInv, SceneInv, simVars, eventVars, callVars, worldVars
<1>1. CASE AwaitBoot
  BY <1>1 DEF AwaitBoot, GoTo, DrainThen
<1>2. CASE BootSucceeds
  BY <1>2 DEF BootSucceeds, GoTo
<1>3. CASE BootFails
  BY <1>3 DEF BootFails, GoTo
<1>4. CASE BootFailureSignalled
  BY <1>4 DEF BootFailureSignalled, GoTo
<1>5. CASE LeaveLoop
  BY <1>5 DEF LeaveLoop, GoTo, LoopMayRun
<1>6. CASE TurnOfLoop
  BY <1>6 DEF TurnOfLoop, DrainThen, LoopMayRun
<1>7. CASE GatePoll
  BY <1>7 DEF GatePoll, GoTo
<1>8. CASE DrainEmpty
  BY <1>8 DEF DrainEmpty, GoTo
<1>9. CASE DrainCancelled
  BY <1>9 DEF DrainCancelled
<1>10. CASE DrainStart
  BY <1>10 DEF DrainStart
<1>11. CASE ExecEnds
  BY <1>11 DEF ExecEnds
<1>12. CASE StepEnds
  BY <1>12, SimAssumption DEF StepEnds
<1>13. CASE StepRaises
  BY <1>13 DEF StepRaises, GoTo
<1>14. CASE CloseApp
  BY <1>14 DEF CloseApp, GoTo
<1>15. CASE MainLoopReturns
  BY <1>15 DEF MainLoopReturns, GoTo
<1>16. CASE EnsureBootedChecks
  BY <1>16, SimAssumption DEF EnsureBootedChecks
<1>17. CASE EnsureBootedArms
  BY <1>17, SimAssumption DEF EnsureBootedArms
<1>18. CASE EnsureBootedReturns
  BY <1>18 DEF EnsureBootedReturns
<1>19. CASE EnsureBootedExpires
  BY <1>19 DEF EnsureBootedExpires
<1>20. CASE FinalizeScene
  BY <1>20 DEF FinalizeScene
<1>21. CASE UNCHANGED <<simPc, drainRet, steps, warmupSteps, bootRequested, finalized, ready, worldPc>>
  BY <1>21
<1> QED
  BY <1>1, <1>2, <1>3, <1>4, <1>5, <1>6, <1>7, <1>8, <1>9, <1>10, <1>11, <1>12,
     <1>13, <1>14, <1>15, <1>16, <1>17, <1>18, <1>19, <1>20, <1>21
  DEF Next, SimThread, Run, EnsureBooted, Terminated, vars, GoTo, DrainThen,
      RunChecksStopped, RunChecksReady, RunPuts, RunReturns, RunExpires,
      RunCancels, RunInline, RequestStop, AppDies

\* IInv is inductive.
LEMMA StepIInv == IInv /\ [Next]_vars => IInv'
  BY TypeStep, QueueStep, CallStep, ExecStep, GateStep, WorldStep, SceneStep DEF IInv

\* IInv holds in every reachable state of SimManager.
THEOREM Invariance == Spec => []IInv
<1>1. Init => IInv
  BY InitIInv
<1>2. IInv /\ [Next]_vars => IInv'
  BY StepIInv
<1> QED
  BY <1>1, <1>2, PTL DEF Spec

-----------------------------------------------------------------------------
(***************************************************************************)
(* What IInv is for.                                                       *)
(***************************************************************************)
\* Every reachable state is well typed; that warmupSteps stays within Warmup
\* is the part that needs the rest of IInv.
THEOREM TypeCorrect == Spec => []TypeOK
<1>1. IInv => TypeOK
  BY DEF IInv
<1> QED
  BY <1>1, Invariance, PTL

\* run() tells every caller what happened to its task on the sim thread.
THEOREM AnswersMatchEffects == Spec => []AnswerMatchesEffect
<1>1. IInv => AnswerMatchesEffect
  BY DEF IInv, TypeOK, CallInv, AnswerMatchesEffect, FutStates, CallPcs, Outcomes
<1> QED
  BY <1>1, Invariance, PTL

\* No operational task runs on the sim thread while the scene gate is closed.
THEOREM GateIsRespected == Spec => []GateHolds
<1>1. IInv => GateHolds
  BY DEF IInv, GateInv, GateHolds
<1> QED
  BY <1>1, Invariance, PTL

\* The gated world does not step before its scene is finalized, and reports
\* ready only after the warm-up steps of that scene.
THEOREM SceneComesFirst == Spec => [](NoStepBeforeScene /\ ReadyMeansWarm)
<1>1. IInv => NoStepBeforeScene /\ ReadyMeansWarm
  BY DEF IInv, SceneInv, NoStepBeforeScene, ReadyMeansWarm
<1> QED
  BY <1>1, Invariance, PTL

\* Neither a call nor a step gets through before the scene is ready for it.
THEOREM SceneIsGuarded == Spec => []SceneGateHolds
<1>1. GateHolds /\ NoStepBeforeScene /\ ReadyMeansWarm => SceneGateHolds
  BY DEF SceneGateHolds
<1> QED
  BY <1>1, GateIsRespected, SceneComesFirst, PTL

\* A task whose caller was told of a timeout before the task started never
\* starts: it is no longer pending, so _drain_tasks drops it.
THEOREM TimedOutNeverStarts == Spec => NoLateStart
<1> DEFINE Late == \A c \in Calls : pc[c] = "timeout" => execs'[c] = execs[c]
<1>1. IInv /\ [Next]_vars => [Late]_vars
  <2> SUFFICES ASSUME IInv, [Next]_vars, NEW c \in Calls, pc[c] = "timeout"
               PROVE  execs'[c] = execs[c]
    OBVIOUS
  <2> USE DEF IInv, TypeOK, simVars, eventVars, callVars, worldVars
  <2>1. CASE DrainStart
    <3>1. fut[c] \in {"running", "finished", "failed", "cancelled"}
      BY DEF CallInv
    <3>2. 1 \in 1..Len(tasks) /\ Head(tasks) = tasks[1]
      BY <2>1 DEF DrainStart
    <3>3. Head(tasks) # c
      BY <2>1, <3>1, <3>2 DEF DrainStart, QueueInv
    <3> QED
      BY <2>1, <3>3 DEF DrainStart
  <2>2. ASSUME NEW d \in Calls, RunInline(d) PROVE execs'[c] = execs[c]
    BY <2>2 DEF RunInline
  <2>3. CASE UNCHANGED execs
    BY <2>3
  <2> QED
    BY <2>1, <2>2, <2>3
    DEF Next, SimThread, Run, EnsureBooted, Terminated, vars, GoTo, DrainThen,
      AwaitBoot, BootSucceeds, BootFails, BootFailureSignalled, LeaveLoop,
      TurnOfLoop, GatePoll, DrainEmpty, DrainCancelled, ExecEnds, StepEnds,
      StepRaises, CloseApp, MainLoopReturns, RunChecksStopped,
      RunChecksReady, RunPuts, RunReturns, RunExpires, RunCancels,
      EnsureBootedChecks, EnsureBootedArms, EnsureBootedReturns,
      EnsureBootedExpires, FinalizeScene, RequestStop, AppDies
<1> QED
  BY <1>1, Invariance, PTL DEF Spec, NoLateStart

-----------------------------------------------------------------------------
(***************************************************************************)
(* run() implements MarshalledCalls.  Most actions change neither a call's *)
(* abstract task nor its answer; the others are one abstract action each.  *)
(***************************************************************************)
LEMMA StepRefines ==
    IInv /\ [Next]_vars => [Abstract!Next]_(Abstract!vars)
<1> SUFFICES ASSUME IInv, [Next]_vars
             PROVE  Abstract!Next \/ UNCHANGED Abstract!vars
  OBVIOUS
<1> USE DEF IInv, TypeOK, AbstractTask, AbstractAnswer, simVars, eventVars,
       callVars, worldVars
<1>1. ASSUME NEW c \in Calls, DrainStart, c = Head(tasks) PROVE Abstract!Start(c)
  <2>0. 1 \in 1..Len(tasks) /\ c = tasks[1]
    BY <1>1 DEF DrainStart
  <2>1. fut[c] = "pending" /\ pc[c] \in {"waiting", "expired"}
    <3>1. fut[c] = "pending"
      BY <1>1, <2>0 DEF DrainStart, QueueInv
    <3> QED
      BY <3>1 DEF CallInv, CallPcs, Outcomes
  <2>2. \A d \in Calls : fut[d] # "running"
    BY <1>1 DEF DrainStart, ExecInv
  <2> QED
    BY <1>1, <2>1, <2>2 DEF DrainStart, Abstract!Start, Abstract!Idle
<1>2. ASSUME NEW c \in Calls, ExecEnds, c = current PROVE Abstract!Finish(c)
  <2>1. fut[c] = "running" /\ execs[c] = 1
    BY <1>2 DEF ExecEnds, ExecInv, CallInv
  <2> QED
    BY <1>2, <2>1 DEF ExecEnds, Abstract!Finish
<1>3. ASSUME NEW c \in Calls, RunInline(c) PROVE Abstract!Nested(c)
  <2>1. fut[c] = "none" /\ execs[c] = 0
    BY <1>3 DEF RunInline, CallInv
  <2>2. \E d \in Calls : fut[d] = "running"
    BY <1>3 DEF RunInline, ExecInv
  <2>3. ~Abstract!Idle
    BY <2>2 DEF Abstract!Idle
  <2>4. AbstractTask(c) = "none" /\ AbstractAnswer(c) = "open"
    BY <1>3, <2>1 DEF RunInline
  <2>5. [d \in Calls |-> AbstractTask(d)]'
          = [[d \in Calls |-> AbstractTask(d)] EXCEPT ![c] = "done"]
    <3>1. execs' = [execs EXCEPT ![c] = 1] /\ fut' = fut
      BY <1>3, <2>1 DEF RunInline
    <3>2. AbstractTask(c)' = "done"
      BY <2>1, <3>1
    <3>3. ASSUME NEW d \in Calls, d # c PROVE AbstractTask(d)' = AbstractTask(d)
      BY <3>1, <3>3
    <3> HIDE DEF AbstractTask
    <3> QED
      BY <3>2, <3>3
  <2>6. [d \in Calls |-> AbstractAnswer(d)]'
          = [[d \in Calls |-> AbstractAnswer(d)] EXCEPT ![c] = "kept"]
    BY <1>3 DEF RunInline
  <2> QED
    BY <2>3, <2>4, <2>5, <2>6 DEF Abstract!Nested
<1>4. ASSUME NEW c \in Calls, RunChecksStopped(c) \/ RunChecksReady(c)
      PROVE  Abstract!Refuse(c) \/ UNCHANGED Abstract!vars
  BY <1>4 DEF RunChecksStopped, RunChecksReady, CallInv, Abstract!Refuse, Abstract!vars
<1>5. ASSUME NEW c \in Calls, RunPuts(c) PROVE Abstract!Submit(c)
  BY <1>5 DEF RunPuts, CallInv, Abstract!Submit
<1>6. ASSUME NEW c \in Calls, RunReturns(c) PROVE Abstract!Answer(c)
  BY <1>6 DEF RunReturns, CallInv, Abstract!Answer
<1>7. ASSUME NEW c \in Calls, RunExpires(c) PROVE UNCHANGED Abstract!vars
  BY <1>7 DEF RunExpires, Abstract!vars
<1>8. ASSUME NEW c \in Calls, RunCancels(c) PROVE Abstract!GiveUp(c)
  <2>1. fut[c] \in {"pending", "running", "finished", "failed"}
    BY <1>8 DEF RunCancels, CallInv
  <2> QED
    BY <1>8, <2>1 DEF RunCancels, Abstract!GiveUp
<1>9. CASE UNCHANGED <<pc, fut, execs>>
  BY <1>9 DEF Abstract!vars
<1>10. \/ \E c \in Calls : RunChecksStopped(c) \/ Run(c) \/ RunInline(c)
       \/ DrainStart /\ Head(tasks) \in Calls
       \/ ExecEnds /\ current \in Calls
       \/ UNCHANGED <<pc, fut, execs>>
  <2>1. DrainStart => Head(tasks) \in Calls
    BY DEF DrainStart
  <2>2. ExecEnds => current \in Calls
    BY DEF ExecEnds, ExecInv
  <2> QED
    BY <2>1, <2>2
    DEF Next, SimThread, EnsureBooted, Terminated, vars, GoTo, DrainThen,
    AwaitBoot, BootSucceeds, BootFails, BootFailureSignalled, LeaveLoop,
    TurnOfLoop, GatePoll, DrainEmpty, DrainCancelled, StepEnds, StepRaises,
    CloseApp, MainLoopReturns, EnsureBootedChecks, EnsureBootedArms,
    EnsureBootedReturns, EnsureBootedExpires, FinalizeScene, RequestStop,
    AppDies
<1> QED
  BY <1>1, <1>2, <1>3, <1>4, <1>5, <1>6, <1>7, <1>8, <1>9, <1>10
  DEF Run, Abstract!Next

\* Every behaviour of SimManager is one of MarshalledCalls.
THEOREM Refinement == Spec => ImplementsMarshalledCalls
<1>1. Init => Abstract!Init
  BY DEF Init, Abstract!Init, AbstractTask, AbstractAnswer
<1>2. IInv /\ [Next]_vars => [Abstract!Next]_(Abstract!vars)
  BY StepRefines
<1> QED
  BY <1>1, <1>2, Invariance, PTL DEF Spec, Abstract!Spec, ImplementsMarshalledCalls
-----------------------------------------------------------------------------
(***************************************************************************)
(* The process adds no behaviour to SimManager, whatever the calls and     *)
(* whenever the signal comes, so what is shown above of the sim thread and *)
(* its callers holds in the process.                                       *)
(***************************************************************************)
procAll == <<vars, procVars>>

\* A step of the process is a step of SimManager, or one of the handler and the
\* module thread that SimManager does not see.
LEMMA ProcStepsSim == [ProcNext]_procAll => [Next]_vars
<1> SUFFICES ASSUME [ProcNext]_procAll PROVE Next \/ UNCHANGED vars
  OBVIOUS
<1>1. CASE UNCHANGED procAll
  BY <1>1 DEF procAll
<1>2. CASE MainThread \/ MainThreadInline
  BY <1>2 DEF MainThread, MainThreadInline, Next
<1>3. CASE ModuleUp \/ Signal \/ ProcTerminated
  BY <1>3 DEF ModuleUp, Signal, ProcTerminated
<1>4. CASE ModuleExits \/ JoinReturns
  BY <1>4 DEF ModuleExits, JoinReturns, Next
<1>5. CASE ModuleThread
  BY <1>5, ProcessAssumption DEF ModuleThread, Next
<1>6. ASSUME NEW c \in Calls, Worker(c)
      PROVE  Next
  BY <1>6 DEF Worker, Next
<1>7. CASE Environment
  BY <1>7 DEF Environment, Next
<1> QED
  BY <1>1, <1>2, <1>3, <1>4, <1>5, <1>6, <1>7 DEF ProcNext

\* Signals, joins and the end of the module thread only choose among the steps
\* of SimManager (_run_module, _shutdown).
LEMMA ProcessIsASimManager == ProcSpec => Spec
<1>1. ProcInit => Init
  BY DEF ProcInit
<1> QED
  BY <1>1, ProcStepsSim, PTL DEF ProcSpec, Spec, procAll

\* So in the process, too, a caller of run() is told what became of its task,
\* and no task or step gets past a scene that is not ready.
THEOREM ProcessKeepsThePromises ==
    ProcSpec => ImplementsMarshalledCalls /\ []AnswerMatchesEffect /\ []SceneGateHolds
BY ProcessIsASimManager, Refinement, AnswersMatchEffects, SceneIsGuarded, PTL

-----------------------------------------------------------------------------
(***************************************************************************)
(* The scene is complete before the world steps, for any dependencies,     *)
(* other calls and warm-up, when the scene-finalizer is built once and the *)
(* world waits for it.                                                     *)
(*                                                                         *)
(* IInv has the half of the argument that is about the gate: steps > 0     *)
(* needs a finalized scene and a world that is built.  The other half is   *)
(* the finalizer's: it finalizes last, with no call under way, and a task  *)
(* it no longer waits for keeps the sim thread from stepping.              *)
(***************************************************************************)
OneBuild == WaitForFinalizer /\ \A f, g \in Finalizers : f = g

FinPcs == {"new", "frame", "frame_call", "gather", "scenery_call", "finalize", "done"}
Over   == Outcomes \cup {"idle"}
Open   == {"pending", "running"}

FinTypeInv ==
    /\ finPc \in [Finalizers -> FinPcs]
    /\ toProbe \in [Finalizers -> SUBSET Sources]
    /\ gathered \in [Finalizers -> SUBSET Sources]

\* A finalizer's call is under way only while its thread waits for it.
AwaitInv == \A f \in Finalizers :
    /\ finPc[f] # "frame_call" => pc[FrameCall[f]] \in Over
    /\ finPc[f] # "scenery_call" => pc[SceneryCall[f]] \in Over
    /\ finPc[f] \in {"new", "frame", "frame_call", "gather"} => pc[SceneryCall[f]] = "idle"

\* What a task that ended well was to spawn is in the stage.
SpawnInv == \A f \in Finalizers :
    /\ pc[SceneryCall[f]] = "returned" => fut[SceneryCall[f]] = "finished"
    /\ fut[SceneryCall[f]] = "finished" => gathered[f] \subseteq spawned

\* The scene of a world that is built is finalized by the finalizer alone, and
\* no step is taken while one of its tasks is left.
OrderInv ==
    /\ \A f \in Finalizers : finPc[f] # "new" => worldPc = "built"
    /\ worldPc = "built" /\ finalized => \A f \in Finalizers : finPc[f] = "done"
    /\ \A c \in SceneCalls : fut[c] \in Open => steps = 0

FinInv == FinTypeInv /\ AwaitInv /\ SpawnInv /\ OrderInv

sceneAll == <<vars, sceneVars>>

-----------------------------------------------------------------------------
\* Each call of a finalizer is a call of run(), and belongs to that finalizer.
LEMMA SceneCallFacts ==
    /\ \A f \in Finalizers : FrameCall[f] \in Calls /\ SceneryCall[f] \in Calls
    /\ \A f \in Finalizers : FrameCall[f] \in SceneCalls /\ SceneryCall[f] \in SceneCalls
    /\ SceneCalls \subseteq Calls
    /\ \A f, g \in Finalizers : FrameCall[f] # SceneryCall[g]
    /\ \A f, g \in Finalizers : SceneryCall[f] = SceneryCall[g] => f = g
    /\ \A f, g \in Finalizers : FrameCall[f] = FrameCall[g] => f = g
    /\ \A f \in Finalizers : Finalizer(SceneryCall[f]) = f
<1>1. /\ \A f \in Finalizers : FrameCall[f] \in Calls /\ SceneryCall[f] \in Calls
      /\ \A f \in Finalizers : FrameCall[f] \in SceneCalls /\ SceneryCall[f] \in SceneCalls
      /\ SceneCalls \subseteq Calls
  BY SceneAssumption DEF SceneCalls
<1>2. /\ \A f, g \in Finalizers : FrameCall[f] # SceneryCall[g]
      /\ \A f, g \in Finalizers : SceneryCall[f] = SceneryCall[g] => f = g
      /\ \A f, g \in Finalizers : FrameCall[f] = FrameCall[g] => f = g
  BY SceneAssumption
<1>3. ASSUME NEW f \in Finalizers
      PROVE  Finalizer(SceneryCall[f]) = f
  <2>1. \A g \in Finalizers : SceneryCall[f] \in {FrameCall[g], SceneryCall[g]} <=> g = f
    BY <1>2
  <2> QED
    BY <2>1 DEF Finalizer
<1> QED
  BY <1>1, <1>2, <1>3

\* The finalizers add no behaviour to SimManager.
LEMMA SceneStepsSim == [SceneNext]_sceneAll => [Next]_vars
<1> SUFFICES ASSUME [SceneNext]_sceneAll PROVE Next \/ UNCHANGED vars
  OBVIOUS
<1>1. CASE UNCHANGED sceneAll
  BY <1>1 DEF sceneAll
<1>2. CASE SceneSim
  BY <1>2 DEF SceneSim, SceneTaskEnds, Next, SimThread
<1>3. ASSUME NEW f \in Finalizers, StartMaterialise(f) \/ FinalizerThread(f)
      PROVE  Next \/ UNCHANGED vars
  <2>1. CASE Materialise(f)
    BY <2>1, SceneCallFacts DEF Materialise, Next
  <2>2. CASE ~Materialise(f)
    BY <1>3, <2>2 DEF StartMaterialise, FinalizerThread, ReadFrameSystem, FrameSystemDone, Probe,
       ProbeBadReply, GatherExpires, Gathered, SceneryDone, Finalize, Next
  <2> QED
    BY <2>1, <2>2
<1>4. CASE SceneEnvironment
  BY <1>4 DEF SceneEnvironment, Next
<1>5. CASE SceneTerminated
  BY <1>5 DEF SceneTerminated
<1> QED
  BY <1>1, <1>2, <1>3, <1>4, <1>5 DEF SceneNext

\* So it is a SimManager with its invariant.
LEMMA SceneIsASimManager == SceneSpec => []IInv
<1>1. SceneInit => Init
  BY DEF SceneInit
<1>2. SceneSpec => Spec
  BY <1>1, SceneStepsSim, PTL DEF SceneSpec, Spec, sceneAll
<1> QED
  BY <1>2, Invariance, PTL

\* The invariant holds at first.
LEMMA InitFinInv == SceneInit => FinInv
<1> SUFFICES ASSUME SceneInit PROVE FinInv
  OBVIOUS
<1>1. FinTypeInv
  BY DEF SceneInit, FinTypeInv, FinPcs
<1>2. \A c \in Calls : pc[c] = "idle" /\ fut[c] = "none"
  BY DEF SceneInit, Init
<1>3. AwaitInv /\ SpawnInv
  BY <1>2, SceneCallFacts DEF AwaitInv, SpawnInv, Over
<1>4. OrderInv
  BY <1>2, SceneCallFacts DEF SceneInit, Init, OrderInv, Open
<1> QED
  BY <1>1, <1>3, <1>4 DEF FinInv

\* One step of a call of run(): it is the only one to move.
LEMMA RunFacts ==
    ASSUME IInv, NEW c \in Calls, RunChecksStopped(c) \/ Run(c) \/ RunInline(c)
    PROVE  /\ UNCHANGED <<steps, worldPc, finalized>>
           /\ \A d \in Calls : d # c => pc'[d] = pc[d] /\ fut'[d] = fut[d]
           /\ fut'[c] = "pending" => pc[c] = "gated" \/ fut[c] = "pending"
           /\ fut'[c] = "running" => fut[c] = "running"
           /\ fut'[c] = "finished" => fut[c] = "finished"
           /\ fut[c] = "finished" => fut'[c] = "finished"
<1>1. pc \in [Calls -> CallPcs] /\ fut \in [Calls -> FutStates]
  BY DEF IInv, TypeOK
<1>2. UNCHANGED <<steps, worldPc, finalized>>
  BY DEF RunChecksStopped, Run, RunChecksReady, RunPuts, RunReturns, RunExpires, RunCancels,
     RunInline, simVars, eventVars, worldVars
<1>3. CASE RunChecksStopped(c)
  BY <1>1, <1>2, <1>3 DEF RunChecksStopped
<1>4. CASE RunInline(c)
  BY <1>1, <1>2, <1>4 DEF RunInline
<1>5. CASE RunChecksReady(c)
  BY <1>1, <1>2, <1>5 DEF RunChecksReady
<1>6. CASE RunPuts(c)
  <2>1. fut[c] = "none"
    BY <1>6 DEF RunPuts, IInv, CallInv
  <2> QED
    BY <1>1, <1>2, <1>6, <2>1 DEF RunPuts
<1>7. CASE RunReturns(c) \/ RunExpires(c)
  BY <1>1, <1>2, <1>7 DEF RunReturns, RunExpires
<1>8. CASE RunCancels(c)
  BY <1>1, <1>2, <1>8 DEF RunCancels
<1> QED
  BY <1>3, <1>4, <1>5, <1>6, <1>7, <1>8 DEF Run

\* A call that is marshalled returns once its task has ended well.
LEMMA ReturnedMeansFinished ==
    ASSUME IInv, NEW c \in Calls, RunChecksStopped(c) \/ Run(c), pc'[c] = "returned"
    PROVE  fut'[c] = "finished"
<1>1. pc \in [Calls -> CallPcs] /\ fut \in [Calls -> FutStates]
  BY DEF IInv, TypeOK
<1>2. CASE RunChecksStopped(c)
  BY <1>1, <1>2 DEF RunChecksStopped
<1>3. CASE Run(c)
  BY <1>1, <1>3 DEF Run, RunChecksReady, RunPuts, RunReturns, RunExpires, RunCancels
<1> QED
  BY <1>2, <1>3

\* The sim thread outside a task answers nobody, and steps only when no call of
\* a finalizer is left.
LEMMA SimThreadKeepsFinInv ==
    ASSUME OneBuild, IInv, FinInv, SimThread, simPc # "exec", UNCHANGED sceneVars
    PROVE  FinInv'
<1>1. UNCHANGED <<pc, worldPc, finalized>>
  BY DEF SimThread, AwaitBoot, BootSucceeds, BootFails, BootFailureSignalled, LeaveLoop, TurnOfLoop,
     GatePoll, DrainEmpty, DrainCancelled, DrainStart, ExecEnds, StepEnds, StepRaises, CloseApp,
     MainLoopReturns, eventVars, callVars, worldVars
<1>2. UNCHANGED <<finPc, toProbe, gathered, spawned>>
  BY DEF sceneVars
<1>3. FinTypeInv' /\ AwaitInv'
  BY <1>1, <1>2 DEF FinInv, FinTypeInv, AwaitInv
<1>4. \/ UNCHANGED fut /\ UNCHANGED steps
      \/ DrainStart
      \/ UNCHANGED fut /\ simPc = "step"
  BY DEF SimThread, AwaitBoot, BootSucceeds, BootFails, BootFailureSignalled, LeaveLoop, TurnOfLoop,
     GatePoll, DrainEmpty, DrainCancelled, ExecEnds, StepEnds, StepRaises, CloseApp,
     MainLoopReturns, GoTo, DrainThen, callVars, simVars
<1>5. CASE UNCHANGED fut /\ UNCHANGED steps
  BY <1>1, <1>2, <1>3, <1>5 DEF FinInv, SpawnInv, OrderInv
<1>6. CASE DrainStart
  <2>1. /\ Head(tasks) \in Calls /\ fut[Head(tasks)] = "pending"
        /\ fut' = [fut EXCEPT ![Head(tasks)] = "running"] /\ UNCHANGED steps
    BY <1>6 DEF DrainStart, IInv, TypeOK, QueueInv
  <2>2. \A c \in Calls : /\ (fut'[c] \in Open <=> fut[c] \in Open)
                         /\ (fut'[c] = "finished" <=> fut[c] = "finished")
    BY <2>1 DEF IInv, TypeOK, Open
  <2> QED
    BY <1>1, <1>2, <1>3, <2>1, <2>2, SceneCallFacts DEF FinInv, SpawnInv, OrderInv
<1>7. CASE UNCHANGED fut /\ simPc = "step"
  <2>1. finalized /\ worldPc = "built"
    BY <1>7 DEF OneBuild, IInv, SceneInv
  <2>2. \A f \in Finalizers : finPc[f] = "done"
    BY <2>1 DEF FinInv, OrderInv
  <2>3. \A c \in SceneCalls : pc[c] \in Over
    BY <2>2 DEF FinInv, AwaitInv, SceneCalls
  <2>4. ASSUME NEW c \in SceneCalls
        PROVE  fut[c] \notin Open
    <3>1. fut[c] # "pending"
      BY <2>3, SceneCallFacts DEF IInv, CallInv, Over, Outcomes
    <3>2. fut[c] # "running"
      BY <1>7, SceneCallFacts DEF IInv, ExecInv
    <3> QED
      BY <3>1, <3>2 DEF Open
  <2> QED
    BY <1>1, <1>2, <1>3, <1>7, <2>4 DEF FinInv, SpawnInv, OrderInv
<1> QED
  BY <1>4, <1>5, <1>6, <1>7

\* The task of a finalizer ends: what it was to spawn is in the stage, or the
\* task has failed.
LEMMA TaskEndsKeepsFinInv ==
    ASSUME IInv, FinInv, SceneTaskEnds
    PROVE  FinInv'
<1>1. UNCHANGED <<pc, worldPc, finalized, steps, finPc, toProbe, gathered>>
  BY DEF SceneTaskEnds, ExecEnds, eventVars, worldVars
<1>2. /\ current \in Calls /\ fut[current] = "running" /\ fut \in [Calls -> FutStates]
      /\ \E r \in {"finished", "failed"} : fut' = [fut EXCEPT ![current] = r]
  BY DEF SceneTaskEnds, ExecEnds, IInv, TypeOK, ExecInv
<1>3. /\ \A c \in Calls : c # current => fut'[c] = fut[c]
      /\ fut'[current] \notin Open
  BY <1>2 DEF Open
<1>4. spawned \subseteq spawned'
  BY DEF SceneTaskEnds
<1>5. ASSUME NEW f \in Finalizers
      PROVE  /\ pc'[SceneryCall[f]] = "returned" => fut'[SceneryCall[f]] = "finished"
             /\ fut'[SceneryCall[f]] = "finished" => gathered'[f] \subseteq spawned'
  <2>1. SceneryCall[f] \in Calls /\ Finalizer(SceneryCall[f]) = f
    BY SceneCallFacts
  <2>2. CASE current = SceneryCall[f]
    <3>1. pc[SceneryCall[f]] # "returned"
      BY <1>2, <2>2 DEF FinInv, SpawnInv
    <3>2. fut'[SceneryCall[f]] = "finished" => spawned' = spawned \cup gathered[f]
      BY <2>1, <2>2 DEF SceneTaskEnds
    <3> QED
      BY <1>1, <3>1, <3>2
  <2>3. CASE current # SceneryCall[f]
    BY <1>1, <1>3, <1>4, <2>1, <2>3 DEF FinInv, SpawnInv
  <2> QED
    BY <2>2, <2>3
<1>6. FinTypeInv' /\ AwaitInv'
  BY <1>1 DEF FinInv, FinTypeInv, AwaitInv
<1>7. OrderInv'
  BY <1>1, <1>3, SceneCallFacts DEF FinInv, OrderInv
<1> QED
  BY <1>5, <1>6, <1>7 DEF FinInv, SpawnInv

\* While a finalizer is on its way nobody has finalized the scene, so the world
\* has not stepped.
LEMMA NothingStepsYet ==
    ASSUME OneBuild, IInv, FinInv, NEW f \in Finalizers, finPc[f] \notin {"new", "done"}
    PROVE  worldPc = "built" /\ ~finalized /\ steps = 0
<1>1. worldPc = "built" /\ ~finalized
  BY DEF FinInv, OrderInv
<1>2. steps \in Nat /\ ~(steps > 0)
  BY <1>1 DEF OneBuild, IInv, SceneInv, TypeOK
<1> QED
  BY <1>1, <1>2

\* The finalizer's own steps.
LEMMA FinalizerKeepsFinInv ==
    ASSUME OneBuild, IInv, FinInv, NEW f \in Finalizers,
           StartMaterialise(f) \/ FinalizerThread(f)
    PROVE  FinInv'
<1>0. /\ finPc \in [Finalizers -> FinPcs] /\ gathered \in [Finalizers -> SUBSET Sources]
      /\ toProbe \in [Finalizers -> SUBSET Sources]
      /\ AwaitInv /\ SpawnInv /\ OrderInv
  BY DEF FinInv, FinTypeInv
<1>1. CASE Materialise(f)
  <2>1. PICK c \in SceneCalls : InCall(f, c) /\ (RunChecksStopped(c) \/ Run(c))
    BY <1>1 DEF Materialise
  <2>2. c \in Calls /\ UNCHANGED <<finPc, toProbe, gathered, spawned>>
    BY <1>1, SceneCallFacts DEF Materialise, sceneVars
  <2>3. /\ UNCHANGED <<steps, worldPc, finalized>>
        /\ \A d \in Calls : d # c => pc'[d] = pc[d] /\ fut'[d] = fut[d]
        /\ fut'[c] = "finished" => fut[c] = "finished"
        /\ pc'[c] = "returned" => fut'[c] = "finished"
    BY <2>1, <2>2, RunFacts, ReturnedMeansFinished
  <2>4. \/ c = FrameCall[f] /\ finPc[f] = "frame_call"
        \/ c = SceneryCall[f] /\ finPc[f] = "scenery_call"
    BY <2>1 DEF InCall
  <2>5. steps = 0
    BY <2>4, NothingStepsYet
  <2>6. AwaitInv'
    <3> SUFFICES ASSUME NEW g \in Finalizers
                 PROVE  /\ finPc[g] # "frame_call" => pc'[FrameCall[g]] \in Over
                        /\ finPc[g] # "scenery_call" => pc'[SceneryCall[g]] \in Over
                        /\ finPc[g] \in {"new", "frame", "frame_call", "gather"}
                              => pc'[SceneryCall[g]] = "idle"
      BY <2>2 DEF AwaitInv
    <3>1. g = f
      BY DEF OneBuild
    <3> QED
      BY <1>0, <2>3, <2>4, <3>1, SceneCallFacts DEF AwaitInv
  <2>7. SpawnInv'
    <3> SUFFICES ASSUME NEW g \in Finalizers
                 PROVE  /\ pc'[SceneryCall[g]] = "returned" => fut'[SceneryCall[g]] = "finished"
                        /\ fut'[SceneryCall[g]] = "finished" => gathered[g] \subseteq spawned
      BY <2>2 DEF SpawnInv
    <3>1. SceneryCall[g] \in Calls
      BY SceneCallFacts
    <3> QED
      BY <1>0, <2>3, <3>1 DEF SpawnInv
  <2>8. OrderInv'
    BY <1>0, <2>2, <2>3, <2>5 DEF OrderInv
  <2> QED
    BY <1>0, <2>2, <2>6, <2>7, <2>8 DEF FinInv, FinTypeInv
<1>2. CASE Probe(f)
  <2>1. /\ finPc[f] = "gather" /\ UNCHANGED <<vars, finPc, spawned>>
        /\ toProbe' \in [Finalizers -> SUBSET Sources]
        /\ gathered' \in [Finalizers -> SUBSET Sources]
        /\ \A g \in Finalizers : g # f => gathered'[g] = gathered[g]
    BY <1>0, <1>2 DEF Probe
  <2>2. UNCHANGED <<pc, fut, steps, worldPc, finalized>>
    BY <2>1 DEF vars, simVars, eventVars, callVars, worldVars
  <2>3. fut[SceneryCall[f]] = "none"
    BY <1>0, <2>1, SceneCallFacts DEF AwaitInv, IInv, CallInv
  <2> QED
    BY <1>0, <2>1, <2>2, <2>3 DEF FinInv, FinTypeInv, AwaitInv, SpawnInv, OrderInv
<1>3. ASSUME NEW p \in FinPcs \ {"new"}, Move(f, p), worldPc = "built",
             UNCHANGED <<toProbe, gathered, spawned, pc, fut, steps, worldPc>>,
             finPc[f] # "done",
             finPc[f] = "frame_call" => pc[FrameCall[f]] \in Over,
             finPc[f] = "scenery_call" => pc[SceneryCall[f]] \in Over,
             p \in {"frame", "frame_call", "gather"}
                => finPc[f] \in {"new", "frame", "frame_call"},
             finalized' => p = "done" \/ finalized
      PROVE  FinInv'
  <2>1. /\ finPc' \in [Finalizers -> FinPcs] /\ finPc'[f] = p
        /\ \A g \in Finalizers : g = f
    BY <1>0, <1>3 DEF Move, OneBuild
  <2>2. FinTypeInv'
    BY <1>0, <1>3, <2>1 DEF FinTypeInv
  <2>3. AwaitInv'
    BY <1>0, <1>3, <2>1 DEF AwaitInv
  <2>4. SpawnInv'
    BY <1>0, <1>3 DEF SpawnInv
  <2>5. ~finalized
    BY <1>0, <1>3 DEF OrderInv
  <2>6. OrderInv'
    BY <1>0, <1>3, <2>1, <2>5 DEF OrderInv
  <2> QED
    BY <2>2, <2>3, <2>4, <2>6 DEF FinInv
<1>4. CASE Finalize(f)
  <2>1. /\ Move(f, "done") /\ worldPc = "built" /\ finPc[f] = "finalize"
        /\ UNCHANGED <<toProbe, gathered, spawned, pc, fut, steps, worldPc>>
    BY <1>4 DEF Finalize, FinalizeScene, simVars, callVars, worldVars
  <2> QED
    BY <1>3, <2>1 DEF FinPcs
<1>5. ASSUME UNCHANGED <<vars, toProbe, gathered, spawned>>
      PROVE  UNCHANGED <<toProbe, gathered, spawned, pc, fut, steps, worldPc, finalized>>
  BY <1>5 DEF vars, simVars, eventVars, callVars, worldVars
<1>6. finPc[f] # "new" => worldPc = "built"
  BY <1>0 DEF OrderInv
<1>7. CASE StartMaterialise(f) \/ ReadFrameSystem(f)
  BY <1>3, <1>5, <1>6, <1>7 DEF StartMaterialise, ReadFrameSystem, FinPcs
<1>8. CASE FrameSystemDone(f) \/ SceneryDone(f)
  BY <1>3, <1>5, <1>6, <1>8 DEF FrameSystemDone, SceneryDone, GiveUp, FinPcs, Over
<1>9. CASE ProbeBadReply(f) \/ GatherExpires(f) \/ Gathered(f)
  BY <1>3, <1>5, <1>6, <1>9 DEF ProbeBadReply, GatherExpires, Gathered, GiveUp, FinPcs
<1> QED
  BY <1>1, <1>2, <1>4, <1>7, <1>8, <1>9 DEF FinalizerThread

\* Everybody else: viam-server and the world, other calls, the app.
LEMMA OthersKeepFinInv ==
    ASSUME OneBuild, IInv, FinInv, SceneEnvironment
    PROVE  FinInv'
<1>0. UNCHANGED <<finPc, toProbe, gathered, spawned>>
  BY DEF SceneEnvironment, sceneVars
<1>1. CASE RequestStop \/ AppDies
  <2>1. UNCHANGED <<pc, fut, steps, worldPc, finalized>>
    BY <1>1 DEF RequestStop, AppDies, simVars, callVars, worldVars
  <2> QED
    BY <1>0, <2>1 DEF FinInv, FinTypeInv, AwaitInv, SpawnInv, OrderInv
<1>2. ASSUME NEW c \in Calls \ SceneCalls, RunChecksStopped(c) \/ Run(c) \/ RunInline(c)
      PROVE  FinInv'
  <2>1. /\ UNCHANGED <<steps, worldPc, finalized>>
        /\ \A d \in SceneCalls : pc'[d] = pc[d] /\ fut'[d] = fut[d]
    BY <1>2, RunFacts, SceneCallFacts
  <2> QED
    BY <1>0, <2>1, SceneCallFacts DEF FinInv, FinTypeInv, AwaitInv, SpawnInv, OrderInv
<1>3. CASE EnsureBootedChecks \/ EnsureBooted
  <2>1. UNCHANGED <<pc, fut, steps>>
    BY <1>3 DEF EnsureBootedChecks, EnsureBooted, EnsureBootedArms, EnsureBootedReturns,
       EnsureBootedExpires, simVars, callVars
  <2>2. worldPc = "built" => worldPc' = "built" /\ UNCHANGED finalized
    BY <1>3 DEF EnsureBootedChecks, EnsureBooted, EnsureBootedArms, EnsureBootedReturns,
       EnsureBootedExpires, eventVars, IInv, WorldInv
  <2>3. ASSUME worldPc # "built", worldPc' = "built"
        PROVE  ~finalized'
    <3>1. booted /\ UNCHANGED finalized
      BY <1>3, <2>3 DEF EnsureBootedChecks, EnsureBooted, EnsureBootedArms, EnsureBootedReturns,
         EnsureBootedExpires, eventVars
    <3>2. ~finalized
      BY <2>3, <3>1 DEF OneBuild, IInv, WorldInv, SceneInv
    <3> QED
      BY <3>1, <3>2
  <2>4. OrderInv'
    BY <1>0, <2>1, <2>2, <2>3 DEF FinInv, OrderInv
  <2> QED
    BY <1>0, <2>1, <2>4 DEF FinInv, FinTypeInv, AwaitInv, SpawnInv
<1> QED
  BY <1>1, <1>2, <1>3 DEF SceneEnvironment

\* FinInv is kept by every step.
LEMMA FinStep == OneBuild /\ IInv /\ FinInv /\ [SceneNext]_sceneAll => FinInv'
<1> SUFFICES ASSUME OneBuild, IInv, FinInv, [SceneNext]_sceneAll PROVE FinInv'
  OBVIOUS
<1>1. CASE UNCHANGED sceneAll \/ SceneTerminated
  <2>1. UNCHANGED <<pc, fut, steps, worldPc, finalized, finPc, toProbe, gathered, spawned>>
    BY <1>1 DEF SceneTerminated, sceneAll, sceneVars, vars, simVars, eventVars, callVars, worldVars
  <2> QED
    BY <2>1 DEF FinInv, FinTypeInv, AwaitInv, SpawnInv, OrderInv
<1>2. CASE SceneSim
  BY <1>2, SimThreadKeepsFinInv, TaskEndsKeepsFinInv DEF SceneSim
<1> QED
  BY <1>1, <1>2, FinalizerKeepsFinInv, OthersKeepFinInv DEF SceneNext

-----------------------------------------------------------------------------
\* No step is taken while a materialise task is queued or running, also when its
\* finalizer was told of a timeout, and the scenery of a call that returned is
\* in the stage (materialise() and the finally that finalizes the scene).
THEOREM SceneryComesFirst == OneBuild => (SceneSpec => []SceneryPrecedesSteps)
<1> SUFFICES ASSUME OneBuild PROVE SceneSpec => []SceneryPrecedesSteps
  OBVIOUS
<1>1. FinInv /\ IInv => SceneryPrecedesSteps
  <2> SUFFICES ASSUME FinInv, IInv, steps > 0, NEW f \in Finalizers
               PROVE  /\ pc[SceneryCall[f]] = "returned" => gathered[f] \subseteq spawned
                      /\ finPc[f] # "scenery_call"
                      /\ fut[FrameCall[f]] \notin {"pending", "running"}
                      /\ fut[SceneryCall[f]] \notin {"pending", "running"}
    BY DEF SceneryPrecedesSteps
  <2>1. finPc[f] # "scenery_call"
    BY NothingStepsYet DEF IInv, TypeOK
  <2>2. steps # 0
    BY DEF IInv, TypeOK
  <2>3. fut[FrameCall[f]] \notin Open /\ fut[SceneryCall[f]] \notin Open
    BY <2>2, SceneCallFacts DEF FinInv, OrderInv
  <2> QED
    BY <2>1, <2>3 DEF FinInv, SpawnInv, Open
<1>2. SceneSpec => []FinInv
  BY InitFinInv, FinStep, SceneIsASimManager, PTL DEF SceneSpec, sceneAll
<1> QED
  BY <1>1, <1>2, SceneIsASimManager, PTL
=============================================================================
