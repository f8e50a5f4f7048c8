----------------------------- MODULE SimManager -----------------------------
(***************************************************************************)
(* SimManager (src/isaac_module/sim_manager.py): one process, one thread   *)
(* that may touch Kit (the sim thread), and any number of module threads   *)
(* that marshal calls onto it through a queue of (task, Future) pairs.     *)
(*                                                                         *)
(* The sim thread waits for a boot request, boots, then alternates between *)
(* draining the queue and stepping the world.  The world component boots   *)
(* it through ensure_booted, a scene-finalizer releases stepping, and a    *)
(* call made before the warm-up steps are over is refused unless it opted  *)
(* out of that gate.                                                       *)
(*                                                                         *)
(* A member of Calls is ONE invocation of run().  A module thread blocks   *)
(* inside run() until it returns, so overlapping invocations are           *)
(* overlapping threads and no thread needs a name of its own.              *)
(*                                                                         *)
(* Time is abstracted: a timeout may expire at any moment at which the     *)
(* thing it bounds has not happened yet.                                   *)
(***************************************************************************)
EXTENDS Integers, Sequences, FiniteSets

CONSTANTS
    Calls,              \* the invocations of run() a behaviour may contain
    NoCall,             \* "the sim thread is not inside a task"
    Mock,               \* SimConfig.mock: no Kit app that could die
    WaitForFinalizer,   \* SimConfig.wait_for_finalizer: the scene gate
    Warmup,             \* POST_FINALIZER_WARMUP_STEPS
    MaxBootAttempts     \* bound: how often the world component is (re)configured

ASSUME SimAssumption ==
    /\ NoCall \notin Calls
    /\ Mock \in BOOLEAN
    /\ WaitForFinalizer \in BOOLEAN
    /\ Warmup \in Nat \ {0}
    /\ MaxBootAttempts \in Nat \ {0}

VARIABLES
    \* the sim thread
    simPc,          \* where main_loop is
    drainRet,       \* where _drain_tasks returns to
    current,        \* the call whose task is executing
    steps,          \* world steps completed, counted up to Warmup (history)
    \* events and flags shared between the threads
    bootRequested, booted, finalized, ready, stop, stopped,
    bootError,      \* _boot_error: "none", "boot" or "app"
    warmupSteps,    \* _warmup_steps_completed
    appRunning,     \* the Kit app's is_running()
    \* run()
    tasks,          \* the queue, a sequence of calls
    pc,             \* where each call is, or how it ended
    kind,           \* what each call is: decides which checks it meets
    fut,            \* the state of each call's Future
    execs,          \* how often each call's task was executed (history)
    \* the world component's reconfigure
    worldPc, attempts

simVars   == <<simPc, drainRet, current, steps>>
eventVars == <<bootRequested, booted, finalized, ready, stop, stopped,
               bootError, warmupSteps, appRunning>>
callVars  == <<tasks, pc, kind, fut, execs>>
worldVars == <<worldPc, attempts>>
vars      == <<simVars, eventVars, callVars, worldVars>>

-----------------------------------------------------------------------------
SimPcs    == {"await_boot", "booting", "boot_failed", "loop", "drain", "exec",
              "gate_poll", "step", "closing", "exiting", "stopped"}
DrainRets == {"await_boot", "gate_poll", "step"}

\* How run() can end: a result, the task's own exception, SimTimeoutError,
\* SimNotBootedError and SimInitializingError.
Outcomes  == {"returned", "raised", "timeout", "not_booted", "initializing"}
CallPcs   == {"idle", "checked", "gated", "waiting", "expired"} \cup Outcomes

\* "factory": create_*, which passes _require_booted and opts out of the gate.
\* "ungated": materialise_* and a handle's stop verb, which opt out.  "op":
\* every other call of a handle.
Kinds     == {"factory", "ungated", "op"}
FutStates == {"none", "pending", "running", "finished", "failed", "cancelled"}
Settled   == {"finished", "failed", "cancelled"}
WorldPcs  == {"new", "arming", "waiting", "built", "refused"}

-----------------------------------------------------------------------------
Init ==
    /\ simPc = "await_boot"
    /\ drainRet = "await_boot"
    /\ current = NoCall
    /\ steps = 0
    /\ bootRequested = FALSE
    /\ booted = FALSE
    /\ finalized = TRUE
    /\ ready = TRUE
    /\ stop = FALSE
    /\ stopped = FALSE
    /\ bootError = "none"
    /\ warmupSteps = 0
    /\ appRunning = TRUE
    /\ tasks = <<>>
    /\ pc = [c \in Calls |-> "idle"]
    /\ kind = [c \in Calls |-> "op"]
    /\ fut = [c \in Calls |-> "none"]
    /\ execs = [c \in Calls |-> 0]
    /\ worldPc = "new"
    /\ attempts = 0

-----------------------------------------------------------------------------
(***************************************************************************)
(* The sim thread: main_loop, _step_loop, _drain_tasks.                    *)
(***************************************************************************)
GoTo(p) == simPc' = p /\ UNCHANGED <<drainRet, current, steps>>

DrainThen(p) ==
    /\ simPc' = "drain"
    /\ drainRet' = p
    /\ UNCHANGED <<current, steps>>

\* One turn of `while not stop and not boot_requested.wait(0.1): drain`.
AwaitBoot ==
    /\ simPc = "await_boot"
    /\ \/ stop /\ GoTo("exiting")
       \/ ~stop /\ bootRequested /\ GoTo("booting")
       \/ ~stop /\ ~bootRequested /\ DrainThen("await_boot")
    /\ UNCHANGED <<eventVars, callVars, worldVars>>

BootSucceeds ==
    /\ simPc = "booting"
    /\ GoTo("loop")
    /\ booted' = TRUE
    /\ UNCHANGED <<bootRequested, finalized, ready, stop, stopped, bootError,
                   warmupSteps, appRunning, callVars, worldVars>>

\* The except branch records the error first and sets _booted after it.
BootFails ==
    /\ simPc = "booting"
    /\ GoTo("boot_failed")
    /\ bootError' = "boot"
    /\ UNCHANGED <<bootRequested, booted, finalized, ready, stop, stopped,
                   warmupSteps, appRunning, callVars, worldVars>>

BootFailureSignalled ==
    /\ simPc = "boot_failed"
    /\ GoTo("exiting")
    /\ booted' = TRUE
    /\ UNCHANGED <<bootRequested, finalized, ready, stop, stopped, bootError,
                   warmupSteps, appRunning, callVars, worldVars>>

LoopMayRun == ~stop /\ (Mock \/ appRunning)

\* The while condition of _step_loop fails; an app that died on its own is
\* recorded as an error.
LeaveLoop ==
    /\ simPc = "loop"
    /\ ~LoopMayRun
    /\ GoTo("closing")
    /\ bootError' = IF ~Mock /\ ~stop THEN "app" ELSE bootError
    /\ UNCHANGED <<bootRequested, booted, finalized, ready, stop, stopped,
                   warmupSteps, appRunning, callVars, worldVars>>

\* One turn of _step_loop: behind the closed gate it drains and polls, past
\* it it drains and steps.
TurnOfLoop ==
    /\ simPc = "loop"
    /\ LoopMayRun
    /\ DrainThen(IF finalized THEN "step" ELSE "gate_poll")
    /\ UNCHANGED <<eventVars, callVars, worldVars>>

\* Seeded fault: the gate waits for the event without a poll timeout.
GatePollWaitsForever ==
    /\ simPc = "gate_poll"
    /\ finalized
    /\ GoTo("loop")
    /\ UNCHANGED <<eventVars, callVars, worldVars>>

\* _scene_finalized.wait(SCENE_GATE_POLL_S) returns, set or not.
GatePoll ==
    /\ simPc = "gate_poll"
    /\ GoTo("loop")
    /\ UNCHANGED <<eventVars, callVars, worldVars>>

DrainEmpty ==
    /\ simPc = "drain"
    /\ tasks = <<>>
    /\ GoTo(drainRet)
    /\ UNCHANGED <<eventVars, callVars, worldVars>>

\* set_running_or_notify_cancel() is false: the task is dropped.
DrainCancelled ==
    /\ simPc = "drain"
    /\ tasks # <<>>
    /\ fut[Head(tasks)] = "cancelled"
    /\ tasks' = Tail(tasks)
    /\ UNCHANGED <<simVars, eventVars, pc, kind, fut, execs, worldVars>>

\* Seeded fault: the task is looked at but not taken off the queue.
DrainStartPeeks ==
    /\ simPc = "drain"
    /\ tasks # <<>>
    /\ fut[Head(tasks)] # "cancelled"
    /\ simPc' = "exec"
    /\ current' = Head(tasks)
    /\ fut' = [fut EXCEPT ![Head(tasks)] = "running"]
    /\ execs' = [execs EXCEPT ![Head(tasks)] = @ + 1]
    /\ UNCHANGED <<drainRet, steps, eventVars, tasks, pc, kind, worldVars>>

DrainStart ==
    /\ simPc = "drain"
    /\ tasks # <<>>
    /\ fut[Head(tasks)] # "cancelled"
    /\ simPc' = "exec"
    /\ current' = Head(tasks)
    /\ tasks' = Tail(tasks)
    /\ fut' = [fut EXCEPT ![Head(tasks)] = "running"]
    /\ execs' = [execs EXCEPT ![Head(tasks)] = @ + 1]
    /\ UNCHANGED <<drainRet, steps, eventVars, pc, kind, worldVars>>

\* The task returns or raises, whatever it raises.
ExecEnds ==
    /\ simPc = "exec"
    /\ \E r \in {"finished", "failed"} : fut' = [fut EXCEPT ![current] = r]
    /\ simPc' = "drain"
    /\ current' = NoCall
    /\ UNCHANGED <<drainRet, steps, eventVars, tasks, pc, kind, execs, worldVars>>

\* run() called by the executing task itself: on the sim thread the task is
\* called in place, past the gate, without a Future.
RunInline(c) ==
    /\ simPc = "exec"
    /\ pc[c] = "idle"
    /\ ~stopped
    /\ \E r \in {"returned", "raised"} : pc' = [pc EXCEPT ![c] = r]
    /\ execs' = [execs EXCEPT ![c] = @ + 1]
    /\ UNCHANGED <<simVars, eventVars, tasks, kind, fut, worldVars>>

\* Seeded fault: the warm-up starts over with every step.
StepEndsStartsOver ==
    /\ simPc = "step"
    /\ simPc' = "loop"
    /\ steps' = IF steps < Warmup THEN steps + 1 ELSE steps
    /\ IF ready
         THEN UNCHANGED <<warmupSteps, ready>>
         ELSE /\ warmupSteps' = 1
              /\ ready' = (1 >= Warmup)
    /\ UNCHANGED <<drainRet, current, bootRequested, booted, finalized, stop,
                   stopped, bootError, appRunning, callVars, worldVars>>

\* A world step completes, then the warm-up bookkeeping of _step_loop.
StepEnds ==
    /\ simPc = "step"
    /\ simPc' = "loop"
    /\ steps' = IF steps < Warmup THEN steps + 1 ELSE steps
    /\ IF ready
         THEN UNCHANGED <<warmupSteps, ready>>
         ELSE /\ warmupSteps' = warmupSteps + 1
              /\ ready' = (warmupSteps + 1 >= Warmup)
    /\ UNCHANGED <<drainRet, current, bootRequested, booted, finalized, stop,
                   stopped, bootError, appRunning, callVars, worldVars>>

\* Nothing catches what a step callback or world.step raises: main_loop
\* unwinds through its finally.
StepRaises ==
    /\ simPc = "step"
    /\ GoTo("exiting")
    /\ UNCHANGED <<eventVars, callVars, worldVars>>

CloseApp ==
    /\ simPc = "closing"
    /\ GoTo("exiting")
    /\ UNCHANGED <<eventVars, callVars, worldVars>>

\* The finally of main_loop.
MainLoopReturns ==
    /\ simPc = "exiting"
    /\ GoTo("stopped")
    /\ stopped' = TRUE
    /\ UNCHANGED <<bootRequested, booted, finalized, ready, stop, bootError,
                   warmupSteps, appRunning, callVars, worldVars>>

SimThread ==
    \/ AwaitBoot \/ BootSucceeds \/ BootFails \/ BootFailureSignalled
    \/ LeaveLoop \/ TurnOfLoop \/ GatePoll
    \/ DrainEmpty \/ DrainCancelled \/ DrainStart \/ ExecEnds
    \/ StepEnds \/ StepRaises \/ CloseApp \/ MainLoopReturns

-----------------------------------------------------------------------------
(***************************************************************************)
(* run(), on a module thread.                                              *)
(*                                                                         *)
(* Only components call run(), and viam-server builds a component after    *)
(* the world it depends on.  An operational call needs a handle, and       *)
(* handles exist only after a boot that worked.                            *)
(***************************************************************************)
RunChecksStopped(c) ==
    /\ pc[c] = "idle"
    /\ worldPc = "built"
    /\ \E k \in Kinds :
         /\ k = "op" => bootError # "boot"
         /\ kind' = [kind EXCEPT ![c] = k]
         /\ pc' = [pc EXCEPT ![c] =
                IF stopped \/ (k = "factory" /\ bootError # "none")
                  THEN "not_booted" ELSE "checked"]
    /\ UNCHANGED <<simVars, eventVars, tasks, fut, execs, worldVars>>

\* Seeded fault: an operational call skips the gate as a factory does.
RunSkipsReady(c) ==
    /\ pc[c] = "checked"
    /\ pc' = [pc EXCEPT ![c] = "gated"]
    /\ UNCHANGED <<simVars, eventVars, tasks, kind, fut, execs, worldVars>>

\* require_ready(), for a call that does not opt out of it.
RunChecksReady(c) ==
    /\ pc[c] = "checked"
    /\ pc' = [pc EXCEPT ![c] =
           IF kind[c] = "op" /\ ~ready THEN "initializing" ELSE "gated"]
    /\ UNCHANGED <<simVars, eventVars, tasks, kind, fut, execs, worldVars>>

RunPuts(c) ==
    /\ pc[c] = "gated"
    /\ pc' = [pc EXCEPT ![c] = "waiting"]
    /\ fut' = [fut EXCEPT ![c] = "pending"]
    /\ tasks' = Append(tasks, c)
    /\ UNCHANGED <<simVars, eventVars, kind, execs, worldVars>>

RunReturns(c) ==
    /\ pc[c] = "waiting"
    /\ \/ fut[c] = "finished" /\ pc' = [pc EXCEPT ![c] = "returned"]
       \/ fut[c] = "failed"   /\ pc' = [pc EXCEPT ![c] = "raised"]
    /\ UNCHANGED <<simVars, eventVars, tasks, kind, fut, execs, worldVars>>

\* Seeded fault: the timeout only counts once the task has started.
RunExpiresOnceStarted(c) ==
    /\ pc[c] = "waiting"
    /\ fut[c] = "running"
    /\ pc' = [pc EXCEPT ![c] = "expired"]
    /\ UNCHANGED <<simVars, eventVars, tasks, kind, fut, execs, worldVars>>

\* fut.result(timeout) gives up on a Future that is not settled.
RunExpires(c) ==
    /\ pc[c] = "waiting"
    /\ fut[c] \notin Settled
    /\ pc' = [pc EXCEPT ![c] = "expired"]
    /\ UNCHANGED <<simVars, eventVars, tasks, kind, fut, execs, worldVars>>

\* Seeded fault: a Future is cancelled although its task has started.
RunCancelsStarted(c) ==
    /\ pc[c] = "expired"
    /\ pc' = [pc EXCEPT ![c] = "timeout"]
    /\ fut' = [fut EXCEPT ![c] = "cancelled"]
    /\ UNCHANGED <<simVars, eventVars, tasks, kind, execs, worldVars>>

\* fut.cancel() succeeds only on a Future that has not started.
RunCancels(c) ==
    /\ pc[c] = "expired"
    /\ pc' = [pc EXCEPT ![c] = "timeout"]
    /\ fut' = [fut EXCEPT ![c] = IF @ = "pending" THEN "cancelled" ELSE @]
    /\ UNCHANGED <<simVars, eventVars, tasks, kind, execs, worldVars>>

Run(c) ==
    \/ RunChecksReady(c) \/ RunPuts(c)
    \/ RunReturns(c) \/ RunExpires(c) \/ RunCancels(c)

-----------------------------------------------------------------------------
(***************************************************************************)
(* ensure_booted, called by the world component's reconfigure.  When it    *)
(* raises, viam-server configures the world again.                         *)
(***************************************************************************)
EnsureBootedChecks ==
    /\ worldPc \in {"new", "refused", "built"}
    /\ attempts < MaxBootAttempts
    /\ attempts' = attempts + 1
    /\ worldPc' = IF booted THEN "built"
                  ELSE IF bootError # "none" THEN "refused" ELSE "arming"
    /\ UNCHANGED <<simVars, eventVars, callVars>>

EnsureBootedArms ==
    /\ worldPc = "arming"
    /\ worldPc' = "waiting"
    /\ finalized' = ~WaitForFinalizer
    /\ ready' = ~WaitForFinalizer
    /\ bootRequested' = TRUE
    /\ UNCHANGED <<simVars, booted, stop, stopped, bootError, warmupSteps,
                   appRunning, callVars, attempts>>

EnsureBootedReturns ==
    /\ worldPc = "waiting"
    /\ booted
    /\ worldPc' = IF bootError # "none" THEN "refused" ELSE "built"
    /\ UNCHANGED <<simVars, eventVars, callVars, attempts>>

EnsureBootedExpires ==
    /\ worldPc = "waiting"
    /\ ~booted
    /\ worldPc' = "refused"
    /\ UNCHANGED <<simVars, eventVars, callVars, attempts>>

EnsureBooted ==
    EnsureBootedArms \/ EnsureBootedReturns \/ EnsureBootedExpires

-----------------------------------------------------------------------------
(***************************************************************************)
(* The rest of the process.                                                *)
(***************************************************************************)
\* finalize_scene(), by the scene-finalizer, which depends on the world.
FinalizeScene ==
    /\ worldPc = "built"
    /\ finalized' = TRUE
    /\ UNCHANGED <<simVars, bootRequested, booted, ready, stop, stopped,
                   bootError, warmupSteps, appRunning, callVars, worldVars>>

\* request_stop(): the module server ended, or a signal handler ran.
RequestStop ==
    /\ stop' = TRUE
    /\ UNCHANGED <<simVars, bootRequested, booted, finalized, ready, stopped,
                   bootError, warmupSteps, appRunning, callVars, worldVars>>

\* A renderer crash, or File->Exit on a remote desktop.
AppDies ==
    /\ ~Mock
    /\ booted
    /\ bootError = "none"
    /\ appRunning' = FALSE
    /\ UNCHANGED <<simVars, bootRequested, booted, finalized, ready, stop,
                   stopped, bootError, warmupSteps, callVars, worldVars>>

\* The process may end once main_loop has returned.
Terminated == simPc = "stopped" /\ UNCHANGED vars

Next ==
    \/ SimThread
    \/ \E c \in Calls : RunChecksStopped(c) \/ Run(c) \/ RunInline(c)
    \/ EnsureBootedChecks \/ EnsureBooted
    \/ FinalizeScene \/ RequestStop \/ AppDies
    \/ Terminated

Spec == Init /\ [][Next]_vars

\* The scheduler runs every thread that can run, tasks and steps end, and
\* timers expire.  Nothing has to call run(), configure the world, finalize
\* the scene or stop the process, and a boot, a step or an app may fail or not.
Fairness ==
    /\ WF_vars(SimThread)
    /\ \A c \in Calls : WF_vars(Run(c))
    /\ WF_vars(EnsureBooted)

FairSpec == Spec /\ Fairness

-----------------------------------------------------------------------------
(***************************************************************************)
(* Properties.                                                             *)
(***************************************************************************)
\* Every variable has its type.
TypeOK ==
    /\ simPc \in SimPcs
    /\ drainRet \in DrainRets
    /\ current \in Calls \cup {NoCall}
    /\ steps \in 0..Warmup
    /\ bootRequested \in BOOLEAN /\ booted \in BOOLEAN
    /\ finalized \in BOOLEAN /\ ready \in BOOLEAN
    /\ stop \in BOOLEAN /\ stopped \in BOOLEAN
    /\ bootError \in {"none", "boot", "app"}
    /\ warmupSteps \in 0..Warmup
    /\ appRunning \in BOOLEAN
    /\ tasks \in Seq(Calls)
    /\ pc \in [Calls -> CallPcs]
    /\ kind \in [Calls -> Kinds]
    /\ fut \in [Calls -> FutStates]
    /\ execs \in [Calls -> Nat]
    /\ worldPc \in WorldPcs
    /\ attempts \in 0..MaxBootAttempts

\* What run() tells its caller is what happened on the sim thread: an answer
\* means the task was executed exactly once, a refusal that it never was, a
\* cancelled Future that it never was, and no task is ever executed twice.
AnswerMatchesEffect == \A c \in Calls :
    /\ execs[c] <= 1
    /\ pc[c] \in {"returned", "raised"} => execs[c] = 1
    /\ pc[c] \in {"not_booted", "initializing"} => execs[c] = 0
    /\ fut[c] = "cancelled" => execs[c] = 0

\* A caller that was told its call timed out does not see the task start
\* afterwards: fut.cancel() and set_running_or_notify_cancel() agree on which
\* of the two came first, although the task is still in the queue.
NoLateStart ==
    [][\A c \in Calls : pc[c] = "timeout" => execs'[c] = execs[c]]_vars

\* While the scene gate is closed no operational call runs on the sim thread,
\* not even one that met the gate earlier and was queued since.
GateHolds == \A c \in Calls :
    fut[c] = "running" /\ kind[c] = "op" => ready

\* With wait_for_finalizer the world never steps before finalize_scene(),
\* whatever retries of ensure_booted race with the boot.
NoStepBeforeScene == WaitForFinalizer /\ steps > 0 => finalized

\* With wait_for_finalizer, once a boot has been requested the sim reports
\* ready only after Warmup world steps of the finalized scene.
ReadyMeansWarm ==
    WaitForFinalizer /\ bootRequested /\ ready => finalized /\ steps >= Warmup

\* Both gates hold, the one of the calls and the one of the world's first
\* steps: no task runs and no step is taken before the scene is ready for it.
SceneGateHolds == GateHolds /\ NoStepBeforeScene /\ ReadyMeansWarm

\* Every call that waits is answered, refused or timed out: neither the gate,
\* a failed boot, a dead app nor the end of main_loop strands a caller.
CallsReturn == \A c \in Calls : pc[c] = "waiting" ~> pc[c] \in Outcomes

\* A requested stop ends main_loop, wherever the sim thread is: waiting for a
\* boot, polling the gate, draining or stepping.
StopEndsMainLoop == stop ~> stopped

\* A finalized scene becomes ready, unless the sim thread leaves its loop.
SceneBecomesReady ==
    worldPc = "built" /\ finalized ~>
        ready \/ simPc \in {"boot_failed", "closing", "exiting", "stopped"}

\* The abstract view of a call: a task without a Future was run inline or not
\* at all.
AbstractTask(c) ==
    CASE fut[c] = "none" /\ execs[c] = 0    -> "none"
      [] fut[c] = "pending"                 -> "submitted"
      [] fut[c] = "running"                 -> "running"
      [] fut[c] = "cancelled"               -> "withdrawn"
      [] OTHER                              -> "done"

AbstractAnswer(c) ==
    CASE pc[c] \in {"returned", "raised"}         -> "kept"
      [] pc[c] = "timeout"                        -> "timeout"
      [] pc[c] \in {"not_booted", "initializing"} -> "refused"
      [] OTHER                                    -> "open"

Abstract == INSTANCE MarshalledCalls WITH
    task <- [c \in Calls |-> AbstractTask(c)],
    answer <- [c \in Calls |-> AbstractAnswer(c)]

\* run() is a marshalled call: whatever the queue, the gate, the boot and the
\* timeouts do, this module implements MarshalledCalls.
ImplementsMarshalledCalls == Abstract!Spec

(***************************************************************************)
(* What the source says of itself and the code does not do.                *)
(***************************************************************************)
\* sim_manager.py:630: a world configured again after a failed boot is told
\* "Isaac Sim failed to boot previously".
FailedBootIsReported == worldPc = "built" => bootError # "boot"
=============================================================================
