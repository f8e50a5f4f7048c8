---------------------------- MODULE ModuleProcess ----------------------------
(***************************************************************************)
(* The module process (src/main.py): SimManager.main_loop on the main      *)
(* thread, the module server on a daemon thread, and the signal handler    *)
(* that ends both.  Python runs a signal handler on the main thread, which *)
(* is the sim thread: while _shutdown waits for the module thread, the sim *)
(* thread neither drains nor steps.                                        *)
(*                                                                         *)
(* Two things block the module thread's event loop: the world component's  *)
(* ensure_booted, and a close() that marshals its release onto the sim     *)
(* thread.  Module.stop() runs on that loop, so it waits for both.         *)
(***************************************************************************)
EXTENDS SimManager

CONSTANT Closer     \* the call a component's close() makes on the module loop

ASSUME ProcessAssumption == Closer \in Calls

VARIABLES
    modPc,      \* the module thread: "starting", "serving", "stopping", "ended"
    sigPc       \* the signal handler on the main thread: "none", "joining", "done"

procVars == <<modPc, sigPc>>

ProcInit ==
    /\ Init
    /\ modPc = "starting"
    /\ sigPc = "none"

LoopBusy ==
    \/ worldPc \in {"arming", "waiting"}
    \/ pc[Closer] \in {"checked", "gated", "waiting", "expired"}

-----------------------------------------------------------------------------
\* The main thread runs main_loop unless it is inside the handler.
MainThread ==
    /\ sigPc # "joining"
    /\ SimThread
    /\ UNCHANGED procVars

\* Nested calls of a task are the main thread's too, and never close()'s.
MainThreadInline ==
    /\ sigPc # "joining"
    /\ \E c \in Calls \ {Closer} : RunInline(c)
    /\ UNCHANGED procVars

\* Module and loop exist: the handler can reach them from now on.
ModuleUp ==
    /\ modPc = "starting"
    /\ modPc' = "serving"
    /\ UNCHANGED <<vars, sigPc>>

\* The module server ends, because it failed or because Module.stop() got its
\* turn on the loop; the finally of _run_module stops the sim.
ModuleExits ==
    /\ \/ modPc \in {"starting", "serving"}
       \/ modPc = "stopping" /\ ~LoopBusy
    /\ modPc' = "ended"
    /\ RequestStop
    /\ UNCHANGED sigPc

\* SIGTERM or SIGINT, wherever the main thread is.  Before the module is up
\* there is nothing to schedule Module.stop() on.
Signal ==
    /\ sigPc = "none"
    /\ simPc # "stopped"
    /\ sigPc' = "joining"
    /\ modPc' = IF modPc = "serving" THEN "stopping" ELSE modPc
    /\ UNCHANGED vars

\* Seeded fault: the handler joins the module thread without a timeout.
JoinWaitsForever ==
    /\ sigPc = "joining"
    /\ modPc = "ended"
    /\ sigPc' = "done"
    /\ RequestStop
    /\ UNCHANGED modPc

\* join(MODULE_STOP_JOIN_TIMEOUT_S) returns, the thread having ended or not.
JoinReturns ==
    /\ sigPc = "joining"
    /\ sigPc' = "done"
    /\ RequestStop
    /\ UNCHANGED modPc

-----------------------------------------------------------------------------
\* The world and the components exist only while the module serves; a close()
\* in flight, or one made by Module.stop(), may still come after the signal.
ModuleThread ==
    \/ /\ modPc = "serving"
       /\ EnsureBootedChecks
       /\ UNCHANGED procVars
    \/ /\ modPc \in {"serving", "stopping"}
       /\ EnsureBooted \/ RunChecksStopped(Closer) \/ Run(Closer)
       /\ UNCHANGED procVars

\* Calls on the worker threads of the loop's executor.
Worker(c) ==
    /\ c # Closer
    /\ \/ modPc \in {"serving", "stopping"} /\ RunChecksStopped(c)
       \/ Run(c)
    /\ UNCHANGED procVars

Environment ==
    /\ FinalizeScene \/ AppDies
    /\ UNCHANGED procVars

ProcTerminated == simPc = "stopped" /\ UNCHANGED <<vars, procVars>>

ProcNext ==
    \/ MainThread \/ MainThreadInline
    \/ ModuleUp \/ ModuleExits \/ ModuleThread
    \/ Signal \/ JoinReturns
    \/ \E c \in Calls : Worker(c)
    \/ Environment
    \/ ProcTerminated

ProcSpec == ProcInit /\ [][ProcNext]_<<vars, procVars>>

\* The main thread runs and the join times out.  The module thread may serve
\* forever or be stuck: shutting down relies on neither.
ProcFairSpec ==
    /\ ProcSpec
    /\ WF_<<vars, procVars>>(MainThread)
    /\ WF_<<vars, procVars>>(JoinReturns)

-----------------------------------------------------------------------------
\* The process ends, whichever of its two threads is told first.  A signal ends
\* main_loop although the handler blocks the thread main_loop runs on, and the
\* module thread may be blocked on that thread in turn; and a module server that
\* ends, with or without a signal, takes the sim with it.
ProcessEnds == []<>(sigPc # "none" \/ modPc = "ended" => stopped)
=============================================================================
