------------------------------- MODULE Vacuum -------------------------------
(***************************************************************************)
(* The vacuum gripper: the component (models/vacuum.py), its handle and    *)
(* the coaxial monitor (handles/vacuum.py, surface_gripper.py), driven by  *)
(* one client that issues one call after another.                          *)
(*                                                                         *)
(* A call writes fields of the handle on a worker thread and then waits    *)
(* for a task of the sim thread; the monitor runs on the sim thread at     *)
(* every physics step; Isaac's surface gripper, which is external, tries   *)
(* for a while to take what is under the cups and drops it under shear.    *)
(* Poses are left out: a step reads the load on the most loaded cup.       *)
(***************************************************************************)
EXTENDS Integers, Sequences, SequencesExt, FiniteSets

CONSTANTS
    Boxes,          \* what may be under the cups
    NoBox,
    Loads,          \* the loads of one step
    Limit,          \* coaxial_force_limit_n; 0 turns the monitor off
    Steps,          \* LoadWindow.steps
    MaxCalls,       \* how many calls the client makes
    MaxShocks       \* how often the world is reset or another box comes under
                    \* the cups

\* A load that cannot be read: no dimensions are registered for what is held,
\* or no cup is over its face.
NoLoad == -1

ASSUME VacuumAssumption ==
    /\ NoBox \notin Boxes
    /\ Loads \subseteq Nat /\ Steps \in Nat \ {0}
    /\ {Limit, MaxCalls, MaxShocks} \subseteq Nat

VARIABLES
    \* the surface gripper and what is under it
    status, held, under, load,
    \* the handle
    engaged, rest, samples, peak, released, holdActive, monitor,
    \* the sim thread
    ready,          \* the gate of SimManager.run is open
    queue, hook, watching,
    \* the client
    kind, pc, calls, closed,
    shocks,
    \* history
    own,            \* the loads read of the present hold since the last command
    inherited,      \* the window still has loads from before this hold
    last,           \* the last call that came through: "none", "grab" or "open"
    strayed         \* the hold may not be of the box that was there at the grab

plugin == <<status, held>>
world  == <<under, load, shocks>>
handle == <<engaged, rest, samples, peak, released, holdActive, monitor>>
sim    == <<ready, queue, hook, watching>>
client == <<kind, pc, calls, closed>>
history == <<own, inherited, last, strayed>>
vars == <<plugin, world, handle, sim, client, history>>

Shock == shocks < MaxShocks /\ shocks' = shocks + 1
Kinds == {"grab", "engage", "open", "stop"}
Closes == kind \in {"grab", "engage"}

Init ==
    /\ status = "Open" /\ held = NoBox /\ under \in Boxes \cup {NoBox} /\ load = 0 /\ shocks = 0
    /\ engaged = FALSE /\ rest = NoBox /\ samples = <<>> /\ peak = 0 /\ released = NoLoad
    /\ holdActive = FALSE /\ monitor = IF Limit = 0 THEN "off" ELSE "idle"
    /\ ready = FALSE /\ queue = <<>> /\ hook = TRUE /\ watching = TRUE
    /\ kind = "none" /\ pc = "idle" /\ calls = 0 /\ closed = FALSE
    /\ own = <<>> /\ inherited = FALSE /\ last = "none" /\ strayed = FALSE

-----------------------------------------------------------------------------
(***************************************************************************)
(* LoadWindow.                                                             *)
(***************************************************************************)
Total(s)  == FoldSeq(LAMBDA x, y : x + y, 0, s)
Filled(s) == Len(s) >= Steps
Push(s, x) == IF Filled(s) THEN Append(Tail(s), x) ELSE Append(s, x)

\* Seeded fault: the window is judged one sample late.
OverPastFull(s) == Len(s) > Steps /\ Total(s) > Limit * Len(s)

\* The window's mean is past the limit.
Over(s) == Filled(s) /\ Total(s) > Limit * Len(s)

-----------------------------------------------------------------------------
(***************************************************************************)
(* The client's calls: grab, open, stop and go_to_inputs.                  *)
(***************************************************************************)
\* Seeded fault: the window of the last hold is kept.
GrabFieldsKeepWindow ==
    /\ engaged' = TRUE /\ peak' = 0 /\ released' = NoLoad /\ holdActive' = FALSE
    /\ UNCHANGED <<samples, rest, monitor>>

\* The fields a call writes before its task, on its own thread.
GrabFields ==
    /\ engaged' = TRUE /\ peak' = 0 /\ released' = NoLoad
    /\ samples' = <<>> /\ holdActive' = FALSE
    /\ UNCHANGED <<rest, monitor>>

\* Seeded fault: an open leaves the gripper engaged.
OpenFieldsStayEngaged ==
    /\ holdActive' = FALSE /\ samples' = <<>>
    /\ UNCHANGED <<engaged, peak, released, rest, monitor>>

OpenFields ==
    /\ engaged' = FALSE /\ holdActive' = FALSE /\ samples' = <<>>
    /\ UNCHANGED <<peak, released, rest, monitor>>

Call ==
    /\ pc \in {"idle", "refused"} /\ ~closed
    /\ calls < MaxCalls /\ calls' = calls + 1
    /\ kind' \in Kinds
    /\ IF kind' \in {"grab", "engage"} THEN GrabFields ELSE OpenFields
    /\ pc' = "run"
    /\ last' = "none" /\ own' = <<>> /\ inherited' = FALSE
    /\ UNCHANGED <<plugin, world, sim, closed, strayed>>

Task == IF pc = "ask" THEN "status" ELSE IF Closes THEN "close" ELSE "open"

\* SimManager.run: refused while the world initializes, a task otherwise.
Run ==
    /\ pc \in {"run", "ask"}
    /\ IF ready THEN pc' = "wait" /\ queue' = Append(queue, Task)
                ELSE pc' = "refused" /\ UNCHANGED queue
    /\ UNCHANGED <<plugin, world, handle, ready, hook, watching, kind, calls, closed, history>>

\* A task that does not start in time is cancelled and the call raises.
TimesOut ==
    /\ pc = "wait" /\ pc' = "idle"
    /\ \E i \in DOMAIN queue : queue[i] \notin {"reset", "remove"} /\ queue' = RemoveAt(queue, i)
    /\ UNCHANGED <<plugin, world, handle, ready, hook, watching, kind, calls, closed, history>>

\* grab() asks for the hold once its delay has passed, however long the
\* gripper goes on trying.
Asks ==
    /\ pc = "slept" /\ pc' = "ask"
    /\ UNCHANGED <<plugin, world, handle, sim, kind, calls, closed, history>>

Close ==
    /\ ~closed /\ closed' = TRUE
    /\ hook' = FALSE
    /\ queue' = Append(queue, "remove")
    /\ UNCHANGED <<plugin, world, handle, ready, watching, kind, pc, calls, history>>

-----------------------------------------------------------------------------
(***************************************************************************)
(* Tasks of the sim thread.                                                *)
(***************************************************************************)
\* _rest_offsets_before_close: where the face of the box under the cups will
\* be at rest, or the cup plane if there is none it knows or it cannot read it.
RestBeforeClose ==
    IF monitor = "off" THEN {NoBox}
    ELSE {NoBox, under}

\* close_gripper: a gripper that holds something goes on holding it.
CloseGripper ==
    /\ status' = IF status = "Open" THEN "Closing" ELSE status
    /\ UNCHANGED held

CloseTask ==
    /\ \E r \in RestBeforeClose : rest' = r
    /\ CloseGripper
    /\ strayed' = (status = "Closed" /\ (strayed \/ held # under))
    /\ last' = "grab"
    /\ pc' = IF kind = "grab" THEN "slept" ELSE "idle"
    /\ UNCHANGED <<engaged, samples, peak, released, holdActive, monitor, under, own, inherited, watching>>

OpenTask ==
    /\ status' = "Open" /\ held' = NoBox
    /\ last' = "open"
    /\ pc' = "idle"
    /\ UNCHANGED <<handle, under, own, inherited, strayed, watching>>

\* is_holding: Closed with an object.
StatusTask ==
    /\ pc' = "idle"
    /\ UNCHANGED <<plugin, handle, under, history, watching>>

\* world.reset() opens the gripper and puts the props back; post_reset closes
\* a gripper again that was engaged.
PostReset == hook /\ engaged

ResetTask ==
    /\ held' = NoBox
    /\ under' \in Boxes \cup {NoBox}
    /\ status' = IF PostReset THEN "Closing" ELSE "Open"
    /\ strayed' = TRUE
    /\ UNCHANGED <<handle, pc, own, inherited, last, watching>>

RemoveTask ==
    /\ watching' = FALSE
    /\ UNCHANGED <<plugin, handle, under, pc, history>>

RunTask ==
    /\ queue # <<>> /\ queue' = Tail(queue)
    /\ \/ Head(queue) = "close"  /\ CloseTask
       \/ Head(queue) = "open"   /\ OpenTask
       \/ Head(queue) = "status" /\ StatusTask
       \/ Head(queue) = "reset"  /\ ResetTask
       \/ Head(queue) = "remove" /\ RemoveTask
    /\ UNCHANGED <<load, shocks, ready, hook, kind, calls, closed>>

-----------------------------------------------------------------------------
(***************************************************************************)
(* A physics step.                                                         *)
(***************************************************************************)
Readable == held # NoBox /\ load # NoLoad

\* Nothing is held, or something whose load the monitor cannot read.
Unwatched ==
    /\ ~Readable
    /\ holdActive' = (holdActive /\ held # NoBox)
    /\ monitor' = "idle" /\ samples' = <<>>
    /\ UNCHANGED <<peak, released, plugin, own>>

\* A load is read; past the limit over a whole window the gripper is opened.
Watched ==
    LET s == Push(samples, load) IN
    /\ Readable
    /\ peak' = IF load > peak THEN load ELSE peak
    /\ own' = Push(own, load)
    /\ IF Over(s)
         THEN /\ status' = "Open" /\ held' = NoBox
              /\ released' = Total(s)
              /\ samples' = <<>> /\ holdActive' = FALSE /\ monitor' = "idle"
         ELSE /\ samples' = s /\ holdActive' = TRUE
              /\ monitor' = IF holdActive THEN monitor ELSE "armed"
              /\ UNCHANGED <<plugin, released>>

\* _on_physics_step.  Tasks come first.
PhysicsStep ==
    /\ queue = <<>>
    /\ IF watching /\ monitor \notin {"off", "stopped"}
         THEN Unwatched \/ Watched
         ELSE UNCHANGED <<plugin, samples, peak, released, holdActive, monitor, own>>
    /\ inherited' = (inherited /\ samples' # <<>>)
    /\ UNCHANGED <<engaged, rest, world, sim, client, last, strayed>>

\* A pose that cannot be read stops the monitor for good.
Raises ==
    /\ watching /\ monitor \notin {"off", "stopped"} /\ held # NoBox
    /\ monitor' = "stopped"
    /\ UNCHANGED <<plugin, world, engaged, rest, samples, peak, released, holdActive,
                   sim, client, history>>

-----------------------------------------------------------------------------
(***************************************************************************)
(* The surface gripper, the arm and the boxes, and the world.              *)
(***************************************************************************)
\* A hold begins.  The monitor may not have looked since an earlier one.
Catches ==
    /\ status = "Closing" /\ under # NoBox
    /\ status' = "Closed" /\ held' = under
    /\ own' = <<>> /\ inherited' = (samples # <<>>)
    /\ UNCHANGED <<world, handle, sim, client, last, strayed>>

GivesUp ==
    /\ status = "Closing" /\ status' = "Open"
    /\ UNCHANGED <<held, world, handle, sim, client, history>>

Shears ==
    /\ status = "Closed" /\ status' = "Open" /\ held' = NoBox
    /\ UNCHANGED <<world, handle, sim, client, history>>

\* The arm carries the cups over another box, or away from all.
Moves ==
    /\ Shock
    /\ under' \in (Boxes \cup {NoBox}) \ {under}
    /\ strayed' = (strayed \/ status = "Closing")
    /\ UNCHANGED <<plugin, load, handle, sim, client, own, inherited, last>>

Pulls ==
    /\ status = "Closed"
    /\ load' \in (Loads \cup {NoLoad}) \ {load}
    /\ UNCHANGED <<plugin, under, shocks, handle, sim, client, history>>

BecomesReady ==
    /\ ~ready /\ ready' = TRUE
    /\ UNCHANGED <<plugin, world, handle, queue, hook, watching, client, history>>

Reset ==
    /\ ready /\ Shock
    /\ queue' = Append(queue, "reset")
    /\ UNCHANGED <<plugin, under, load, handle, ready, hook, watching, client, history>>

Next ==
    \/ Call \/ Run \/ TimesOut \/ Asks
    \/ Close \/ RunTask \/ PhysicsStep \/ Raises
    \/ Catches \/ GivesUp \/ Shears \/ Moves \/ Pulls \/ BecomesReady \/ Reset

Spec == Init /\ [][Next]_vars

\* The world steps and its thread executes what is queued.
FairSpec == Spec /\ WF_vars(RunTask) /\ WF_vars(PhysicsStep)

-----------------------------------------------------------------------------
\* The monitor opens the gripper only for what it has read of the present hold,
\* over a whole window since the last command.  A hold that began before the
\* monitor had seen the one before it end, as a world reset brings about, may
\* be judged by loads of that one, but only until its own fill the window.
ReleasedForItsOwnLoad ==
    [][released' \notin {released, NoLoad} =>
          /\ held # NoBox
          /\ Over(own') \/ (inherited /\ Len(own') < Steps)]_vars

\* A load that stays past the limit is let go, however it came about, unless a
\* pose could not be read: no hold of a readable box pulls on for ever.
OverloadIsReleased ==
    []<>(~Readable \/ load <= Limit \/ ~watching \/ monitor = "stopped")

\* After an open that came through nothing is held and nothing is about to be,
\* whatever is reset and however long an earlier grab would have gone on.
OpenedHoldsNothing == last = "open" => status = "Open"

\* The stretch of a hold is measured from where the face of that box was at
\* rest, unless the box changed while the gripper was still trying.
RestIsOfTheHold == held # NoBox /\ last = "grab" /\ ~strayed => rest \in {held, NoBox}

\* What the client may conclude of its last command is so: an open holds
\* nothing, and a hold is measured from the box it is of.
HoldIsAccountedFor == OpenedHoldsNothing /\ RestIsOfTheHold

(***************************************************************************)
(* What the source says of itself and the code does not do.                *)
(***************************************************************************)
\* A stop is never turned away.
StopAlwaysWorks == kind = "stop" => pc # "refused"

\* surface_gripper.py:184-186: "mean_n is 0 until the window has filled once,
\* so a hold cannot be released on its first samples".
HoldsFillTheirWindow ==
    [][released' \notin {released, NoLoad} => Over(own')]_vars
=============================================================================
