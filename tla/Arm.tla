--------------------------------- MODULE Arm ---------------------------------
(***************************************************************************)
(* One arm: the component (src/isaac_module/models/arm.py), whose moves    *)
(* are coroutines, and its handle (src/isaac_module/handles/arm.py), whose *)
(* methods block a worker thread and act through tasks of the sim thread.  *)
(*                                                                         *)
(* A move has a coroutine (pc) and the worker thread of the handle method  *)
(* it awaits (worker); a dropped RPC ends the coroutine, not the thread.   *)
(* Tasks are executed in the order they were queued, between physics       *)
(* steps.  The joints are one joint: the worst one.  The drive may be      *)
(* held back or pushed back by anything it meets.                          *)
(***************************************************************************)
EXTENDS Integers, Sequences, SequencesExt, FiniteSets

CONSTANTS
    Moves,          \* the move RPCs
    Single,         \* those that are MoveToJointPositions
    Stops,          \* the Stop RPCs
    NoMove,
    Paths,          \* the waypoints each move may ask for
    Reach,          \* the joint turns from 0 to Reach; targets beyond are illegal
    MaxStep,        \* WAYPOINT_MAX_STEP_RAD
    Loose,          \* _WAYPOINT_TOLERANCE_RAD; the last waypoint is tight
    Window,         \* SETTLE_WINDOW_STEPS
    StillSteps,     \* STALL_STILL_STEPS
    ProgressSteps,  \* STALL_NO_PROGRESS_STEPS
    MaxStalls,      \* _MAX_CONSECUTIVE_WAYPOINT_STALLS
    MaxTogether,    \* how many waypoints moves that overlap have together
    MaxIntrusions   \* how many drops, stops, resets, closes and further moves there are

ASSUME ArmAssumption ==
    /\ Single \subseteq Moves /\ NoMove \notin Moves /\ Moves \cap Stops = {}
    /\ \A m \in Moves : \A p \in Paths[m] : p \in Seq(Nat) /\ p # <<>>
    /\ {Reach, MaxStep, Window, StillSteps, ProgressSteps, MaxStalls} \subseteq Nat \ {0}
    /\ {Loose, MaxTogether, MaxIntrusions} \subseteq Nat
    /\ StillSteps <= ProgressSteps + 1

VARIABLES
    \* the joint and what the sim thread holds for it
    pos,
    target,         \* _targets: the last commanded target, -1 before the first
    callback,       \* the move whose wait is the settle callback
    queue,          \* the tasks of the sim thread
    \* the handle
    settle,         \* _active_settle
    \* a move
    path,           \* its densified waypoints
    at,             \* the waypoint in flight
    begun,          \* the one its follow_path began with
    pc, worker,
    aim,            \* the targets its wait is judged against
    track,          \* its _StepTracker
    event,          \* the outcome of its wait, "unset" before there is one
    answer,         \* the outcome its handle method returned
    seen,           \* the point a follow had reached when its guard last ran out
    stalls,         \* consecutive_stalls
    \* the rest
    stopPc, intrusions,
    closed,         \* the component was closed
    \* history
    owner,          \* the move that wrote target last, NoMove for a hold
    alone,          \* no one else has written target since the move began
    stopped,        \* a Stop has ended a wait of the move
    blocked,        \* how many waypoints in a row stalled, up to the last it is done with
    judged,         \* the steps its wait has judged of the waypoint in flight
    arrived         \* it was within tolerance of its last waypoint

simVars  == <<pos, target, callback, queue>>
waitVars == <<aim, track, event, answer, seen>>
moveVars == <<path, at, begun, pc, worker, stalls>>
envVars  == <<stopPc, intrusions, closed>>
history  == <<owner, alone, stopped, blocked, judged, arrived>>
vars == <<simVars, settle, moveVars, waitVars, envVars, history>>

Awaiting == {"set", "wait", "follow"}
Active   == Awaiting \cup {"fail"}
-----------------------------------------------------------------------------
(***************************************************************************)
(* Paths.                                                                  *)
(***************************************************************************)
Distance(a, b) == IF a < b THEN b - a ELSE a - b
Pieces(a, b) == (Distance(a, b) + MaxStep - 1) \div MaxStep

Waypoint(x, inserted) == [pos |-> x, inserted |-> inserted]

\* The points put between two waypoints, and the second of them.
Stretch(a, b) ==
    [k \in 1..(IF Pieces(a, b) = 0 THEN 1 ELSE Pieces(a, b)) |->
        IF k < Pieces(a, b) THEN Waypoint(a + ((b - a) * k) \div Pieces(a, b), TRUE)
                            ELSE Waypoint(b, FALSE)]

\* densify_waypoints.
Densify(p) == <<Waypoint(p[1], FALSE)>> \o
    FlattenSeq([i \in 1..(Len(p) - 1) |-> Stretch(p[i], p[i + 1])])

\* The last point of the run of inserted points that i is in.
RunEnd(p, i) == CHOOSE j \in i..Len(p) :
    /\ \A k \in i..j : p[k].inserted
    /\ j = Len(p) \/ ~p[j + 1].inserted

Final(m) == Len(path[m])
Tolerance(m) == IF at[m] = Final(m) THEN 0 ELSE Loose

-----------------------------------------------------------------------------
(***************************************************************************)
(* _StepTracker.                                                           *)
(***************************************************************************)
Fresh == [within |-> 0, still |-> 0, errors |-> <<>>]

\* The counters after one more step that ends at x, with the arm still or not.
Counted(t, x, aimed, tolerance, still) ==
    LET error  == Distance(x, aimed)
        errors == Append(t.errors, error)
    IN  [within |-> IF error <= tolerance THEN t.within + 1 ELSE 0,
         still  |-> IF still /\ error > tolerance THEN t.still + 1 ELSE 0,
         errors |-> IF Len(errors) > ProgressSteps + 1 THEN Tail(errors) ELSE errors]

NoProgress(t, closing) ==
    /\ Len(t.errors) > ProgressSteps
    /\ t.errors[Len(t.errors)] >= t.errors[1]
    /\ ~closing

\* What a wait may be told after a step.  The deadline is far more steps than
\* the stall rules look back on; once they have seen that many, it may pass at
\* any step that decides nothing else.
Verdicts(t, window, closing) ==
    IF t.within >= window THEN {"reached"}
    ELSE IF t.still >= StillSteps \/ (t.within = 0 /\ NoProgress(t, closing)) THEN {"stalled"}
    ELSE IF Len(t.errors) <= ProgressSteps THEN {"unset"}
    ELSE {"unset", "timed_out"}

-----------------------------------------------------------------------------
Init ==
    /\ pos = 0 /\ target = -1 /\ callback = NoMove /\ queue = <<>>
    /\ settle = NoMove
    /\ path = [m \in Moves |-> <<>>] /\ at = [m \in Moves |-> 0] /\ begun = [m \in Moves |-> 0]
    /\ pc = [m \in Moves |-> "new"] /\ worker = [m \in Moves |-> "none"]
    /\ aim = [m \in Moves |-> 0] /\ track = [m \in Moves |-> Fresh]
    /\ event = [m \in Moves |-> "unset"] /\ answer = [m \in Moves |-> "unset"]
    /\ seen = [m \in Moves |-> 0] /\ stalls = [m \in Moves |-> 0]
    /\ stopPc = [s \in Stops |-> "new"] /\ intrusions = 0 /\ closed = FALSE
    /\ owner = NoMove /\ alone = [m \in Moves |-> TRUE]
    /\ stopped = [m \in Moves |-> FALSE] /\ blocked = [m \in Moves |-> 0]
    /\ judged = [m \in Moves |-> 0] /\ arrived = [m \in Moves |-> FALSE]

Task(op, who) == [op |-> op, who |-> who]
Queue(op, who) == queue' = Append(queue, Task(op, who))
Here(m) == path[m][at[m]]
Follows(m) == Here(m).inserted
Intrude == intrusions < MaxIntrusions /\ intrusions' = intrusions + 1
Goto(m, p) == pc' = [pc EXCEPT ![m] = p]
Work(m, w) == worker' = [worker EXCEPT ![m] = w]

-----------------------------------------------------------------------------
(***************************************************************************)
(* The coroutine of a move.                                                *)
(***************************************************************************)
\* follow_path is called with the points from i to the end of their run.
Follow(m, i) ==
    /\ at' = [at EXCEPT ![m] = i]
    /\ begun' = [begun EXCEPT ![m] = i]
    /\ Goto(m, "follow") /\ Work(m, "enlist")
    /\ track' = [track EXCEPT ![m] = Fresh]
    /\ event' = [event EXCEPT ![m] = "unset"]
    /\ seen' = [seen EXCEPT ![m] = i]
    /\ judged' = [judged EXCEPT ![m] = 0]
    /\ UNCHANGED queue

\* The move comes to waypoint i of p.  _clamped_joint_targets refuses a target
\* out of the limits, of a run before any of it is driven.
Proceed(m, p, i) ==
    IF i > Len(p)
      THEN Goto(m, "ok") /\ UNCHANGED <<at, begun, worker, queue, track, event, seen, judged>>
    ELSE IF \E j \in i..(IF p[i].inserted THEN RunEnd(p, i) ELSE i) : p[j].pos > Reach
      THEN Goto(m, "refused") /\ UNCHANGED <<at, begun, worker, queue, track, event, seen, judged>>
    ELSE IF p[i].inserted
      THEN Follow(m, i)
      ELSE /\ at' = [at EXCEPT ![m] = i]
           /\ Goto(m, "set") /\ Work(m, "set") /\ Queue("set", m)
           /\ UNCHANGED <<begun, track, event, seen, judged>>

\* move_to_joint_positions and move_through_joint_positions.
Begin(m) ==
    /\ pc[m] = "new" /\ ~closed
    /\ \/ (\A n \in Moves : pc[n] = "new") /\ UNCHANGED intrusions
       \/ (\E n \in Moves : pc[n] \in Active) /\ Intrude
    /\ \E p \in Paths[m] :
         LET dense == IF m \in Single THEN <<Waypoint(p[Len(p)], FALSE)>> ELSE Densify(p) IN
         /\ \A n \in Moves : Len(path[n]) = 0 \/ Len(path[n]) + Len(dense) <= MaxTogether
         /\ path' = [path EXCEPT ![m] = dense]
         /\ Proceed(m, dense, 1)
    /\ UNCHANGED <<pos, target, callback, settle, aim, answer, stalls, stopPc, closed,
                   owner, alone, stopped, blocked, arrived>>

\* set_joint_targets has returned; wait_for_settle takes the targets from the
\* handle, whoever set them.
StartWait(m) ==
    /\ pc[m] = "set" /\ worker[m] = "done"
    /\ Goto(m, "wait") /\ Work(m, "enlist")
    /\ aim' = [aim EXCEPT ![m] = target]
    /\ track' = [track EXCEPT ![m] = Fresh]
    /\ event' = [event EXCEPT ![m] = "unset"]
    /\ judged' = [judged EXCEPT ![m] = 0]
    /\ UNCHANGED <<simVars, settle, path, at, begun, stalls, answer, seen, envVars,
                   owner, alone, stopped, blocked, arrived>>

Told(m) == pc[m] \in {"wait", "follow"} /\ worker[m] = "done"

Reached(m) ==
    /\ Told(m) /\ answer[m] = "reached"
    /\ stalls' = [stalls EXCEPT ![m] = 0]
    /\ Proceed(m, path[m], (IF Follows(m) THEN RunEnd(path[m], at[m]) ELSE at[m]) + 1)
    /\ UNCHANGED <<pos, target, callback, settle, path, aim, answer, envVars,
                   owner, alone, stopped, blocked, arrived>>

\* _continue_past_unreached_waypoint, and _settle_or_raise, whose waypoint is
\* the last: the move goes on, or holds the arm before it raises.
Stalls(m) ==
    IF answer[m] # "stalled" THEN 0
    ELSE 1 + (IF Follows(m) /\ at[m] > begun[m] THEN 0 ELSE stalls[m])

GoesOn(m) == at[m] # Final(m) /\ Stalls(m) < MaxStalls

\* Seeded fault: a move that gives up leaves its target behind.
MissedKeepsPushing(m) ==
    /\ Told(m) /\ answer[m] # "reached"
    /\ stalls' = [stalls EXCEPT ![m] = Stalls(m)]
    /\ IF GoesOn(m)
         THEN Proceed(m, path[m], at[m] + 1)
         ELSE /\ Goto(m, answer[m])
              /\ UNCHANGED <<at, begun, worker, queue, track, event, seen, judged>>
    /\ UNCHANGED <<pos, target, callback, settle, path, aim, answer, envVars,
                   owner, alone, stopped, blocked, arrived>>

\* The worker answers anything but "reached": the trajectory goes on past the
\* waypoint while its budget lasts, or the move gives up and holds.
Missed(m) ==
    /\ Told(m) /\ answer[m] # "reached"
    /\ stalls' = [stalls EXCEPT ![m] = Stalls(m)]
    /\ IF ~GoesOn(m)
         THEN /\ Goto(m, "fail") /\ Queue("hold", m)
              /\ UNCHANGED <<at, begun, worker, track, event, seen, judged>>
       ELSE IF Follows(m) /\ at[m] < RunEnd(path[m], at[m])
         THEN Follow(m, at[m] + 1)
         ELSE Proceed(m, path[m], at[m] + 1)
    /\ UNCHANGED <<pos, target, callback, settle, path, aim, answer, envVars,
                   owner, alone, stopped, blocked, arrived>>

\* The RPC is dropped: the await raises CancelledError, the thread goes on.
\* move_to_joint_positions sets its targets before the try.
Drop(m) ==
    /\ pc[m] \in Active
    /\ Intrude
    /\ IF m \in Single /\ pc[m] = "set"
         THEN Goto(m, "dropped") /\ UNCHANGED queue
         ELSE Goto(m, "drop") /\ Queue("drop", m)
    /\ UNCHANGED <<pos, target, callback, settle, path, at, begun, worker, stalls, waitVars,
                   stopPc, closed, history>>

-----------------------------------------------------------------------------
(***************************************************************************)
(* The thread of a wait: wait_for_settle and follow_path.                  *)
(***************************************************************************)
Enlist(m) ==
    /\ worker[m] = "enlist"
    /\ settle' = m
    /\ Work(m, "register")
    /\ Queue(IF Follows(m) THEN "start" ELSE "register", m)
    /\ UNCHANGED <<pos, target, callback, path, at, begun, pc, stalls, waitVars, envVars, history>>

\* The finally.
Unlist(m) ==
    /\ settle' = IF settle = m THEN NoMove ELSE settle
    /\ Work(m, "remove")
    /\ Queue("remove", m)

Wake(m) ==
    /\ worker[m] = "watch" /\ event[m] # "unset"
    /\ answer' = [answer EXCEPT ![m] = event[m]]
    /\ Unlist(m)
    /\ UNCHANGED <<pos, target, callback, path, at, begun, pc, stalls, aim, track, event, seen,
                   envVars, history>>

\* The wall-clock guard of a sim that does not step, or not as fast.
\* Seeded fault: the guard of a trajectory never fires.
GuardFollowsOn(m) ==
    /\ worker[m] = "watch" /\ event[m] = "unset" /\ ~Follows(m)
    /\ answer' = [answer EXCEPT ![m] = "timed_out"]
    /\ Unlist(m)
    /\ UNCHANGED <<pos, target, callback, path, at, begun, pc, stalls, aim, track, event, seen,
                   envVars, history>>

Guard(m) ==
    /\ worker[m] = "watch" /\ event[m] = "unset"
    /\ IF Follows(m) /\ at[m] # seen[m]
         THEN seen' = [seen EXCEPT ![m] = at[m]] /\ UNCHANGED <<answer, settle, worker, queue>>
         ELSE /\ answer' = [answer EXCEPT ![m] = "timed_out"]
              /\ Unlist(m)
              /\ UNCHANGED seen
    /\ UNCHANGED <<pos, target, callback, path, at, begun, pc, stalls, aim, track, event,
                   envVars, history>>

-----------------------------------------------------------------------------
(***************************************************************************)
(* The sim thread.                                                         *)
(***************************************************************************)
WriteTarget(x, m) ==
    /\ target' = x
    /\ owner' = m
    /\ alone' = [n \in Moves |-> alone[n] /\ (n = m \/ pc[n] \notin Active)]

\* World.add_physics_callback with a name that is taken: the new callback
\* replaces the old one or is refused.
AddCallback(m) == callback' \in {m} \cup ({callback} \ {NoMove})

SetTask(m) ==
    /\ WriteTarget(Here(m).pos, m)
    /\ Work(m, "done")
    /\ UNCHANGED <<pos, callback, pc, event, answer, stopPc, stopped, blocked>>

RegisterTask(m) ==
    /\ AddCallback(m)
    /\ Work(m, "watch")
    /\ UNCHANGED <<pos, target, pc, event, answer, stopPc, owner, alone, stopped, blocked>>

StartTask(m) ==
    /\ WriteTarget(Here(m).pos, m)
    /\ AddCallback(m)
    /\ Work(m, "watch")
    /\ UNCHANGED <<pos, pc, event, answer, stopPc, stopped, blocked>>

\* A follow reads its outcome once no callback can run any more.
RemoveTask(m) ==
    LET told == IF ~Follows(m) THEN answer[m]
                ELSE IF event[m] = "unset" THEN "timed_out" ELSE event[m] IN
    /\ callback' = NoMove
    /\ Work(m, "done")
    /\ answer' = [answer EXCEPT ![m] = told]
    /\ blocked' = [blocked EXCEPT ![m] = IF told = "stalled" THEN @ + 1 ELSE 0]
    /\ UNCHANGED <<pos, target, pc, event, stopPc, owner, alone, stopped>>

\* ArmHandle.stop: hold where the arm is; the wait in flight has reached that.
Hold ==
    /\ WriteTarget(pos, NoMove)
    /\ event' = IF settle # NoMove /\ event[settle] = "unset"
                  THEN [event EXCEPT ![settle] = "reached"] ELSE event
    /\ UNCHANGED <<pos, callback, worker, answer, blocked>>

HoldTask(m) ==
    /\ Hold
    /\ IF pc[m] = "fail" THEN Goto(m, answer[m]) ELSE UNCHANGED pc
    /\ UNCHANGED <<stopPc, stopped>>

DropTask(m) ==
    /\ Hold
    /\ Goto(m, "dropped")
    /\ UNCHANGED <<stopPc, stopped>>

StopTask(s) ==
    /\ Hold
    /\ stopPc' = [stopPc EXCEPT ![s] = "done"]
    /\ stopped' = [n \in Moves |-> stopped[n] \/ settle = n]
    /\ UNCHANGED pc

\* world.reset() and the arm's post_reset: the arm is put where it was sent.
ResetTask ==
    /\ pos' = IF target = -1 THEN 0 ELSE target
    /\ UNCHANGED <<target, callback, pc, worker, event, answer, stopPc, owner, alone, stopped, blocked>>

ReleaseTask ==
    /\ callback' = NoMove
    /\ UNCHANGED <<pos, target, pc, worker, event, answer, stopPc, owner, alone, stopped, blocked>>

RunTask ==
    /\ queue # <<>> /\ queue' = Tail(queue)
    /\ LET t == Head(queue) IN
         \/ t.op = "set"      /\ SetTask(t.who)
         \/ t.op = "register" /\ RegisterTask(t.who)
         \/ t.op = "start"    /\ StartTask(t.who)
         \/ t.op = "remove"   /\ RemoveTask(t.who)
         \/ t.op = "hold"     /\ HoldTask(t.who)
         \/ t.op = "drop"     /\ DropTask(t.who)
         \/ t.op = "stop"     /\ StopTask(t.who)
         \/ t.op = "reset"    /\ ResetTask
         \/ t.op = "release"  /\ ReleaseTask
    /\ UNCHANGED <<settle, path, at, begun, stalls, aim, track, seen, intrusions, closed,
                   judged, arrived>>

\* Seeded fault: the stall counters survive the waypoint.
NextPointKeepsCounts(m) ==
    /\ at' = [at EXCEPT ![m] = @ + 1]
    /\ WriteTarget(path[m][at[m] + 1].pos, m)
    /\ judged' = [judged EXCEPT ![m] = 0]
    /\ blocked' = [blocked EXCEPT ![m] = 0]
    /\ UNCHANGED <<event, track, arrived>>

\* The follow's next waypoint, with counters of its own.
NextPoint(m) ==
    /\ at' = [at EXCEPT ![m] = @ + 1]
    /\ WriteTarget(path[m][at[m] + 1].pos, m)
    /\ track' = [track EXCEPT ![m] = Fresh]
    /\ judged' = [judged EXCEPT ![m] = 0]
    /\ blocked' = [blocked EXCEPT ![m] = 0]
    /\ UNCHANGED <<event, arrived>>

\* The settle callback of m after a step that ends at x: _on_step of
\* wait_for_settle, and of follow_path, which goes on to its next point.
Judge(m, x) ==
    LET aimed   == IF Follows(m) THEN Here(m).pos ELSE aim[m]
        closing == Distance(x, aimed) < Distance(pos, aimed)
        t       == Counted(track[m], x, aimed, Tolerance(m), x = pos)
    IN  \E v \in Verdicts(t, IF Follows(m) THEN 1 ELSE Window, closing) :
          IF v = "reached" /\ Follows(m) /\ at[m] < RunEnd(path[m], at[m])
            THEN NextPoint(m)
            ELSE /\ event' = [event EXCEPT ![m] = v]
                 /\ track' = [track EXCEPT ![m] = t]
                 /\ judged' = [judged EXCEPT ![m] = IF @ < StillSteps THEN @ + 1 ELSE @]
                 /\ arrived' = [arrived EXCEPT ![m] =
                       v = "reached" /\ at[m] = Final(m) /\ x = Here(m).pos]
                 /\ UNCHANGED <<at, target, owner, alone, blocked>>

PhysicsStep ==
    /\ \E x \in {pos - 1, pos, pos + 1} \cap (0..Reach) :
         /\ pos' = x
         /\ IF callback # NoMove /\ event[callback] = "unset"
              THEN Judge(callback, x)
              ELSE UNCHANGED <<at, target, track, event, owner, alone, blocked, judged, arrived>>
    /\ UNCHANGED <<callback, queue, settle, path, begun, pc, worker, stalls, aim, answer, seen,
                   envVars, stopped>>

-----------------------------------------------------------------------------
(***************************************************************************)
(* Other RPCs.                                                             *)
(***************************************************************************)
Stop(s) ==
    /\ stopPc[s] = "new" /\ ~closed /\ Intrude
    /\ stopPc' = [stopPc EXCEPT ![s] = "queued"]
    /\ Queue("stop", s)
    /\ UNCHANGED <<pos, target, callback, settle, moveVars, waitVars, closed, history>>

Reset ==
    /\ Intrude
    /\ Queue("reset", NoMove)
    /\ UNCHANGED <<pos, target, callback, settle, moveVars, waitVars, stopPc, closed, history>>

\* close(): the settle callback is removed under whoever waits for it.
Close ==
    /\ Intrude
    /\ ~closed /\ closed' = TRUE
    /\ Queue("release", NoMove)
    /\ UNCHANGED <<pos, target, callback, settle, moveVars, waitVars, stopPc, history>>

Coroutine(m) == Begin(m) \/ StartWait(m) \/ Reached(m) \/ Missed(m)
Thread(m)    == Enlist(m) \/ Wake(m) \/ Guard(m)

Next ==
    \/ \E m \in Moves : Coroutine(m) \/ Thread(m) \/ Drop(m)
    \/ RunTask \/ PhysicsStep
    \/ \E s \in Stops : Stop(s)
    \/ Reset \/ Close

Spec == Init /\ [][Next]_vars

\* The event loop and the sim thread run; the world need not step.
FairSpec ==
    /\ Spec
    /\ WF_vars(RunTask)
    /\ \A m \in Moves :
         /\ WF_vars(StartWait(m) \/ Reached(m) \/ Missed(m))
         /\ WF_vars(Thread(m))

-----------------------------------------------------------------------------
\* A move that reports success has been at its last waypoint, within the tight
\* tolerance and for the whole window, unless someone else drove the arm too.
SuccessMeansArrived == \A m \in Moves : pc[m] = "ok" /\ alone[m] => arrived[m]

\* A move that has ended leaves nothing behind that could still act for it: no
\* callback, no wait for a stop to end, no task; and one that failed does not
\* go on pushing, whatever it met.
EndedMovesLeaveNothing == \A m \in Moves :
    /\ callback = m => worker[m] \in {"watch", "remove"}
    /\ settle = m => worker[m] \in {"register", "watch"}
    /\ pc[m] \in {"ok", "stalled", "timed_out"} =>
         /\ worker[m] = "done"
         /\ \A i \in DOMAIN queue : queue[i].who = m => queue[i].op \in {"hold", "drop"}
    /\ pc[m] \in {"stalled", "timed_out"} => owner # m

\* One stall is a residual and MaxStalls in a row are an obstacle: a move drives
\* on from fewer and never from more, over planned and inserted waypoints, and
\* over follows that are begun again in the middle of a run.
StallsAreCounted == \A m \in Moves :
    /\ pc[m] \in Awaiting /\ worker[m] # "done" => blocked[m] < MaxStalls
    /\ pc[m] = "stalled" => blocked[m] >= MaxStalls \/ at[m] = Final(m)
    /\ pc[m] = "timed_out" => at[m] = Final(m)

\* A waypoint is given up for stalled only after steps of its own, however long
\* the arm had stood still before it.
StallsAreOfThisWaypoint == \A m \in Moves : event[m] = "stalled" => judged[m] >= StillSteps

\* A stall is reported, counted and fatal only for stalls that took place.
StallsAreEarned == StallsAreCounted /\ StallsAreOfThisWaypoint

\* What a move reports of itself, success or stall, the joints have earned.
ReportsAreEarned == SuccessMeansArrived /\ StallsAreEarned

\* Every move ends, although its callback may be replaced, or removed by the
\* end of another move or by a close, and the world may be paused.
MovesEnd == []<>(\A m \in Moves : pc[m] \notin Active \cup {"drop"})

\* A stop is a stop: the move whose wait it ended commands nothing any more.
StopHolds == [][\A m \in Moves : owner' = m /\ target' # target => ~stopped[m]]_vars

\* A dropped move leaves the arm where it is.
DroppedMoveHolds == \A m \in Moves : pc[m] = "dropped" => owner # m
=============================================================================
