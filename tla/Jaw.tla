--------------------------------- MODULE Jaw ---------------------------------
(***************************************************************************)
(* The parallel-jaw gripper: open, grab, go_to_inputs and stop of          *)
(* src/isaac_module/models/gripper.py over the handle of                   *)
(* src/isaac_module/handles/gripper.py.                                    *)
(*                                                                         *)
(* The handle cannot feel an object.  It decides that the jaw is held up   *)
(* because the gap to its target stopped improving for HoldingSteps        *)
(* questions in a row, and it is the questions that are counted, not the   *)
(* steps of the simulation: whoever asks advances the one window that all  *)
(* callers share.                                                          *)
(*                                                                         *)
(* Angles are small integers; 0 is open.                                   *)
(***************************************************************************)
EXTENDS Integers, FiniteSets

CONSTANTS
    Callers,        \* the open, grab and go_to_inputs calls, one RPC each
    None,
    Closed,         \* closed_rad
    Halfway,        \* what go_to_inputs asks for
    Contacts,       \* where an object may stop the jaw
    Travel,         \* how far a free jaw travels in one physics step
    Eps,            \* JAW_PROGRESS_EPS_RAD
    Tol,            \* holding_tolerance_rad
    HoldingSteps    \* GRIPPER_HOLDING_STEPS

\* A free jaw makes progress in every step that does not bring it home.
ASSUME JawAssumption ==
    /\ Closed \in Nat /\ Tol \in Nat /\ Eps \in Nat
    /\ Halfway \in 0..Closed /\ Contacts \subseteq 0..Closed
    /\ Travel \in Nat /\ Travel > Eps
    /\ Eps <= Tol
    /\ HoldingSteps \in Nat \ {0}
    /\ None \notin 0..Closed \cup Callers

VARIABLES
    jaw,            \* the measured angle
    block,          \* the angle at which an object stops the jaw, or None
    target,         \* _target
    best,           \* _best_gap_rad
    count,          \* _no_progress_count, up to HoldingSteps
    latch,          \* _held_latch
    phase, op,      \* each call: where it is, and what it asks for
    \* history, since the command in force
    owner,          \* the call that gave it
    asked,          \* the questions since the last physics step
    disturbed,      \* a reset came, or more than HoldingSteps questions in one step
    touched,        \* the jaw was pressed onto an object
    told            \* somebody was told that something is held

physVars   == <<jaw, block>>
windowVars == <<best, count, latch>>
callVars   == <<phase, op>>
pastVars   == <<asked, disturbed, touched, told>>
jawVars       == <<physVars, target, windowVars, callVars, owner, pastVars>>

Ops     == {"open", "grab", "inputs"}
Live    == {"commanding", "waiting", "judging", "asking", "halting"}
Ended   == {"settled", "held", "empty", "expired", "raised",
            "unwatched", "gone", "halted"}

JawInit ==
    /\ jaw = 0
    /\ block \in Contacts \cup {None}
    /\ target = None /\ best = None /\ count = 0 /\ latch = FALSE
    /\ phase = [c \in Callers |-> "idle"]
    /\ op \in [Callers -> Ops]
    /\ owner = None /\ asked = 0
    /\ disturbed = FALSE /\ touched = FALSE /\ told = FALSE

-----------------------------------------------------------------------------
(***************************************************************************)
(* The handle, on the sim thread.                                          *)
(***************************************************************************)
Goal(o) == CASE o = "open" -> 0 [] o = "grab" -> Closed [] OTHER -> Halfway

\* Seeded fault: a new command keeps the progress window of the one before.
CommandKeepsWindow(angle, who) ==
    /\ target' = angle
    /\ latch' = FALSE
    /\ UNCHANGED <<best, count>>
    /\ owner' = who
    /\ asked' = 0 /\ disturbed' = FALSE /\ touched' = FALSE /\ told' = FALSE

\* _apply_jaw_target_on_sim_thread: a new target starts a new window.
Command(angle, who) ==
    /\ target' = angle
    /\ best' = None /\ count' = 0 /\ latch' = FALSE
    /\ owner' = who
    /\ asked' = 0 /\ disturbed' = FALSE /\ touched' = FALSE /\ told' = FALSE

\* stop: the measured angle becomes the target.
Hold == Command(jaw, None)

Gap == IF target = None THEN 0 ELSE IF target > jaw THEN target - jaw ELSE jaw - target

Improves == best = None \/ Gap < best - Eps

NextCount ==
    IF Improves THEN 0 ELSE IF count < HoldingSteps THEN count + 1 ELSE count

\* Seeded fault: a stall is not latched.
StallNotLatched == FALSE

\* A stall outside the tolerance is remembered until the jaw reaches its target.
NextLatch == Gap > Tol /\ (latch \/ NextCount >= HoldingSteps)

\* What a question asked now is answered.
Moving  == Gap > Tol /\ ~(NextCount >= HoldingSteps) /\ ~NextLatch
Holding == Gap > Tol /\ (NextCount >= HoldingSteps \/ NextLatch)

\* _gap_and_stall behind is_moving, is_holding and poll_jaw_state: every
\* question moves the window on.
GapAndStall ==
    /\ IF target = None
         THEN UNCHANGED windowVars
         ELSE /\ best' = IF Improves THEN Gap ELSE best
              /\ count' = NextCount
              /\ latch' = NextLatch
    /\ disturbed' = (disturbed \/ asked >= HoldingSteps)
    /\ asked' = IF disturbed' THEN 0 ELSE asked + 1
    /\ told' = (Gap > Tol /\ (told \/ Holding))
    /\ UNCHANGED <<touched, target, owner, physVars>>

-----------------------------------------------------------------------------
(***************************************************************************)
(* The calls.  Their awaits are hops to a worker thread and from there to  *)
(* the sim thread; between them any other call may run.                    *)
(***************************************************************************)
Goto(c, where) ==
    /\ phase' = [phase EXCEPT ![c] = where]
    /\ UNCHANGED op

\* The RPC arrives; the command is on its way to the sim thread.
Arrives(c) ==
    /\ phase[c] = "idle"
    /\ Goto(c, "commanding")
    /\ UNCHANGED <<physVars, target, windowVars, owner, pastVars>>

\* The sim thread runs the command.
Commanded(c) ==
    /\ phase[c] = "commanding"
    /\ Command(Goal(op[c]), c)
    /\ Goto(c, "waiting")
    /\ UNCHANGED physVars

\* The RPC was dropped during that first await.  The worker thread carries the
\* command out all the same, and no handler is in place yet.
CommandedUnwatched(c) ==
    /\ phase[c] = "commanding"
    /\ Command(Goal(op[c]), c)
    /\ Goto(c, "unwatched")
    /\ UNCHANGED physVars

\* One turn of the first poll loop.
Polls(c) ==
    /\ phase[c] = "waiting"
    /\ GapAndStall
    /\ Goto(c, IF Moving THEN "waiting" ELSE IF op[c] = "grab" THEN "judging" ELSE "settled")

\* One turn of grab's second loop: held, fully closed, or ask again.
Judges(c) ==
    /\ phase[c] = "judging"
    /\ GapAndStall
    /\ Goto(c, IF Holding THEN "held" ELSE IF jaw = Closed THEN "empty" ELSE "judging")

\* Seeded fault: only the first loop looks at the deadline.
ExpiresInFirstLoop(c) ==
    /\ phase[c] = "waiting"
    /\ \/ Goto(c, "expired")
       \/ op[c] = "grab" /\ Goto(c, "asking")
    /\ UNCHANGED <<physVars, target, windowVars, owner, pastVars>>

\* The deadline ends either loop.  If it is the caller's own timeout the call
\* raises; else grab asks once more, and the others return as if settled.
Expires(c) ==
    /\ phase[c] \in {"waiting", "judging"}
    /\ \/ Goto(c, "expired")
       \/ op[c] = "grab" /\ Goto(c, "asking")
    /\ UNCHANGED <<physVars, target, windowVars, owner, pastVars>>

\* The last question of a grab that waited in vain.
AsksLast(c) ==
    /\ phase[c] = "asking"
    /\ GapAndStall
    /\ Goto(c, IF Holding THEN "held" ELSE "empty")

\* Seeded fault: no call handles a dropped RPC.
DroppedIsIgnored(c) ==
    /\ phase[c] \in {"waiting", "judging", "asking"}
    /\ Goto(c, IF op[c] = "grab" /\ phase[c] # "asking" THEN "halted" ELSE "gone")
    /\ UNCHANGED <<physVars, target, windowVars, owner, pastVars>>

\* The RPC is dropped during a wait: grab stops the jaw first, as long as it
\* is inside its try; open and go_to_inputs just end.
Dropped(c) ==
    /\ phase[c] \in {"waiting", "judging", "asking"}
    /\ Goto(c, IF op[c] = "grab" /\ phase[c] # "asking" THEN "halting" ELSE "gone")
    /\ UNCHANGED <<physVars, target, windowVars, owner, pastVars>>

\* The handler's stop reaches the sim thread, whatever the jaw does by now.
Halts(c) ==
    /\ phase[c] = "halting"
    /\ Hold
    /\ Goto(c, "halted")
    /\ UNCHANGED physVars

\* A marshalled call raises: the sim is shutting down, or too slow to answer.
CallRaises(c) ==
    /\ phase[c] \in Live
    /\ Goto(c, "raised")
    /\ UNCHANGED <<physVars, target, windowVars, owner, pastVars>>

\* The steps of a call that the scheduler owes it.
Serves(c) == Commanded(c) \/ Polls(c) \/ Judges(c) \/ AsksLast(c) \/ Halts(c)

\* stop() of another client.
Stop == Hold /\ UNCHANGED <<physVars, callVars>>

\* is_moving() or is_holding_something() of another client.
Observe == GapAndStall /\ UNCHANGED callVars

-----------------------------------------------------------------------------
(***************************************************************************)
(* The simulation.                                                         *)
(***************************************************************************)
Drive   == IF target = None THEN 0 ELSE target
Pressed == block = jaw /\ Drive > jaw
Smaller(a, b) == IF a < b THEN a ELSE b
Larger(a, b)  == IF a > b THEN a ELSE b

\* A physics step: the jaw travels towards its target or up to the object.
JawStep ==
    /\ jaw' = IF Drive < jaw
                THEN Larger(jaw - Travel, Drive)
                ELSE Smaller(Smaller(jaw + Travel, Drive), IF block = None THEN Closed ELSE block)
    /\ asked' = 0
    /\ touched' = (touched \/ (block = jaw' /\ Drive > jaw'))
    /\ UNCHANGED <<block, target, windowVars, callVars, owner, disturbed, told>>

\* A step in which the object gives way to the jaw.
Creep ==
    /\ Pressed
    /\ jaw' \in {v \in Contacts : v > jaw}
    /\ block' = jaw'
    /\ asked' = 0
    /\ touched' = TRUE
    /\ UNCHANGED <<target, windowVars, callVars, owner, disturbed, told>>

\* An object slips or is carried away, or one comes between the jaws.
BlockMoves ==
    /\ \/ block # None /\ block' = None
       \/ block = None /\ block' \in {v \in Contacts : v >= jaw}
    /\ UNCHANGED <<jaw, target, windowVars, callVars, owner, pastVars>>

\* world.reset() puts the jaw back to its default angle; the post-reset hook
\* gives the last command again and leaves the window as it was.
WorldResets ==
    /\ jaw' = 0
    /\ disturbed' = TRUE /\ asked' = 0
    /\ UNCHANGED <<block, target, windowVars, callVars, owner, touched, told>>

JawNext ==
    \/ \E c \in Callers :
          \/ Arrives(c) \/ CommandedUnwatched(c) \/ Serves(c)
          \/ Expires(c) \/ Dropped(c) \/ CallRaises(c)
    \/ Stop \/ Observe
    \/ JawStep \/ Creep \/ BlockMoves \/ WorldResets

JawSpec == JawInit /\ [][JawNext]_jawVars

\* Awaits end and clocks run.  The simulation may be paused for good.
JawFairSpec ==
    /\ JawSpec
    /\ \A c \in Callers : WF_jawVars(Serves(c)) /\ WF_jawVars(Expires(c))

-----------------------------------------------------------------------------
\* Every variable has its type.
JawTypeOK ==
    /\ jaw \in 0..Closed
    /\ block \in Contacts \cup {None}
    /\ target \in 0..Closed \cup {None}
    /\ best \in 0..Closed \cup {None}
    /\ count \in 0..HoldingSteps /\ latch \in BOOLEAN
    /\ phase \in [Callers -> {"idle"} \cup Live \cup Ended]
    /\ op \in [Callers -> Ops]
    /\ owner \in Callers \cup {None}
    /\ asked \in 0..HoldingSteps
    /\ disturbed \in BOOLEAN /\ touched \in BOOLEAN /\ told \in BOOLEAN

\* A caller that is told its grab holds something, or that the jaw has
\* settled, is told so because the command in force did press the jaw onto an
\* object, or brought it home: however many clients ask, as long as no reset
\* intervened and no more than HoldingSteps questions fell into one step.
AnswersAreEarned ==
    [][\A c \in Callers :
          phase'[c] # phase[c] /\ ~disturbed' =>
             /\ phase'[c] = "held" => touched
             /\ phase'[c] \in {"settled", "judging"} => touched \/ Gap <= Tol]_jawVars

\* Once anybody was told that something is held, everybody is told so until a
\* new command or until the jaw has closed on nothing, however the object
\* creeps and however seldom they ask.
HoldsAreKept == told => Holding \/ Gap <= Tol

\* A jaw that closes for a grab and has met nothing yet has that grab's caller
\* waiting for it; or the call was dropped before its wait, ran out of time, or
\* lost the sim.  A grab dropped in its wait leaves no jaw closing.
GrabsAreWatched == \A c \in Callers :
    /\ owner = c /\ op[c] = "grab"
    /\ Gap > Tol /\ ~touched /\ ~disturbed
    => phase[c] \in Live \cup {"unwatched", "expired", "raised", "empty", "gone"}

\* From some point on no call is under way: each one ends, even when the
\* simulation is paused or the jaw hangs between its target and an object that
\* is too thin to be held.
CallsEnd == <>[](\A c \in Callers : phase[c] \notin Live)

(***************************************************************************)
(* What the source says of itself and the code does not do.                *)
(***************************************************************************)
\* handles/gripper.py:23: "consecutive still steps outside tolerance before
\* is_holding() flips": nothing is held before the jaw has met an object.
HoldsAreFelt == told /\ owner # None => touched

\* models/gripper.py:128-130: "open/grab/go_to_inputs wait ...; a dropped RPC
\* during that wait holds the jaw at its current position".
DroppedWaitHolds == \A c \in Callers : owner = c => phase[c] # "gone"
=============================================================================
