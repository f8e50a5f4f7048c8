------------------------------ MODULE Palletizer ------------------------------
(***************************************************************************)
(* The palletizer service (src/isaac_module/models/palletizer.py): one     *)
(* background run asks the sequencer for the next seq, puts its box on the *)
(* pick station, moves it onto the pallet and reports what happened.       *)
(*                                                                         *)
(* Every value of pc is an await of the run; between two of them it cannot *)
(* be interrupted.  A stop, a box that drops and a cup that takes hold     *)
(* late come at any of them.  The sequencer is a service of its own and    *)
(* keeps its cursor over runs.  Poses, obstacles and settle times are data *)
(* and left out; box s is box_props[s - 1], the box of seq s.              *)
(***************************************************************************)
EXTENDS Integers, Sequences, SequencesExt, FiniteSets

CONSTANTS
    Boxes,          \* how many boxes there are, and seqs of the sequencer
    MaxAttempts,    \* MAX_ATTEMPTS_PER_SEQ
    MaxTeleports    \* RESTAGE_MAX_ATTEMPTS

ASSUME PalletizerAssumption ==
    /\ Boxes \in Nat \ {0}
    /\ MaxAttempts \in Nat \ {0}
    /\ MaxTeleports \in Nat \ {0}

VARIABLES
    \* the service
    state, cancel, records,
    infeed,         \* _infeed_position_mm is known
    stopAfter,      \* _stop_after_seq, 0 for none
    stoppedAfter,   \* _stopped_after_seq, 0 for none
    \* the run
    pc,
    plan,           \* how the leg under way is planned
    seq, tracked, failures, teleports,
    \* the sequencer
    cursor, told, skipped,
    \* the cell
    at,             \* where each box is
    closing         \* the cup still tries to take hold after a grab that missed

serviceVars   == <<state, cancel, records, infeed, stopAfter, stoppedAfter>>
attemptVars   == <<seq, tracked, failures, teleports>>
sequencerVars == <<cursor, told, skipped>>
cellVars      == <<at, closing>>
vars == <<serviceVars, pc, plan, attemptVars, sequencerVars, cellVars>>

Seqs   == 1..Boxes
States == {"idle", "running", "stopping", "complete", "failed"}
Places == {"station", "parked", "cup", "slot", "loose"}

\* The legs of a pick and place; the fallback retreat is "clear".
Legs == {"approach", "descent", "lift", "carry", "over", "lower", "retreat", "clear"}
\* Free legs are planned at once; the others are tried as a straight line.
FirstPlan(leg) == IF leg \in {"approach", "carry"} THEN "free" ELSE "line"

Pcs == Legs \cup {"off", "open", "ask", "restage", "settle", "grab", "grabbed", "swing",
                  "release", "released", "publish", "report", "reported", "skip", "skipped"}

Record(s, outcome) == [seq |-> s, outcome |-> outcome]
\* A failed record's reason, as far as the properties tell them apart.
Outcomes == {"placed", "failed", "no_infeed", "stopped"}

OnCup == {b \in Seqs : at[b] = "cup"}

\* A module that has just started: the boxes where the cell puts them, the
\* sequencer at whatever seq it had reached.
Init ==
    /\ state = "idle" /\ cancel = FALSE /\ records = <<>>
    /\ infeed = FALSE
    /\ stopAfter = 0 /\ stoppedAfter = 0
    /\ pc = "off" /\ plan = "line"
    /\ seq = 0 /\ tracked = 0 /\ failures = 0 /\ teleports = 0
    /\ cursor \in Seqs
    /\ told = {} /\ skipped = {}
    /\ at = [b \in Seqs |-> IF b = 1 THEN "station" ELSE "parked"]
    /\ closing = FALSE

-----------------------------------------------------------------------------
(***************************************************************************)
(* Commands.  Neither start nor stop awaits anything.                      *)
(***************************************************************************)
\* _handle_start, which a run in progress turns into a no-op.
Start(bound) ==
    /\ state \notin {"running", "stopping"}
    /\ state' = "running" /\ cancel' = FALSE /\ records' = <<>>
    /\ stopAfter' = bound /\ stoppedAfter' = 0
    /\ pc' = "open"
    /\ tracked' = 0 /\ failures' = 0
    /\ UNCHANGED <<infeed, plan, seq, teleports, sequencerVars, cellVars>>

\* _handle_stop; without a run it only sets the flag.
Stop ==
    /\ state' = IF state = "running" THEN "stopping" ELSE state
    /\ cancel' = TRUE
    /\ UNCHANGED <<records, infeed, stopAfter, stoppedAfter, pc, plan, attemptVars,
                   sequencerVars, cellVars>>

-----------------------------------------------------------------------------
(***************************************************************************)
(* How a run goes on and ends.                                             *)
(***************************************************************************)
\* _pack_all_boxes returns to _run.
RunReturns ==
    /\ state' = IF cancel THEN "idle" ELSE "complete"
    /\ cancel' = FALSE
    /\ pc' = "off"

GoOn(where) == pc' = where /\ UNCHANGED <<state, cancel>>

\* An await raises: no handler is closer than _run's.
Raise ==
    /\ pc # "off"
    /\ state' = "failed" /\ cancel' = FALSE
    /\ pc' = "off"
    /\ UNCHANGED <<records, infeed, stopAfter, stoppedAfter, plan, attemptVars,
                   sequencerVars, cellVars>>

\* The attempt at box s is over; its record comes before its report.
Book(s, outcome) ==
    /\ records' = Append(records, Record(s, outcome))
    /\ GoOn("report")

\* A stop is noticed: a record, no report, and the run is over.
Break(s) ==
    /\ records' = Append(records, Record(s, "stopped"))
    /\ RunReturns

\* mover_avoiding's move: a leg begins, or the stop that came in between is
\* reported instead.
BeginLeg(leg) ==
    /\ IF cancel
         THEN Break(seq) /\ UNCHANGED plan
         ELSE GoOn(leg) /\ plan' = FirstPlan(leg) /\ UNCHANGED records

\* On the way off the pallet a stop is not reported: the box is placed.
BeginRetreat(leg) ==
    /\ UNCHANGED records
    /\ IF cancel
         THEN GoOn("publish") /\ UNCHANGED plan
         ELSE GoOn(leg) /\ plan' = FirstPlan(leg)

\* The attempt that is reported placed its box.
Success == Last(records).outcome = "placed"

\* The end of the loop's body and its condition.
AfterReport ==
    IF stopAfter # 0 /\ seq >= stopAfter
      THEN stoppedAfter' = stopAfter /\ RunReturns
      ELSE /\ UNCHANGED stoppedAfter
           /\ IF cancel THEN RunReturns ELSE GoOn("ask")

-----------------------------------------------------------------------------
(***************************************************************************)
(* _pack_all_boxes up to the first motion.                                 *)
(***************************************************************************)
\* gripper.open(): whatever is on the cup falls where the arm is.
LetGo(where) ==
    /\ at' = [b \in Seqs |-> IF at[b] = "cup" THEN where ELSE at[b]]
    /\ closing' = FALSE

\* Seeded fault: a run starts with what is on the cup.
OpensNothing ==
    /\ pc = "open"
    /\ IF cancel THEN RunReturns ELSE GoOn("ask")
    /\ UNCHANGED <<records, infeed, stopAfter, stoppedAfter, plan, attemptVars,
                   sequencerVars, cellVars>>

OpensFirst ==
    /\ pc = "open"
    /\ LetGo("loose")
    /\ IF cancel THEN RunReturns ELSE GoOn("ask")
    /\ UNCHANGED <<records, infeed, stopAfter, stoppedAfter, plan, attemptVars,
                   sequencerVars>>

\* next_box says that every seq is retired.
AskIsComplete ==
    /\ pc = "ask"
    /\ cursor > Boxes
    /\ RunReturns
    /\ UNCHANGED <<records, infeed, stopAfter, stoppedAfter, plan, attemptVars,
                   sequencerVars, cellVars>>

\* next_box names a seq.  A stop ends the run before anything is moved, and a
\* seq past the first has nowhere to go before the infeed pose is known.
Ask ==
    /\ pc = "ask" /\ cursor <= Boxes
    /\ seq' = cursor /\ tracked' = cursor
    /\ failures' = IF cursor # tracked THEN 0 ELSE failures
    /\ teleports' = 0
    /\ CASE cancel -> Break(cursor)
         [] ~cancel /\ cursor > 1 /\ ~infeed -> Book(cursor, "no_infeed")
         [] OTHER -> GoOn(IF cursor > 1 THEN "restage" ELSE "settle") /\ UNCHANGED records
    /\ UNCHANGED <<infeed, stopAfter, stoppedAfter, plan, sequencerVars, cellVars>>

\* Seeded fault: box_props[seq - 2] is sent to the station.
RestageLandsOther ==
    /\ pc = "restage" /\ at[seq - 1] # "cup"
    /\ at' = [at EXCEPT ![seq - 1] = "station"]
    /\ teleports' = teleports + 1
    /\ GoOn("settle")
    /\ UNCHANGED <<records, infeed, stopAfter, stoppedAfter, plan, seq, tracked, failures,
                   sequencerVars, closing>>

\* set_prop_pose, and the box reads back at the infeed pose.
RestageLands ==
    /\ pc = "restage" /\ at[seq] # "cup"
    /\ at' = [at EXCEPT ![seq] = "station"]
    /\ teleports' = teleports + 1
    /\ GoOn("settle")
    /\ UNCHANGED <<records, infeed, stopAfter, stoppedAfter, plan, seq, tracked, failures,
                   sequencerVars, closing>>

\* set_prop_pose, and the box does not read back in time; it may still land.
RestageMisses ==
    /\ pc = "restage"
    /\ \/ UNCHANGED at
       \/ at[seq] # "cup" /\ at' = [at EXCEPT ![seq] = "station"]
    /\ teleports' = teleports + 1
    /\ IF teleports + 1 < MaxTeleports
         THEN GoOn("restage") /\ UNCHANGED records
         ELSE Book(seq, "failed")
    /\ UNCHANGED <<infeed, stopAfter, stoppedAfter, plan, seq, tracked, failures,
                   sequencerVars, closing>>

\* The box has settled, or the wait for it has timed out, and its pose is
\* known; the first read of box 1 tells where the infeed is.
Settled ==
    /\ pc = "settle"
    /\ infeed' = (infeed \/ seq = 1)
    /\ BeginLeg("approach")
    /\ UNCHANGED <<stopAfter, stoppedAfter, attemptVars, sequencerVars, cellVars>>

NoGeometry ==
    /\ pc = "settle"
    /\ Book(seq, "failed")
    /\ UNCHANGED <<infeed, stopAfter, stoppedAfter, plan, attemptVars, sequencerVars, cellVars>>

-----------------------------------------------------------------------------
(***************************************************************************)
(* The pick and the place.                                                 *)
(***************************************************************************)
\* A leg arrives.  The place descent also arrives when it stalls on contact.
LegArrives ==
    /\ pc \in Legs
    /\ CASE pc = "approach" -> BeginLeg("descent")
         [] pc = "lift"     -> BeginLeg("carry")
         [] pc = "over"     -> BeginLeg("lower")
         [] pc = "carry"    -> GoOn("swing") /\ UNCHANGED <<records, plan>>
         [] pc = "descent"  -> /\ IF cancel THEN Break(seq) ELSE GoOn("grab") /\ UNCHANGED records
                               /\ UNCHANGED plan
         [] pc = "lower"    -> /\ IF cancel THEN Break(seq) ELSE GoOn("release") /\ UNCHANGED records
                               /\ UNCHANGED plan
         [] OTHER           -> GoOn("publish") /\ UNCHANGED <<records, plan>>
    /\ closing' = FALSE
    /\ UNCHANGED <<infeed, stopAfter, stoppedAfter, attemptVars, sequencerVars, at>>

\* Seeded fault: the second plan of a leg does not look for a stop.
ReplansAnyway ==
    /\ pc \in Legs
    /\ plan # "again"
    /\ plan' = IF plan = "line" THEN "free" ELSE "again"
    /\ UNCHANGED <<serviceVars, pc, attemptVars, sequencerVars, cellVars>>

\* Seeded fault: a free move is planned again for as long as it times out.
ReplansForever ==
    /\ pc \in Legs
    /\ ~cancel
    /\ plan' = IF plan = "free" THEN "again" ELSE "free"
    /\ UNCHANGED <<serviceVars, pc, attemptVars, sequencerVars, cellVars>>

\* The planner refuses a straight line, which is then tried as a free move, or
\* times out on a free move, which is then planned once more.
Replans ==
    /\ pc \in Legs
    /\ plan # "again"
    /\ IF cancel
         THEN /\ UNCHANGED plan
              /\ IF pc \in {"retreat", "clear"}
                   THEN GoOn("publish") /\ UNCHANGED records
                   ELSE Break(seq)
         ELSE /\ plan' = IF plan = "line" THEN "free" ELSE "again"
              /\ UNCHANGED <<state, cancel, records, pc>>
    /\ UNCHANGED <<infeed, stopAfter, stoppedAfter, attemptVars, sequencerVars, cellVars>>

\* The retreat around the placed box is refused for good: once more, through it.
RetreatRefused ==
    /\ pc = "retreat" /\ plan # "line"
    /\ BeginRetreat("clear")
    /\ UNCHANGED <<infeed, stopAfter, stoppedAfter, attemptVars, sequencerVars, cellVars>>

\* gripper.grab() closes the cup, waits grab_delay_ms and asks what it holds:
\* a box that was there already, or one that lies where box seq does.
Grab ==
    /\ pc = "grab"
    /\ GoOn("grabbed")
    /\ closing' = TRUE
    /\ \/ UNCHANGED at
       \/ /\ OnCup = {}
          /\ \E b \in {c \in Seqs : c = seq \/ (at[c] = "station" /\ at[seq] = "station")} :
               at' = [at EXCEPT ![b] = "cup"]
    /\ UNCHANGED <<records, infeed, stopAfter, stoppedAfter, plan, attemptVars, sequencerVars>>

\* It reports a hold, and the lift begins; or nothing, and the cup keeps trying.
Grabbed ==
    /\ pc = "grabbed"
    /\ IF OnCup # {}
         THEN BeginLeg("lift") /\ closing' = FALSE
         ELSE Book(seq, "failed") /\ UNCHANGED <<plan, closing>>
    /\ UNCHANGED <<infeed, stopAfter, stoppedAfter, attemptVars, sequencerVars, at>>

\* The carried box hangs still, or the wait for that has timed out.
SwingStops ==
    /\ pc = "swing"
    /\ BeginLeg("over")
    /\ UNCHANGED <<infeed, stopAfter, stoppedAfter, attemptVars, sequencerVars, cellVars>>

\* gripper.open() over the slot: what is on the cup stands there, or topples.
Release ==
    /\ pc = "release"
    /\ \E where \in {"slot", "loose"} : LetGo(where)
    /\ GoOn("released")
    /\ UNCHANGED <<records, infeed, stopAfter, stoppedAfter, plan, attemptVars, sequencerVars>>

\* The geometry the retreat keeps out of is read.
Retreats ==
    /\ pc = "released"
    /\ BeginRetreat("retreat")
    /\ UNCHANGED <<infeed, stopAfter, stoppedAfter, attemptVars, sequencerVars, cellVars>>

\* The sampler has settled and set_box_transform has returned.  The record
\* says placed wherever the box has come to rest.
Publishes ==
    /\ pc = "publish"
    /\ Book(seq, "placed")
    /\ UNCHANGED <<infeed, stopAfter, stoppedAfter, plan, attemptVars, sequencerVars, cellVars>>

-----------------------------------------------------------------------------
(***************************************************************************)
(* The report.  The sequencer acts on a verb before its reply arrives, and *)
(* the reply may be lost (Raise at "reported" and "skipped").              *)
(***************************************************************************)
Reports ==
    /\ pc = "report"
    /\ GoOn("reported")
    /\ IF Success
         THEN cursor' = cursor + 1 /\ told' = told \cup {seq}
         ELSE UNCHANGED <<cursor, told>>
    /\ UNCHANGED <<records, infeed, stopAfter, stoppedAfter, plan, attemptVars, skipped, cellVars>>

ReportReturns ==
    /\ pc = "reported"
    /\ failures' = IF Success THEN failures ELSE failures + 1
    /\ IF ~Success /\ failures + 1 >= MaxAttempts
         THEN GoOn("skip") /\ UNCHANGED stoppedAfter
         ELSE AfterReport
    /\ UNCHANGED <<records, infeed, stopAfter, plan, seq, tracked, teleports, sequencerVars, cellVars>>

Skips ==
    /\ pc = "skip"
    /\ GoOn("skipped")
    /\ cursor' = cursor + 1 /\ skipped' = skipped \cup {seq}
    /\ UNCHANGED <<records, infeed, stopAfter, stoppedAfter, plan, attemptVars, told, cellVars>>

SkipReturns ==
    /\ pc = "skipped"
    /\ AfterReport
    /\ UNCHANGED <<records, infeed, stopAfter, plan, attemptVars, sequencerVars, cellVars>>

-----------------------------------------------------------------------------
(***************************************************************************)
(* The cell.                                                               *)
(***************************************************************************)
\* The gripper retries for retry_interval_s, longer than grab() waits: a box
\* under the cup may be held after grab() has said that none is.
TakesHoldLate ==
    /\ closing /\ OnCup = {} /\ pc \notin Legs \cup {"grabbed"}
    /\ \E b \in Seqs : at[b] = "station" /\ at' = [at EXCEPT ![b] = "cup"]
    /\ UNCHANGED <<serviceVars, pc, plan, attemptVars, sequencerVars, closing>>

\* The load breaks the hold.
BoxDrops ==
    /\ pc \in Legs /\ OnCup # {}
    /\ LetGo("loose")
    /\ UNCHANGED <<serviceVars, pc, plan, attemptVars, sequencerVars>>

Run ==
    \/ Raise
    \/ OpensFirst
    \/ AskIsComplete \/ Ask
    \/ RestageLands \/ RestageMisses
    \/ Settled \/ NoGeometry
    \/ LegArrives \/ Replans \/ RetreatRefused
    \/ Grab \/ Grabbed \/ SwingStops \/ Release \/ Retreats \/ Publishes
    \/ Reports \/ ReportReturns \/ Skips \/ SkipReturns

Next ==
    \/ \E bound \in 0..Boxes : Start(bound)
    \/ Stop
    \/ Run
    \/ TakesHoldLate \/ BoxDrops

Spec == Init /\ [][Next]_vars

\* Every await of the run ends, with a result or an exception.
FairSpec == Spec /\ WF_vars(Run)

-----------------------------------------------------------------------------
\* The records of the attempts at seq s in the last run.
Attempts(s) == {i \in DOMAIN records : records[i].seq = s}

\* A seq is skipped after MAX_ATTEMPTS_PER_SEQ failures of its own in this
\* run, and is not attempted again once it is.
SkippedAfterItsOwnFailures ==
    /\ \A s \in Seqs : Cardinality(Attempts(s)) <= MaxAttempts
    /\ pc = "skip" =>
         /\ Cardinality(Attempts(seq)) = MaxAttempts
         /\ \A i \in Attempts(seq) : records[i].outcome \in {"failed", "no_infeed"}

\* What the sequencer is told is true and stays true: it is in the records
\* already, also when its reply is lost and the run fails, and no later restage,
\* pick or restart takes that box off the slot it stands on.
ToldIsKept ==
    [][/\ \A s \in told' \ told : \E i \in DOMAIN records : records[i] = Record(s, "placed")
       /\ \A b \in told : at[b] = "slot" => at'[b] = "slot"]_vars

\* A bounded run leaves the station and the cursor alone after the record of
\* its bound, be that a success or not.
BoundedRunEnds == stopAfter # 0 =>
    Cardinality({i \in DOMAIN records : records[i].seq >= stopAfter}) <= 1

\* Once box 1 has been placed, every later start can restage the others.
ResumedRunHasInfeed ==
    1 \in told => \A i \in DOMAIN records : records[i].outcome # "no_infeed"

\* Every run starts with an empty cup, whatever the one before it held when
\* it failed or was stopped.
RunStartsEmpty == pc = "ask" /\ records = <<>> => OnCup = {}

\* A seq is tried MAX_ATTEMPTS_PER_SEQ times at most, and nothing is tried after
\* the seq that bounds the run.
AttemptsAreBounded == SkippedAfterItsOwnFailures /\ BoundedRunEnds

\* A run that follows one that failed, was stopped or was bounded has what it
\* needs to go on: an empty cup and the place of the infeed.
RunsStartFit == RunStartsEmpty /\ ResumedRunHasInfeed

\* However runs fail, are stopped and follow each other, each starts fit and
\* stays within its bounds.
RunsAreOrderly == AttemptsAreBounded /\ RunsStartFit

\* After a stop no leg is begun or planned again, and the cup neither closes
\* nor opens over a slot.
NoMotionAfterStop ==
    [][cancel /\ <<pc', plan'>> # <<pc, plan>> /\ pc # "off"
         => pc' \notin Legs \cup {"grab", "release"}]_vars

\* A run ends, however often attempts fail.
RunsEnd == (state = "running") ~> (pc = "off")

(***************************************************************************)
(* What the source says of itself and the code does not do.                *)
(***************************************************************************)
\* palletizer.py:35: "Only one box_props entry sits on the pick station at a
\* time".
OneBoxOnStation == Cardinality({b \in Seqs : at[b] = "station"}) <= 1
=============================================================================
