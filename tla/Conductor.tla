------------------------------ MODULE Conductor ------------------------------
(***************************************************************************)
(* The conductor (src/isaac_module/models/conductor.py): a generic service *)
(* whose "start" command creates a background task that sorts the blocks   *)
(* loop after loop, whose "stop" command asks it to end, and whose rolling *)
(* log keeps the last loop records.                                        *)
(*                                                                         *)
(* Commands and runs are coroutines of one event loop: what happens        *)
(* between two awaits is one step here, and every await is a place where   *)
(* any other coroutine may take its steps.                                 *)
(*                                                                         *)
(* A member of Starts is one "start" command and the run it creates.  The  *)
(* sorting of one loop is abstracted to its census and its attempts;       *)
(* module SortLoop has the details.                                        *)
(***************************************************************************)
EXTENDS Integers, Sequences, SequencesExt

CONSTANTS
    Starts,         \* the start commands of a behaviour
    NoRun,
    MaxErrors,      \* MAX_CONSECUTIVE_LOOP_ERRORS
    Window,         \* LOOP_RECORD_WINDOW
    MaxLoops,       \* bound: the largest "loops" of a start
    MaxRecords      \* bound: no loop begins once this many are recorded

ASSUME ConductorAssumption ==
    /\ NoRun \notin Starts
    /\ MaxErrors \in Nat \ {0}
    /\ Window \in Nat \ {0}
    /\ MaxLoops \in Nat \ {0}
    /\ MaxRecords \in Nat \ {0}

VARIABLES
    state,          \* _state
    cancel,         \* _cancel_requested
    startPc,        \* where each start command is, or how it was answered
    runPc,          \* where each run is: the await it is suspended at
    kind, wanted,   \* what each start asked for
    loopIndex,      \* loop_index of each run
    errors,         \* consecutive_loop_errors of each run
    rollup,         \* _run_loop_number, _run_loops_completed, _run_loops_errored
    nextId,         \* _record_id_counter
    log,            \* the rolling log
    attempt,        \* the parity of the attempts each run began (history)
    stopAsked,      \* the runs a stop command found at work (history)
    latest, base,   \* the last run accepted, and nextId at that moment (history)
    met,            \* the starts let through since then beside a run at work (history)
    overlap         \* the last run was accepted beside another one that was not
                    \* there when it was checked, or beside such a pair (history)

runVars  == <<runPc, loopIndex, errors, attempt>>
askVars  == <<startPc, kind, wanted, latest, base, met, overlap>>
logVars  == <<rollup, nextId, log>>
vars     == <<state, cancel, runVars, askVars, logVars, stopAsked>>

States   == {"idle", "running", "stopping", "complete", "failed"}
Kinds    == {"single", "seeded", "loops", "continuous"}
Working  == {"park", "reset", "census", "attempt"}
Sorters  == {s \in Starts : runPc[s] \in Working}
LoopMode(s) == kind[s] \in {"loops", "continuous"}
LastLoop(s) == kind[s] # "continuous" /\ loopIndex[s] + 1 >= wanted[s]

Init ==
    /\ state = "idle"
    /\ cancel = FALSE
    /\ startPc = [s \in Starts |-> "idle"]
    /\ runPc = [s \in Starts |-> "none"]
    /\ kind = [s \in Starts |-> "single"]
    /\ wanted = [s \in Starts |-> 1]
    /\ loopIndex = [s \in Starts |-> 0]
    /\ errors = [s \in Starts |-> 0]
    /\ rollup = [loop |-> 0, completed |-> 0, errored |-> 0]
    /\ nextId = 0
    /\ log = <<>>
    /\ attempt = [s \in Starts |-> 0]
    /\ stopAsked = {}
    /\ latest = NoRun
    /\ base = 0
    /\ met = {}
    /\ overlap = FALSE

-----------------------------------------------------------------------------
(***************************************************************************)
(* do_command.                                                             *)
(***************************************************************************)
\* History: a start that is let through although a run is at work.
LetThrough(s) == met' =
    IF startPc'[s] = "probing" /\ Sorters # {} THEN met \cup {s} ELSE met

\* Seeded fault: only a running conductor refuses a start, not a stopping one.
StartArrivesWhileStopping(s) ==
    /\ startPc[s] = "idle"
    /\ nextId < MaxRecords
    /\ startPc' = [startPc EXCEPT ![s] = IF state = "running" THEN "refused" ELSE "probing"]
    /\ LetThrough(s)
    /\ UNCHANGED <<state, cancel, runVars, kind, wanted, latest, base, overlap>>
    /\ UNCHANGED <<logVars, stopAsked>>

\* The first half of _handle_start, up to the await on the arm's is_moving().
StartArrives(s) ==
    /\ startPc[s] = "idle"
    /\ nextId < MaxRecords
    /\ startPc' = [startPc EXCEPT ![s] =
           IF state \in {"running", "stopping"} THEN "refused" ELSE "probing"]
    /\ LetThrough(s)
    /\ UNCHANGED <<state, cancel, runVars, kind, wanted, latest, base, overlap>>
    /\ UNCHANGED <<logVars, stopAsked>>

\* The arm is UNAVAILABLE, or the command's numbers do not convert.
StartRaises(s) ==
    /\ startPc[s] = "probing"
    /\ startPc' = [startPc EXCEPT ![s] = "raised"]
    /\ UNCHANGED <<state, cancel, runVars, kind, wanted, latest, base, met, overlap>>
    /\ UNCHANGED <<logVars, stopAsked>>

\* The second half of _handle_start: nothing is checked again, so it may find
\* that another start has been accepted during the await.
StartAccepted(s) ==
    /\ startPc[s] = "probing"
    /\ startPc' = [startPc EXCEPT ![s] = "accepted"]
    /\ \E k \in Kinds : kind' = [kind EXCEPT ![s] = k]
    /\ \E n \in IF kind'[s] = "loops" THEN 1..MaxLoops ELSE {1} :
           wanted' = [wanted EXCEPT ![s] = n]
    /\ state' = "running"
    /\ cancel' = FALSE
    /\ rollup' = [loop |-> 0, completed |-> 0, errored |-> 0]
    /\ runPc' = [runPc EXCEPT ![s] = "park"]
    /\ latest' = s
    /\ base' = nextId
    /\ overlap' = (Sorters # {} /\ (overlap \/ s \notin met))
    /\ met' = {}
    /\ UNCHANGED <<loopIndex, errors, attempt, nextId, log, stopAsked>>

\* Seeded fault: a stop changes the state that is shown and cancels nothing.
StopOnlyShows ==
    /\ state' = IF state = "running" THEN "stopping" ELSE state
    /\ stopAsked' = stopAsked \cup Sorters
    /\ UNCHANGED <<cancel, runVars, askVars, logVars>>

\* _handle_stop.
Stop ==
    /\ state' = IF state = "running" THEN "stopping" ELSE state
    /\ cancel' = TRUE
    /\ stopAsked' = stopAsked \cup Sorters
    /\ UNCHANGED <<runVars, askVars, logVars>>

-----------------------------------------------------------------------------
(***************************************************************************)
(* _run.                                                                   *)
(***************************************************************************)
\* The run leaves its loop; the finally of _run, up to the await on _park().
Finish(s, outcome) ==
    /\ state' = outcome
    /\ cancel' = FALSE
    /\ runPc' = [runPc EXCEPT ![s] = "home"]
    /\ UNCHANGED loopIndex

EndOfRun == IF cancel THEN "idle" ELSE "complete"

NextLoop(s) ==
    /\ loopIndex' = [loopIndex EXCEPT ![s] = @ + 1]
    /\ runPc' = [runPc EXCEPT ![s] = "reset"]
    /\ UNCHANGED <<state, cancel>>

\* _record_loop: one more record, the oldest dropped beyond the window.
Record(s, failed) ==
    LET records == Append(log, [id |-> nextId + 1, run |-> s, error |-> failed])
    IN  /\ nextId' = nextId + 1
        /\ log' = IF Len(records) > Window THEN Tail(records) ELSE records

\* The first _park() returns.
Parked(s) ==
    /\ runPc[s] = "park"
    /\ IF cancel
         THEN Finish(s, "idle") /\ UNCHANGED rollup
         ELSE /\ runPc' = [runPc EXCEPT ![s] = IF kind[s] = "single" THEN "census" ELSE "reset"]
              /\ rollup' = [rollup EXCEPT !.loop = 1]
              /\ UNCHANGED <<state, cancel, loopIndex>>
    /\ UNCHANGED <<errors, attempt, askVars, nextId, log, stopAsked>>

\* The first _park() raises.
ParkRaises(s) ==
    /\ runPc[s] = "park"
    /\ Finish(s, "failed")
    /\ UNCHANGED <<errors, attempt, askVars, logVars, stopAsked>>

\* clear_cell and scatter_cell return.
ResetDone(s) ==
    /\ runPc[s] = "reset"
    /\ nextId < MaxRecords \/ cancel
    /\ runPc' = [runPc EXCEPT ![s] = "census"]
    /\ UNCHANGED <<state, cancel, loopIndex, errors, attempt, askVars, logVars, stopAsked>>

\* Seeded fault: an attempt begins without looking at the cancel flag.
AttemptBeginsAnyway(s) ==
    /\ runPc[s] \in {"census", "attempt"}
    /\ runPc' = [runPc EXCEPT ![s] = "attempt"]
    /\ attempt' = [attempt EXCEPT ![s] = 1 - @]
    /\ UNCHANGED <<state, cancel, loopIndex, errors, askVars, logVars, stopAsked>>

\* The next item of the work list, after a census or after another attempt.
AttemptBegins(s) ==
    /\ runPc[s] \in {"census", "attempt"}
    /\ ~cancel
    /\ runPc' = [runPc EXCEPT ![s] = "attempt"]
    /\ attempt' = [attempt EXCEPT ![s] = 1 - @]
    /\ UNCHANGED <<state, cancel, loopIndex, errors, askVars, logVars, stopAsked>>

\* The next pass of _run_one_loop.
NextPass(s) ==
    /\ runPc[s] = "attempt"
    /\ ~cancel
    /\ runPc' = [runPc EXCEPT ![s] = "census"]
    /\ UNCHANGED <<state, cancel, loopIndex, errors, attempt, askVars, logVars, stopAsked>>

\* Seeded fault: a loop that completes forgives no earlier error.
LoopCompletesForgivesNothing(s) ==
    /\ runPc[s] \in {"census", "attempt"}
    /\ Record(s, FALSE)
    /\ IF cancel \/ LastLoop(s)
         THEN Finish(s, EndOfRun) /\ rollup' = [rollup EXCEPT !.completed = @ + 1]
         ELSE NextLoop(s) /\ rollup' = [rollup EXCEPT !.completed = @ + 1,
                                                    !.loop = loopIndex'[s] + 1]
    /\ UNCHANGED <<errors, attempt, askVars, stopAsked>>

\* _run_one_loop() returns: every pass it wanted is over, or it was cancelled.
LoopCompletes(s) ==
    /\ runPc[s] \in {"census", "attempt"}
    /\ Record(s, FALSE)
    /\ errors' = [errors EXCEPT ![s] = 0]
    /\ IF cancel \/ LastLoop(s)
         THEN Finish(s, EndOfRun) /\ rollup' = [rollup EXCEPT !.completed = @ + 1]
         ELSE NextLoop(s) /\ rollup' = [rollup EXCEPT !.completed = @ + 1,
                                                    !.loop = loopIndex'[s] + 1]
    /\ UNCHANGED <<attempt, askVars, stopAsked>>

\* clear_cell, scatter_cell or a census raises.  A failed loop is recorded and
\* skipped; a single sort, or MaxErrors failed loops in a row, end the run.
LoopFails(s) ==
    /\ runPc[s] \in {"reset", "census"}
    /\ runPc[s] = "reset" => nextId < MaxRecords \/ cancel
    /\ Record(s, TRUE)
    /\ errors' = [errors EXCEPT ![s] = @ + 1]
    /\ LET counted == [rollup EXCEPT !.errored = @ + 1] IN
       IF ~LoopMode(s) \/ errors'[s] >= MaxErrors
         THEN Finish(s, "failed") /\ rollup' = counted
       ELSE IF cancel \/ LastLoop(s)
         THEN Finish(s, EndOfRun) /\ rollup' = counted
         ELSE NextLoop(s) /\ rollup' = [counted EXCEPT !.loop = loopIndex'[s] + 1]
    /\ UNCHANGED <<attempt, askVars, stopAsked>>

\* The last _park() returns or raises; neither changes the outcome.
Home(s) ==
    /\ runPc[s] = "home"
    /\ runPc' = [runPc EXCEPT ![s] = "ended"]
    /\ UNCHANGED <<state, cancel, loopIndex, errors, attempt, askVars, logVars, stopAsked>>

RunTask(s) ==
    \/ Parked(s) \/ ParkRaises(s) \/ ResetDone(s)
    \/ AttemptBegins(s) \/ NextPass(s) \/ LoopCompletes(s) \/ LoopFails(s)
    \/ Home(s)

Command(s) == StartArrives(s) \/ StartRaises(s) \/ StartAccepted(s)

\* Nothing has to happen once every start is answered and every run is over.
Quiet ==
    /\ \A s \in Starts : startPc[s] # "probing" /\ runPc[s] \in {"none", "ended"}
    /\ UNCHANGED vars

Next ==
    \/ \E s \in Starts : Command(s) \/ RunTask(s)
    \/ Stop
    \/ Quiet

Spec == Init /\ [][Next]_vars

\* The event loop resumes every coroutine whose await is over, and the awaits
\* of a run - motions, vision and world calls - return or raise.
FairSpec == Spec /\ \A s \in Starts : WF_vars(RunTask(s))

-----------------------------------------------------------------------------
\* The log is the window that ends with the newest record: no record is lost,
\* repeated or reordered inside it, whichever runs wrote them.
LogIsWindow ==
    /\ Len(log) <= Window
    /\ Len(log) = Window \/ Len(log) = nextId
    /\ \A i \in DOMAIN log : log[i].id = nextId - Len(log) + i

\* The rollup that status shows belongs to the last run accepted and counts
\* exactly the loops that run has put on record.
RollupMatchesRecords == rollup.completed + rollup.errored = nextId - base

\* "complete" means that every loop asked for took place, completed or errored.
CompleteMeansAllLoops ==
    state = "complete" =>
        /\ kind[latest] # "continuous"
        /\ rollup.completed + rollup.errored = wanted[latest]
        /\ rollup.loop = wanted[latest]

\* Only MaxErrors loops in a row fail a run of several loops: the log of a
\* failed one ends with them, unless it failed before its first loop.
FailedMeansErrorsInARow ==
    /\ state = "failed" /\ LoopMode(latest) /\ nextId > base
    /\ MaxErrors <= Window
    => /\ Len(log) >= MaxErrors
       /\ \A i \in (Len(log) - MaxErrors + 1)..Len(log) :
            log[i].error /\ log[i].run = latest

\* What status shows of a run, its rollup and its final state, is what its
\* loops put on record, over loops that complete, fail and are cut short.
OutcomesMatchLoops ==
    RollupMatchesRecords /\ CompleteMeansAllLoops /\ FailedMeansErrorsInARow

\* Log, rollup and state tell one story, and it is what took place.  The log
\* does whatever starts overlap; rollup and state do unless the last run began
\* while another was at work, when the two count in one rollup.
StatusIsTrue == LogIsWindow /\ (~overlap => OutcomesMatchLoops)

\* A run that a stop command found at work begins no attempt and no loop
\* afterwards, whatever it was waiting for and whatever is sent after the stop.
\* The one thing that revives it is a start that was checked before the run
\* began and is accepted beside it: that clears the flag.
NoWorkAfterStop ==
    [][~overlap => \A s \in stopAsked :
          attempt'[s] = attempt[s] /\ loopIndex'[s] = loopIndex[s]]_vars

\* A stopping conductor ends its run: it becomes idle, or failed when the
\* await it was in raises, and never runs on to "complete", unless a start
\* that was checked earlier is accepted beside the run.
StopEndsRun == state = "stopping" ~> state \in {"idle", "failed"} \/ overlap

Job == INSTANCE SortJob WITH
    phase <- CASE state = "running"  -> "busy"
               [] state = "stopping" -> "stopping"
               [] OTHER              -> "ready",
    sorters <- Sorters

\* Seen from outside, the conductor is one job at a time, but for the steps in
\* which a start is accepted beside a run at work and for what follows them
\* until a start finds nobody at work again.
ImplementsSortJob == Job!Init /\ [][overlap' \/ Job!Next]_(Job!vars)

(***************************************************************************)
(* What the source says of itself and the code does not do.                *)
(***************************************************************************)
\* docs/BLOCK_SORTING.md:361: "A second `start` while a run is already in
\* progress is a no-op that leaves the running run untouched."  A start that
\* was checked before the run began is accepted while it is in progress.
SecondStartIsNoOp == [][latest' # latest => state \notin {"running", "stopping"}]_vars
=============================================================================
