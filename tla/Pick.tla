---------------------------------- MODULE Pick ----------------------------------
(***************************************************************************)
(* The loop of SortLoop with every await of PickPipeline.run() of          *)
(* src/pickcell/pipeline.py, configured as _run_one of the conductor       *)
(* configures it: no scan centre, so the ladder of looks has one rung; the *)
(* scatter zone as the keep-out of the carry; a pad, which every cell has; *)
(* and none of the probes of the checklist scripts.                        *)
(*                                                                         *)
(* Each step that moves a block is the one of SortLoop.  What is added is  *)
(* the order of the moves, which of them has another to fall back on, and  *)
(* the props that the world leaves out of the planner's obstacles while a  *)
(* pick reaches for them.                                                  *)
(***************************************************************************)
EXTENDS SortLoop

VARIABLES
    step,           \* what run() awaits
    verdict,        \* what run() will return or raise once its finally is done
    ignored,        \* _ignored_props of the world
    unheard         \* the last ignore_props call raised, heard or not

runVars  == <<step, verdict, ignored, unheard>>
pickVars == <<vars, runVars>>

\* Where each await goes when it returns ...
After == [
    scene        |-> "look",
    look         |-> "detect",
    look_free    |-> "detect",
    detect       |-> "open",
    above        |-> "reach",
    above_linear |-> "reach",
    reach        |-> "grab",
    lift         |-> "raise",
    raise        |-> "carry",
    carry        |-> "linear",
    carry_linear |-> "linear",
    linear       |-> "release",
    planned      |-> "release",
    half         |-> "release",
    retreat      |-> "report",
    retreat_free |-> "report"]

\* Seeded fault: the descents start over once all of them were refused.
FallbackStartsOver == [
    look         |-> "look_free",
    above        |-> "above_linear",
    carry        |-> "carry_linear",
    linear       |-> "planned",
    planned      |-> "half",
    half         |-> "linear",
    retreat      |-> "retreat_free"]

\* ... and the moves that have another to fall back on when they are refused:
\* look and approach inside the keep-out, the carry, three descents over the
\* pad and the drop from the hover pose, the retreat.
Fallback == [
    look         |-> "look_free",
    above        |-> "above_linear",
    carry        |-> "carry_linear",
    linear       |-> "planned",
    planned      |-> "half",
    half         |-> "hover",
    retreat      |-> "retreat_free"]

Steps     == DOMAIN After \cup {"none", "ignore", "open", "grab", "release", "hover", "report", "restore"}
InTry     == Steps \ {"none", "ignore"}
CanRaise  == InTry \ (DOMAIN Fallback \cup {"restore"})
NewVerdict(v) == step' = "restore" /\ verdict' = v

PickInit ==
    /\ Init
    /\ step = "none" /\ verdict = "none"
    /\ ignored = {} /\ unheard = FALSE

-----------------------------------------------------------------------------
\* The loop outside of run(), and the item that starts it.
Outside ==
    /\ \/ Census \/ CensusRaises \/ PassEnds \/ Over
       \/ \E b \in Blocks : TakeOversize(b)
    /\ UNCHANGED runVars

Starts ==
    /\ \E b \in Blocks : TakeItem(b)
    /\ step' = IF pc' = "approach" THEN "ignore" ELSE "none"
    /\ UNCHANGED <<verdict, ignored, unheard>>

Stops == Stop /\ UNCHANGED runVars

\* How the attempt is booked, wherever it ended.
Books(result) ==
    /\ step' = "none" /\ verdict' = "none"
    /\ IF result = "placed" THEN PickDone ELSE PickFails \/ CarryFails \/ RetreatFails
    /\ outcome'[current] = result

\* run() has the target ignored before it enters its try.
Ignores ==
    /\ step = "ignore"
    /\ step' = "scene"
    /\ ignored' = {current} /\ unheard' = FALSE
    /\ UNCHANGED <<vars, verdict>>

\* That call raises, with or without effect, and no finally follows.
IgnoreFails ==
    /\ step = "ignore"
    /\ ignored' \in {ignored, {current}} /\ unheard' = TRUE
    /\ Books("failed")

\* A move arrives, a detection or a query answers.
Returns ==
    /\ step \in DOMAIN After
    /\ step' = After[step]
    /\ UNCHANGED <<vars, verdict, ignored, unheard>>

\* A move is refused, by the planner or on its way, and another one is tried.
Refused ==
    /\ step \in DOMAIN Fallback
    /\ step' = Fallback[step]
    /\ UNCHANGED <<vars, verdict, ignored, unheard>>

\* Seeded fault: an exception leaves run() past its finally.
RaisesPastFinally ==
    /\ step \in CanRaise
    /\ Books("failed")
    /\ UNCHANGED <<ignored, unheard>>

\* Any other await raises: no detection or an implausible one, a move without
\* another to try, a grab that holds nothing, a failed call.
Raises ==
    /\ step \in CanRaise
    /\ NewVerdict("failed")
    /\ UNCHANGED <<vars, ignored, unheard>>

\* JawLimitError.
TooWide ==
    /\ step = "detect"
    /\ NewVerdict("skipped_oversize")
    /\ UNCHANGED <<vars, ignored, unheard>>

\* The jaw opens; the waypoint is left out when the look ended above the block.
Opens ==
    /\ step = "open"
    /\ OpenJaw
    /\ step' \in {"above", "reach"}
    /\ UNCHANGED <<verdict, ignored, unheard>>

Grabs ==
    /\ step = "grab"
    /\ Grab
    /\ step' = "lift"
    /\ UNCHANGED <<verdict, ignored, unheard>>

\* A block that is dropped from the hover pose needs no retreat.
Releases ==
    /\ step \in {"release", "hover"}
    /\ Release
    /\ step' = IF step = "release" THEN "retreat" ELSE "report"
    /\ UNCHANGED <<verdict, ignored, unheard>>

Reports ==
    /\ step = "report"
    /\ NewVerdict("placed")
    /\ UNCHANGED <<vars, ignored, unheard>>

\* The finally of run().
Restores ==
    /\ step = "restore"
    /\ ignored' = {} /\ unheard' = FALSE
    /\ Books(verdict)

\* It raises, in place of what run() was about to return or to raise.
RestoreFails ==
    /\ step = "restore"
    /\ ignored' \in {ignored, {}} /\ unheard' = TRUE
    /\ Books("failed")

Progress ==
    \/ Outside \/ Starts
    \/ Ignores \/ IgnoreFails
    \/ Returns \/ Refused \/ Raises \/ TooWide
    \/ Opens \/ Grabs \/ Releases \/ Reports
    \/ Restores \/ RestoreFails

PickNext == Progress \/ Stops

PickSpec == PickInit /\ [][PickNext]_pickVars

\* Every await of the one coroutine ends.
PickFairSpec == PickSpec /\ WF_pickVars(Progress)

-----------------------------------------------------------------------------
\* While a pick moves, the planner leaves out its target and nothing else; in
\* a census and between the picks it leaves out nothing, however the last pick
\* ended, unless the last ignore_props raised itself.
IgnoreFitsTheMotion ==
    ~unheard => ignored = IF step \in InTry THEN {current} ELSE {}

\* What hangs in the jaw is one block: the one being carried, or one whose
\* last attempt is booked as failed.  No pick reaches for a second.
JawIsAccountedFor == \A a, b \in Blocks :
    at[a] = "held" =>
        /\ a = current \/ outcome[a] = "failed"
        /\ at[b] = "held" => a = b

\* A loop ends: no ladder of retries, of moves, attempts or passes is endless.
LoopEnds == <>(pc \in {"done", "errored"})

(***************************************************************************)
(* What the source says of itself and the code does not do.                *)
(***************************************************************************)
\* models/conductor.py:822: the keep-out of a carry is sized by the "tallest
\* block standing on the pads so far this loop", that is, of those it counts.
PadsAreCounted == step = "carry" => \A b \in Blocks : at[b] = "pad" => outcome[b] = "placed"
=============================================================================
