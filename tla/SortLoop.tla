------------------------------- MODULE SortLoop -------------------------------
(***************************************************************************)
(* One loop of the conductor: _run_one_loop and _run_one of                *)
(* src/isaac_module/models/conductor.py, with the SlotTracker of           *)
(* sort_plan.py and the steps of pickcell's PickPipeline that move a block.*)
(*                                                                         *)
(* A pass is a census, whose detections are resolved to blocks, and one    *)
(* attempt per block found and not handled yet.  What the conductor books  *)
(* (outcomes, attempts, slots) is modelled beside what is physically so    *)
(* (where each block is), because the two part when a pick fails late.     *)
(* Detections that resolve to no block have no effect but an entry in the  *)
(* outcomes and are left out.  The scatter keeps blocks further apart than *)
(* a census merges or matches, so a merged item is of one block; what two  *)
(* blocks may share is the name of their items.                            *)
(***************************************************************************)
EXTENDS Integers, Sequences, SequencesExt, FiniteSets

CONSTANTS
    Blocks,
    Colors,
    Color,          \* the colour of each block: which pad it belongs on
    Fires,          \* the colours whose detector fires on a block of a colour
    Looks,          \* the look poses of a census
    Indices,        \* the places of a segment in a detector's answer
    NoBlock,
    Slots,          \* Len(PAD_SLOT_OFFSETS_MM)
    MaxPasses,      \* MAX_PASSES
    MaxAttempts     \* MAX_ATTEMPTS_PER_BLOCK

\* The cell has a slot for every block of a colour (POOL_BLOCKS_PER_COLOR).
ASSUME LoopAssumption ==
    /\ NoBlock \notin Blocks
    /\ IsFiniteSet(Blocks)
    /\ Color \in [Blocks -> Colors]
    /\ Fires \in [Colors -> (SUBSET Colors) \ {{}}]
    /\ Slots \in Nat
    /\ \A c \in Colors : Cardinality({b \in Blocks : Color[b] = c}) <= Slots
    /\ MaxPasses \in Nat \ {0}
    /\ MaxAttempts \in Nat \ {0}

VARIABLES
    \* _run_one_loop
    pc, cancel,
    pass,           \* pass_number
    remaining,      \* _remaining
    current,        \* _current
    attempts,       \* attempts_by_prim
    handled,        \* handled_prims
    outcome,        \* _outcomes
    placedNow, failedNow,   \* placed_this_pass, failed_this_pass
    seen,           \* the blocks any census of the loop found (history)
    shadowed,       \* those of them that lost their item to a namesake (history)
    \* SlotTracker, by colour
    nextIndex, released, held,
    slot,           \* the slot each block's last attempt drew
    \* the cell
    at,             \* where each block is
    onSlot          \* the pad slot it stands on

loopVars == <<pass, remaining, handled, seen, shadowed>>
bookVars == <<attempts, outcome, placedNow, failedNow>>
slotVars == <<nextIndex, released, held, slot>>
cellVars == <<at, onSlot>>
vars     == <<pc, cancel, current, loopVars, bookVars, slotVars, cellVars>>

Pcs      == {"census", "items", "approach", "open", "carry", "retreat", "done", "errored"}
Outcomes == {"none", "placed", "skipped_oversize", "failed"}
Places   == {"zone", "held", "pad", "gone"}

Init ==
    /\ pc = "census"
    /\ cancel \in BOOLEAN
    /\ pass = 1
    /\ remaining = <<>>
    /\ current = NoBlock
    /\ attempts = [b \in Blocks |-> 0]
    /\ handled = {}
    /\ outcome = [b \in Blocks |-> "none"]
    /\ placedNow = 0 /\ failedNow = 0
    /\ seen = {} /\ shadowed = {}
    /\ nextIndex = [c \in Colors |-> 0]
    /\ released = [c \in Colors |-> <<>>]
    /\ held = [c \in Colors |-> {}]
    /\ slot = [b \in Blocks |-> 0]
    /\ at = [b \in Blocks |-> "zone"]
    /\ onSlot = [b \in Blocks |-> 0]

-----------------------------------------------------------------------------
(***************************************************************************)
(* The census.                                                             *)
(***************************************************************************)
\* What _scan_work_list leaves of every block found: of its segments at the
\* three looks, those of another colour's detector included, the one seen least
\* obliquely.  An item carries its detector's colour and its place in that
\* detector's answer, so it has its name alone at its look only.
Items(found) ==
    {item \in [found -> [look : Looks, by : Colors, index : Indices]] :
        /\ \A b \in found : item[b].by \in Fires[Color[b]]
        /\ \A a, b \in found : item[a] = item[b] => a = b}

Name(item) == <<item.by, item.index>>

\* _resolve_prims: items claim blocks in the order of their distance, by name,
\* so of the items that share a name one is matched, and the others are neither
\* matched nor reported.
Resolves(found, item) ==
    {matched \in SUBSET found :
        \A b \in found : Cardinality({a \in matched : Name(item[a]) = Name(item[b])}) = 1}

\* The part of a census that the loop goes on with.
CensusFinds(found, matched, again) ==
    /\ seen' = seen \cup found
    /\ shadowed' = shadowed \cup (found \ matched)
    /\ remaining' \in SetToSeqs(matched \ again)
    /\ pc' = "items"
    /\ placedNow' = 0 /\ failedNow' = 0

\* Seeded fault: the census brings back blocks that are handled already.
CensusBringsAllBack ==
    /\ pc = "census"
    /\ \E found \in SUBSET {b \in Blocks : at[b] = "zone"} :
         \E item \in Items(found) : \E matched \in Resolves(found, item) :
            CensusFinds(found, matched, {})
    /\ UNCHANGED <<cancel, current, pass, attempts, handled, outcome, slotVars, cellVars>>

\* _scan_work_list and _resolve_prims return: vision finds some of the blocks
\* in the scatter zone, in an order that depends on where they lie.
Census ==
    /\ pc = "census"
    /\ \E found \in SUBSET {b \in Blocks : at[b] = "zone"} :
         \E item \in Items(found) : \E matched \in Resolves(found, item) :
            CensusFinds(found, matched, handled)
    /\ UNCHANGED <<cancel, current, pass, attempts, handled, outcome, slotVars, cellVars>>

\* A look, a detection or the world query raises through the loop.
CensusRaises ==
    /\ pc = "census"
    /\ pc' = "errored"
    /\ UNCHANGED <<cancel, current, loopVars, bookVars, slotVars, cellVars>>

\* What is booked once an attempt at b is over.
Book(b, result) ==
    /\ outcome' = [outcome EXCEPT ![b] = result]
    /\ placedNow' = placedNow + (IF result = "placed" THEN 1 ELSE 0)
    /\ failedNow' = failedNow + (IF result = "failed" THEN 1 ELSE 0)
    /\ handled' = IF result # "failed" \/ attempts'[b] >= MaxAttempts
                    THEN handled \cup {b} ELSE handled
    /\ current' = NoBlock
    /\ pc' = "items"

\* The attempt that is under way ends.
EndAttempt(result) == UNCHANGED attempts /\ Book(current, result)

\* The head of the work list becomes the current item.
Take(b) ==
    /\ pc = "items"
    /\ ~cancel
    /\ remaining # <<>>
    /\ b = Head(remaining)
    /\ remaining' = Tail(remaining)
    /\ attempts' = [attempts EXCEPT ![b] = @ + 1]

\* _run_one measures the item as too big for the jaw: no await, no slot.
TakeOversize(b) ==
    /\ Take(b)
    /\ Book(b, "skipped_oversize")
    /\ UNCHANGED <<cancel, pass, seen, shadowed, slotVars, cellVars>>

\* SlotTracker.next_slot: a released slot first, the last one released
\* before the others; else the next that was never drawn.
Draw(b) ==
    LET c == Color[b]
        s == IF released[c] # <<>> THEN Last(released[c]) ELSE nextIndex[c] + 1
    IN  /\ released[c] # <<>> \/ nextIndex[c] < Slots
        /\ released' = [released EXCEPT ![c] = IF @ # <<>> THEN Front(@) ELSE @]
        /\ nextIndex' = [nextIndex EXCEPT ![c] = IF released[c] # <<>> THEN @ ELSE @ + 1]
        /\ held' = [held EXCEPT ![c] = @ \cup {s}]
        /\ slot' = [slot EXCEPT ![b] = s]

NoFreeSlot(c) == released[c] = <<>> /\ nextIndex[c] >= Slots

\* _run_one draws a slot and starts the pipeline; with no slot left the
\* attempt fails on the spot.
TakeItem(b) ==
    /\ Take(b)
    /\ IF NoFreeSlot(Color[b])
         THEN Book(b, "failed") /\ UNCHANGED slotVars
         ELSE /\ Draw(b)
              /\ current' = b
              /\ pc' = "approach"
              /\ UNCHANGED <<outcome, placedNow, failedNow, handled>>
    /\ UNCHANGED <<cancel, pass, seen, shadowed, cellVars>>

\* SlotTracker.release.
HandBack(b) ==
    /\ held' = [held EXCEPT ![Color[b]] = @ \ {slot[b]}]
    /\ released' = [released EXCEPT ![Color[b]] = Append(@, slot[b])]
    /\ UNCHANGED <<nextIndex, slot>>

-----------------------------------------------------------------------------
(***************************************************************************)
(* PickPipeline.run(), as far as it moves blocks.                          *)
(***************************************************************************)
\* A look, a detection, a move or the grab fails; or the block turns out to
\* be too wide for the jaw.  It stays where it was.
PickFails ==
    /\ pc \in {"approach", "open"}
    /\ \/ EndAttempt("failed")
       \/ pc = "approach" /\ EndAttempt("skipped_oversize")
    /\ HandBack(current)
    /\ UNCHANGED <<cancel, pass, remaining, seen, shadowed, cellVars>>

\* Seeded fault: the jaw is left as it is.
JawStaysAsItIs ==
    /\ pc = "approach"
    /\ pc' = "open"
    /\ UNCHANGED <<cancel, current, loopVars, bookVars, slotVars, cellVars>>

\* gripper.open() above the block: what an earlier attempt left in the jaw
\* falls, into the scatter zone or away from it.
OpenJaw ==
    /\ pc = "approach"
    /\ pc' = "open"
    /\ \E fallen \in {"zone", "gone"} :
         at' = [b \in Blocks |-> IF at[b] = "held" THEN fallen ELSE at[b]]
    /\ UNCHANGED <<cancel, current, loopVars, bookVars, slotVars, onSlot>>

\* gripper.grab() reports a hold.
Grab ==
    /\ pc = "open"
    /\ pc' = "carry"
    /\ at' = [at EXCEPT ![current] = "held"]
    /\ UNCHANGED <<cancel, current, loopVars, bookVars, slotVars, onSlot>>

\* The lift or every way to carry fails: the block stays in the jaw.
CarryFails ==
    /\ pc = "carry"
    /\ EndAttempt("failed")
    /\ HandBack(current)
    /\ UNCHANGED <<cancel, pass, remaining, seen, shadowed, cellVars>>

\* gripper.open() over the pad.  The block stands on its slot, unless it
\* slipped from the jaw unnoticed on the way or missed the pad.
Release ==
    /\ pc = "carry"
    /\ pc' = "retreat"
    /\ \E p \in {"pad", "zone", "gone"} :
         /\ at' = [at EXCEPT ![current] = p]
         /\ onSlot' = [onSlot EXCEPT ![current] = IF p = "pad" THEN slot[current] ELSE 0]
    /\ UNCHANGED <<cancel, current, loopVars, bookVars, slotVars>>

\* Seeded fault: the slot of a placed block is handed back as well.
PickDoneHandsBack ==
    /\ pc = "retreat"
    /\ EndAttempt("placed")
    /\ HandBack(current)
    /\ UNCHANGED <<cancel, pass, remaining, seen, shadowed, cellVars>>

\* The retreat, the placement report and ignore_props([]) succeed.  The
\* report says whether the block stands on the pad, and nothing reads it.
PickDone ==
    /\ pc = "retreat"
    /\ EndAttempt("placed")
    /\ UNCHANGED <<cancel, pass, remaining, seen, shadowed, slotVars, cellVars>>

\* One of them raises, after the block was released.
RetreatFails ==
    /\ pc = "retreat"
    /\ EndAttempt("failed")
    /\ HandBack(current)
    /\ UNCHANGED <<cancel, pass, remaining, seen, shadowed, cellVars>>

-----------------------------------------------------------------------------
LastPass == failedNow = 0 \/ placedNow = 0 \/ pass >= MaxPasses

\* Seeded fault: the first failure of a pass ends it.
PassEndsEarly ==
    /\ pc = "items"
    /\ cancel \/ remaining = <<>> \/ failedNow > 0
    /\ IF cancel \/ LastPass
         THEN pc' = "done" /\ UNCHANGED pass
         ELSE pc' = "census" /\ pass' = pass + 1
    /\ UNCHANGED <<cancel, current, remaining, handled, seen, shadowed, bookVars, slotVars, cellVars>>

\* The work list is done or the run is cancelled.
PassEnds ==
    /\ pc = "items"
    /\ cancel \/ remaining = <<>>
    /\ IF cancel \/ LastPass
         THEN pc' = "done" /\ UNCHANGED pass
         ELSE pc' = "census" /\ pass' = pass + 1
    /\ UNCHANGED <<cancel, current, remaining, handled, seen, shadowed, bookVars, slotVars, cellVars>>

\* A stop command, at any await of the loop.
Stop ==
    /\ pc \notin {"items", "done", "errored"}
    /\ cancel' = TRUE
    /\ UNCHANGED <<pc, current, loopVars, bookVars, slotVars, cellVars>>

Over == pc \in {"done", "errored"} /\ UNCHANGED vars

Pipeline ==
    PickFails \/ OpenJaw \/ Grab \/ CarryFails \/ Release \/ PickDone \/ RetreatFails

Next ==
    \/ Census \/ CensusRaises
    \/ \E b \in Blocks : TakeOversize(b) \/ TakeItem(b)
    \/ Pipeline
    \/ PassEnds
    \/ Stop
    \/ Over

Spec == Init /\ [][Next]_vars

-----------------------------------------------------------------------------
\* Two blocks that were booked as placed have different slots of their pad,
\* however often slots were drawn and handed back in between.
PlacedKeepTheirSlots == \A a, b \in Blocks :
    /\ a # b
    /\ Color[a] = Color[b]
    /\ outcome[a] = "placed" /\ outcome[b] = "placed"
    => slot[a] # slot[b]

\* Two blocks stand on one slot of their pad only if the attempt at one of them
\* is over and failed: after its release, when its slot was handed back all the
\* same (FreeSlotsAreFree).
OneBlockToASlot == \A a, b \in Blocks :
    /\ a # b
    /\ Color[a] = Color[b]
    /\ at[a] = "pad" /\ at[b] = "pad"
    /\ onSlot[a] = onSlot[b]
    => \E x \in {a, b} \ {current} : outcome[x] = "failed"

\* Retries never use up a pad: a cell with a slot for every block always has
\* one free for the next item, so no attempt fails for want of a slot.
SlotsNeverRunOut ==
    pc = "items" /\ remaining # <<>> /\ Head(remaining) \notin handled
        => ~NoFreeSlot(Color[Head(remaining)])

\* The pad suffices: retries do not use it up, and a slot goes to a second block
\* only after an attempt that failed once its block was on the pad.
SlotsSuffice == PlacedKeepTheirSlots /\ OneBlockToASlot /\ SlotsNeverRunOut

\* A block that is placed, oversize or out of attempts is not touched again in
\* this loop, even when a later census still sees it in the zone.
HandledIsFinal == [][\A b \in handled : attempts'[b] = attempts[b]]_vars

\* A loop that was not cancelled reports every block its censuses found, but
\* for one that lost its name to another block, one that the same detector
\* fires on and that is reported itself.
SeenBlocksAreReported == pc = "done" /\ ~cancel =>
    \A b \in seen : outcome[b] = "none" =>
        /\ b \in shadowed
        /\ \E a \in seen \ {b} :
              outcome[a] # "none" /\ Fires[Color[a]] \cap Fires[Color[b]] # {}

(***************************************************************************)
(* What the source says of itself and the code does not do.                *)
(***************************************************************************)
\* sort_plan.py:84: a slot is handed back by "an attempt that never placed",
\* and next_slot returns a "free" one: no block stands on a slot that may be
\* drawn.
FreeSlotsAreFree == \A b \in Blocks :
    at[b] = "pad" => onSlot[b] \in held[Color[b]]

\* models/conductor.py:1033: the items that are dropped are those of "a phantom
\* or duplicate segment, never a real block".
NoBlockIsShadowed == pc = "done" /\ ~cancel => \A b \in seen : outcome[b] # "none"
=============================================================================
