------------------------------ MODULE PickProofs ------------------------------
(***************************************************************************)
(* Safety of SortLoop and Pick, for any number of blocks, colours, slots,  *)
(* passes and attempts, and any answer of the detectors: what hangs in the *)
(* jaw, that a block that is dealt with is left alone, what the planner    *)
(* ignores, that a block that was seen is reported, and that a pick taken  *)
(* await by await is one of SortLoop.                                      *)
(*                                                                         *)
(* The loop rests on a work list that holds each block once, and none that *)
(* is in the jaw or dealt with (WorkInv), and on gripper.open() before     *)
(* each grab (HeldInv).                                                    *)
(***************************************************************************)
EXTENDS Pick, FiniteSetTheorems, SequenceTheorems, TLAPS

Picking == {"approach", "open", "carry", "retreat"}

BookInv ==
    /\ pc \in Pcs
    /\ current \in Blocks \cup {NoBlock}
    /\ remaining \in Seq(Blocks)
    /\ handled \subseteq Blocks
    /\ attempts \in [Blocks -> Nat]
    /\ outcome \in [Blocks -> Outcomes]
    /\ at \in [Blocks -> Places]
    /\ current = NoBlock <=> pc \notin Picking

\* What is still on the work list of a pass.
WorkInv ==
    /\ \A i, j \in DOMAIN remaining : remaining[i] = remaining[j] => i = j
    /\ \A i \in DOMAIN remaining :
          /\ remaining[i] \notin handled
          /\ remaining[i] # current
          /\ at[remaining[i]] # "held"

\* What is in the jaw: the block that is carried, or, until the next
\* open(), one that an earlier attempt left there.
HeldInv ==
    /\ \A a, b \in Blocks : at[a] = "held" /\ at[b] = "held" => a = b
    /\ \A a \in Blocks : at[a] = "held" =>
          IF a = current THEN pc = "carry"
                         ELSE pc \notin {"open", "carry", "retreat"} /\ outcome[a] = "failed"

LoopInv == BookInv /\ WorkInv /\ HeldInv

-----------------------------------------------------------------------------
(***************************************************************************)
(* The loop.                                                               *)
(***************************************************************************)
\* It begins with nothing on the list and nothing in the jaw.
LEMMA InitLoopInv == Init => LoopInv
<1> SUFFICES ASSUME Init PROVE LoopInv
  OBVIOUS
<1>1. BookInv
  BY DEF Init, BookInv, Pcs, Outcomes, Places, Picking
<1>2. WorkInv
  BY DEF Init, WorkInv
<1>3. HeldInv
  BY DEF Init, HeldInv
<1> QED
  BY <1>1, <1>2, <1>3 DEF LoopInv

\* A census puts blocks of the zone on the list, each once.
LEMMA SequencesOfSet ==
    ASSUME NEW S \in SUBSET Blocks, NEW s \in SetToSeqs(S)
    PROVE  /\ s \in Seq(Blocks)
           /\ \A i \in DOMAIN s : s[i] \in S
           /\ \A i, j \in DOMAIN s : s[i] = s[j] => i = j
<1>1. IsFiniteSet(S)
  BY LoopAssumption, FS_Subset
<1>2. Cardinality(S) \in Nat
  BY <1>1, FS_CardinalityType
<1>3. /\ s \in [1..Cardinality(S) -> S]
      /\ \A i, j \in 1..Cardinality(S) : i # j => s[i] # s[j]
  BY DEF SetToSeqs
<1>4. s \in Seq(S)
  BY <1>2, <1>3
<1> QED
  BY <1>3, <1>4

\* None of them is missing.
LEMMA SequencesCoverSet ==
    ASSUME NEW S \in SUBSET Blocks, NEW s \in SetToSeqs(S), NEW b \in S
    PROVE  \E i \in DOMAIN s : s[i] = b
<1>1. IsFiniteSet(S)
  BY LoopAssumption, FS_Subset
<1>2. Cardinality(S) \in Nat
  BY <1>1, FS_CardinalityType
<1>3. /\ s \in [1..Cardinality(S) -> S]
      /\ \A i, j \in 1..Cardinality(S) : i # j => s[i] # s[j]
  BY DEF SetToSeqs
<1>4. IsFiniteSet(1..Cardinality(S)) /\ Cardinality(1..Cardinality(S)) = Cardinality(S)
  BY <1>2, FS_Interval
<1>5. s \in Injection(1..Cardinality(S), S)
  BY <1>3 DEF Injection, IsInjective
<1>6. s \in Surjection(1..Cardinality(S), S)
  BY <1>1, <1>4, <1>5, FS_Injection
<1> QED
  BY <1>3, <1>6 DEF Surjection

\* A census keeps LoopInv.
LEMMA CensusStep == ASSUME LoopInv, Census PROVE LoopInv'
<1> USE DEF LoopInv
<1>1. PICK found \in SUBSET {b \in Blocks : at[b] = "zone"} :
        \E matched \in SUBSET found : CensusFinds(found, matched, handled)
  BY DEF Census, Resolves
<1>2. PICK matched \in SUBSET found : CensusFinds(found, matched, handled)
  BY <1>1
<1>3. /\ remaining' \in SetToSeqs(matched \ handled)
      /\ matched \ handled \in SUBSET Blocks
  BY <1>1, <1>2 DEF CensusFinds
<1>4. /\ remaining' \in Seq(Blocks)
      /\ \A i \in DOMAIN remaining' : remaining'[i] \in matched \ handled
      /\ \A i, j \in DOMAIN remaining' : remaining'[i] = remaining'[j] => i = j
  BY <1>3, SequencesOfSet
<1>5. /\ pc = "census" /\ pc' = "items" /\ current = NoBlock
      /\ UNCHANGED <<current, handled, attempts, outcome, at>>
  BY <1>2 DEF Census, CensusFinds, BookInv, Picking, cellVars
<1>6. BookInv'
  BY <1>4, <1>5 DEF BookInv, Pcs, Picking
<1>7. WorkInv'
  <2> SUFFICES ASSUME NEW i \in DOMAIN remaining'
               PROVE  /\ remaining'[i] \notin handled
                      /\ remaining'[i] # NoBlock
                      /\ at[remaining'[i]] # "held"
    BY <1>4, <1>5 DEF WorkInv
  <2>1. remaining'[i] \in Blocks /\ at[remaining'[i]] = "zone" /\ remaining'[i] \notin handled
    BY <1>1, <1>2, <1>4
  <2> QED
    BY <2>1, LoopAssumption
<1>8. HeldInv'
  BY <1>5 DEF HeldInv
<1> QED
  BY <1>6, <1>7, <1>8

\* The head of the list is a block to attempt, and the rest is without it.
LEMMA TakeFacts ==
    ASSUME LoopInv, NEW b \in Blocks, Take(b)
    PROVE  /\ pc = "items" /\ current = NoBlock
           /\ b \notin handled /\ at[b] # "held"
           /\ remaining' \in Seq(Blocks)
           /\ attempts' \in [Blocks -> Nat]
           /\ \A i, j \in DOMAIN remaining' : remaining'[i] = remaining'[j] => i = j
           /\ \A i \in DOMAIN remaining' :
                 /\ remaining'[i] \in Blocks \ (handled \cup {b})
                 /\ at[remaining'[i]] # "held"
<1>1. /\ pc = "items" /\ remaining # <<>> /\ b = Head(remaining)
      /\ remaining' = Tail(remaining) /\ remaining \in Seq(Blocks)
      /\ attempts' = [attempts EXCEPT ![b] = @ + 1]
  BY DEF Take, LoopInv, BookInv
<1>2. /\ current = NoBlock
      /\ attempts' \in [Blocks -> Nat]
  BY <1>1 DEF LoopInv, BookInv, Picking
<1>3. /\ 1 \in DOMAIN remaining /\ b = remaining[1]
      /\ remaining' \in Seq(Blocks)
      /\ \A i \in DOMAIN remaining' :
            /\ i \in Nat /\ i + 1 \in DOMAIN remaining /\ i + 1 # 1
            /\ remaining'[i] = remaining[i + 1]
  BY <1>1
<1>4. /\ b \notin handled /\ at[b] # "held"
      /\ \A i \in DOMAIN remaining' :
                 /\ remaining'[i] \in Blocks \ (handled \cup {b})
                 /\ at[remaining'[i]] # "held"
  BY <1>1, <1>3 DEF LoopInv, WorkInv
<1>5. ASSUME NEW i \in DOMAIN remaining', NEW j \in DOMAIN remaining',
             remaining'[i] = remaining'[j]
      PROVE  i = j
  <2>1. remaining[i + 1] = remaining[j + 1] => i + 1 = j + 1
    BY <1>3 DEF LoopInv, WorkInv
  <2> QED
    BY <1>3, <1>5, <2>1
<1> QED
  BY <1>1, <1>2, <1>3, <1>4, <1>5

\* Taking an item off the list keeps LoopInv.
LEMMA TakeStep ==
    ASSUME LoopInv, NEW b \in Blocks, TakeOversize(b) \/ TakeItem(b)
    PROVE  LoopInv'
<1> USE DEF LoopInv
<1>1. Take(b) /\ at' = at
  BY DEF TakeOversize, TakeItem, cellVars
<1>2. CASE \E result \in {"skipped_oversize", "failed"} : Book(b, result)
  <2>1. PICK result \in {"skipped_oversize", "failed"} : Book(b, result)
    BY <1>2
  <2>2. /\ outcome' = [outcome EXCEPT ![b] = result]
        /\ handled' \in {handled, handled \cup {b}}
        /\ current' = NoBlock /\ pc' = "items"
    BY <2>1 DEF Book
  <2>3. BookInv'
    BY <1>1, <2>2, TakeFacts DEF BookInv, Pcs, Outcomes, Picking
  <2>4. WorkInv'
    BY <1>1, <2>2, TakeFacts, LoopAssumption DEF WorkInv
  <2>5. HeldInv'
    BY <1>1, <2>2, TakeFacts, LoopAssumption DEF HeldInv, BookInv
  <2> QED
    BY <2>3, <2>4, <2>5
<1>3. CASE current' = b /\ pc' = "approach" /\ UNCHANGED <<outcome, handled>>
  <2>1. BookInv'
    BY <1>1, <1>3, TakeFacts, LoopAssumption DEF BookInv, Pcs, Picking
  <2>2. WorkInv'
    BY <1>1, <1>3, TakeFacts DEF WorkInv
  <2>3. HeldInv'
    BY <1>1, <1>3, TakeFacts, LoopAssumption DEF HeldInv, BookInv
  <2> QED
    BY <2>1, <2>2, <2>3
<1> QED
  BY <1>2, <1>3 DEF TakeOversize, TakeItem

\* An attempt ends: what is still in the jaw is booked as failed.
LEMMA AttemptEnds ==
    ASSUME LoopInv, NEW result \in Outcomes, EndAttempt(result),
           pc \in Picking, pc = "carry" => result = "failed",
           UNCHANGED <<remaining, at>>
    PROVE  LoopInv'
<1> USE DEF LoopInv
<1>1. /\ outcome' = [outcome EXCEPT ![current] = result]
      /\ handled' \in {handled, handled \cup {current}}
      /\ current' = NoBlock /\ pc' = "items" /\ attempts' = attempts
      /\ current \in Blocks
  BY DEF EndAttempt, Book, BookInv
<1>2. BookInv'
  BY <1>1 DEF BookInv, Pcs, Picking
<1>3. WorkInv'
  BY <1>1, LoopAssumption DEF WorkInv, BookInv
<1>4. HeldInv'
  BY <1>1, LoopAssumption DEF HeldInv, BookInv, Picking
<1> QED
  BY <1>2, <1>3, <1>4

\* The steps of a pick that SortLoop sees keep LoopInv.
LEMMA PipelineStep == ASSUME LoopInv, Pipeline PROVE LoopInv'
<1>1. CASE PickFails \/ CarryFails \/ RetreatFails \/ PickDone
  <2>1. PICK result \in {"failed", "skipped_oversize", "placed"} :
          /\ EndAttempt(result)
          /\ pc = "carry" => result = "failed"
    BY <1>1 DEF PickFails, CarryFails, RetreatFails, PickDone
  <2>2. pc \in Picking /\ UNCHANGED <<remaining, at>>
    BY <1>1 DEF PickFails, CarryFails, RetreatFails, PickDone, Picking, cellVars
  <2> QED
    BY <2>1, <2>2, AttemptEnds DEF Outcomes
<1>2. ASSUME OpenJaw \/ Grab \/ Release
      PROVE  /\ pc' = CASE pc = "approach" -> "open" [] pc = "open" -> "carry" [] OTHER -> "retreat"
             /\ pc \in {"approach", "open", "carry"}
             /\ current \in Blocks
             /\ UNCHANGED <<current, remaining, handled, attempts, outcome>>
  BY <1>2 DEF OpenJaw, Grab, Release, LoopInv, BookInv, Picking, loopVars, bookVars
<1>3. CASE OpenJaw
  <2>1. PICK fallen \in {"zone", "gone"} :
          at' = [b \in Blocks |-> IF at[b] = "held" THEN fallen ELSE at[b]]
    BY <1>3 DEF OpenJaw
  <2>2. pc = "approach" /\ pc' = "open"
    BY <1>3 DEF OpenJaw
  <2>3. \A b \in Blocks : at'[b] # "held"
    BY <2>1
  <2>4. BookInv'
    BY <1>2, <1>3, <2>1, <2>2 DEF LoopInv, BookInv, Pcs, Places, Picking
  <2>5. WorkInv'
    BY <1>2, <1>3, <2>3 DEF LoopInv, BookInv, WorkInv
  <2>6. HeldInv'
    BY <2>3 DEF HeldInv
  <2> QED
    BY <2>4, <2>5, <2>6 DEF LoopInv
<1>4. CASE Grab
  <2>1. pc = "open" /\ pc' = "carry" /\ at' = [at EXCEPT ![current] = "held"]
    BY <1>4 DEF Grab
  <2>2. BookInv'
    BY <1>2, <1>4, <2>1 DEF LoopInv, BookInv, Pcs, Places, Picking
  <2>3. WorkInv'
    BY <1>2, <1>4, <2>1 DEF LoopInv, BookInv, WorkInv
  <2>4. HeldInv'
    BY <1>2, <1>4, <2>1 DEF LoopInv, BookInv, HeldInv
  <2> QED
    BY <2>2, <2>3, <2>4 DEF LoopInv
<1>5. CASE Release
  <2>1. PICK p \in {"pad", "zone", "gone"} : at' = [at EXCEPT ![current] = p]
    BY <1>5 DEF Release
  <2>2. pc = "carry" /\ pc' = "retreat"
    BY <1>5 DEF Release
  <2>3. BookInv'
    BY <1>2, <1>5, <2>1, <2>2 DEF LoopInv, BookInv, Pcs, Places, Picking
  <2>4. WorkInv'
    BY <1>2, <1>5, <2>1 DEF LoopInv, BookInv, WorkInv
  <2>5. HeldInv'
    BY <1>2, <1>5, <2>1, <2>2 DEF LoopInv, BookInv, HeldInv
  <2> QED
    BY <2>3, <2>4, <2>5 DEF LoopInv
<1> QED
  BY <1>1, <1>3, <1>4, <1>5 DEF Pipeline

\* LoopInv is kept by every step of the loop.
LEMMA LoopStep == LoopInv /\ [Next]_vars => LoopInv'
<1> SUFFICES ASSUME LoopInv, [Next]_vars PROVE LoopInv'
  OBVIOUS
<1>1. ASSUME UNCHANGED <<current, remaining, handled, attempts, outcome, at>>,
             \/ UNCHANGED pc
             \/ pc \in {"census", "items"} /\ pc' \in {"census", "items", "done", "errored"}
      PROVE  LoopInv'
  BY <1>1 DEF LoopInv, BookInv, WorkInv, HeldInv, Pcs, Picking
<1>2. CASE UNCHANGED vars \/ CensusRaises \/ PassEnds \/ Stop \/ Over
  BY <1>1, <1>2 DEF vars, CensusRaises, PassEnds, Stop, Over, loopVars, bookVars, cellVars
<1> QED
  BY <1>2, CensusStep, TakeStep, PipelineStep DEF Next

\* LoopInv is an invariant.
LEMMA SpecLoopInv == Spec => []LoopInv
  BY InitLoopInv, LoopStep, PTL DEF Spec

-----------------------------------------------------------------------------
(***************************************************************************)
(* The slots.                                                              *)
(***************************************************************************)
Owners  == {b \in Blocks : outcome[b] = "placed" \/ b = current}
Free(c) == {released[c][i] : i \in DOMAIN released[c]}

\* The slots drawn so far are free, once each, or have one owner each: the
\* block under way, or one that is placed and will not be touched again.
SlotInv ==
    /\ nextIndex \in [Colors -> 0..Slots]
    /\ released \in [Colors -> Seq(1..Slots)]
    /\ held \in [Colors -> SUBSET (1..Slots)]
    /\ slot \in [Blocks -> 0..Slots]
    /\ current \notin handled
    /\ \A b \in Blocks : outcome[b] = "placed" => b \in handled
    /\ \A c \in Colors :
          /\ held[c] \cup Free(c) = 1..nextIndex[c]
          /\ held[c] \cap Free(c) = {}
          /\ \A i, j \in DOMAIN released[c] : released[c][i] = released[c][j] => i = j
          /\ \A s \in held[c] : \E b \in Owners : Color[b] = c /\ slot[b] = s
    /\ \A b \in Owners : slot[b] \in held[Color[b]]
    /\ \A a, b \in Owners : a # b /\ Color[a] = Color[b] => slot[a] # slot[b]

\* At first every slot of every colour is free.
LEMMA InitSlotInv == Init => SlotInv
<1> SUFFICES ASSUME Init PROVE SlotInv
  OBVIOUS
<1>1. /\ nextIndex \in [Colors -> 0..Slots]
      /\ released \in [Colors -> Seq(1..Slots)]
      /\ held \in [Colors -> SUBSET (1..Slots)]
      /\ slot \in [Blocks -> 0..Slots]
  BY LoopAssumption DEF Init
<1>2. Owners = {} /\ current \notin handled
  BY LoopAssumption DEF Init, Owners
<1>3. \A c \in Colors : nextIndex[c] = 0 /\ released[c] = <<>> /\ held[c] = {} /\ Free(c) = {}
  BY DEF Init, Free
<1> QED
  BY <1>1, <1>2, <1>3 DEF SlotInv, Init

\* SlotTracker.next_slot takes a slot that nobody owns.
LEMMA DrawKeepsSlots ==
    ASSUME LoopInv, SlotInv, NEW b \in Blocks, Draw(b), b \notin handled,
           current = NoBlock, current' = b, UNCHANGED <<handled, outcome>>
    PROVE  SlotInv'
<1> DEFINE c == Color[b]
           s == IF released[c] # <<>> THEN Last(released[c]) ELSE nextIndex[c] + 1
<1>0. c \in Colors /\ Slots \in Nat
  BY LoopAssumption
<1>1. /\ released' = [released EXCEPT ![c] = IF @ # <<>> THEN Front(@) ELSE @]
      /\ nextIndex' = [nextIndex EXCEPT ![c] = IF released[c] # <<>> THEN @ ELSE @ + 1]
      /\ held' = [held EXCEPT ![c] = @ \cup {s}]
      /\ slot' = [slot EXCEPT ![b] = s]
      /\ released[c] # <<>> \/ nextIndex[c] < Slots
  BY DEF Draw
<1>2. /\ s \in 1..Slots /\ s \notin held[c]
      /\ nextIndex'[c] \in 0..Slots /\ released'[c] \in Seq(1..Slots)
      /\ held'[c] = held[c] \cup {s}
      /\ held'[c] \cup Free(c)' = 1..nextIndex'[c]
      /\ held'[c] \cap Free(c)' = {}
      /\ \A i, j \in DOMAIN released'[c] : released'[c][i] = released'[c][j] => i = j
  <2>1. CASE released[c] = <<>>
    <3>1. /\ released'[c] = <<>> /\ nextIndex'[c] = nextIndex[c] + 1 /\ s = nextIndex[c] + 1
          /\ held'[c] = held[c] \cup {s}
      BY <1>0, <1>1, <2>1 DEF SlotInv
    <3>2. Free(c) = {} /\ Free(c)' = {}
      BY <2>1, <3>1 DEF Free
    <3>3. held[c] = 1..nextIndex[c] /\ nextIndex[c] \in 0..Slots
      BY <1>0, <3>2 DEF SlotInv
    <3>4. 1..(nextIndex[c] + 1) = (1..nextIndex[c]) \cup {s} /\ s \notin held[c]
      BY <3>1, <3>3
    <3>5. s \in 1..Slots /\ nextIndex'[c] \in 0..Slots
      BY <1>0, <1>1, <2>1, <3>1, <3>3
    <3> QED
      BY <3>1, <3>2, <3>3, <3>4, <3>5
  <2>2. CASE released[c] # <<>>
    <3> DEFINE r == released[c]
    <3>1. r \in Seq(1..Slots) /\ r # <<>>
      BY <1>0, <2>2 DEF SlotInv
    <3>2. /\ released'[c] = Front(r) /\ nextIndex'[c] = nextIndex[c] /\ s = Last(r)
          /\ held'[c] = held[c] \cup {s}
      BY <1>0, <1>1, <2>2 DEF SlotInv
    <3>3. /\ Front(r) \in Seq(1..Slots)
          /\ Len(r) \in DOMAIN r /\ s = r[Len(r)]
          /\ \A i \in DOMAIN Front(r) : i \in DOMAIN r /\ i # Len(r) /\ Front(r)[i] = r[i]
          /\ \A i \in DOMAIN r : i # Len(r) => i \in DOMAIN Front(r)
      <4>1. Len(r) \in Nat \ {0} /\ DOMAIN r = 1..Len(r)
        BY <3>1
      <4>2. /\ Front(r) = [i \in 1..(Len(r) - 1) |-> r[i]]
            /\ s = r[Len(r)]
        BY <3>1, <3>2, <4>1 DEF Front, Last
      <4>3. \A i \in 1..Len(r) : r[i] \in 1..Slots
        BY <3>1, <4>1, ElementOfSeq
      <4>4. Front(r) \in Seq(1..Slots)
        BY <4>1, <4>2, <4>3
      <4> QED
        BY <4>1, <4>2, <4>4
    <3>4. \A i, j \in DOMAIN r : r[i] = r[j] => i = j
      BY <1>0 DEF SlotInv
    <3>5. Free(c) = Free(c)' \cup {s} /\ s \notin Free(c)'
      BY <3>2, <3>3, <3>4 DEF Free
    <3>6. /\ held[c] \cup Free(c) = 1..nextIndex[c] /\ held[c] \cap Free(c) = {}
          /\ nextIndex[c] \in 0..Slots
      BY <1>0 DEF SlotInv
    <3> QED
      BY <1>0, <3>1, <3>2, <3>3, <3>4, <3>5, <3>6
  <2> QED
    BY <2>1, <2>2
<1>3. \A d \in Colors : d # c =>
        /\ released'[d] = released[d] /\ nextIndex'[d] = nextIndex[d] /\ held'[d] = held[d]
        /\ Free(d)' = Free(d)
  BY <1>1 DEF SlotInv, Free
<1>4. Owners' = Owners \cup {b} /\ b \notin Owners
  BY LoopAssumption DEF Owners, SlotInv
<1>5. /\ slot'[b] = s
      /\ \A a \in Owners : a # b /\ slot'[a] = slot[a] /\ a \in Blocks
  BY <1>1, <1>4 DEF SlotInv, Owners
<1>6. /\ nextIndex' \in [Colors -> 0..Slots]
      /\ released' \in [Colors -> Seq(1..Slots)]
      /\ held' \in [Colors -> SUBSET (1..Slots)]
      /\ slot' \in [Blocks -> 0..Slots]
  BY <1>0, <1>1, <1>2, <1>3 DEF SlotInv
<1>7. ASSUME NEW d \in Colors
      PROVE  /\ held'[d] \cup Free(d)' = 1..nextIndex'[d]
             /\ held'[d] \cap Free(d)' = {}
             /\ \A i, j \in DOMAIN released'[d] : released'[d][i] = released'[d][j] => i = j
             /\ \A t \in held'[d] : \E a \in Owners' : Color[a] = d /\ slot'[a] = t
  <2>1. /\ held[d] \cup Free(d) = 1..nextIndex[d]
        /\ held[d] \cap Free(d) = {}
        /\ \A i, j \in DOMAIN released[d] : released[d][i] = released[d][j] => i = j
        /\ \A t \in held[d] : \E a \in Owners : Color[a] = d /\ slot[a] = t
    BY DEF SlotInv
  <2>2. \A t \in held[d] : \E a \in Owners' : Color[a] = d /\ slot'[a] = t
    BY <1>4, <1>5, <2>1
  <2>3. CASE d # c
    BY <1>3, <2>1, <2>2, <2>3
  <2>4. CASE d = c
    BY <1>2, <1>4, <1>5, <2>2, <2>4
  <2> QED
    BY <2>3, <2>4
<1>8. ASSUME NEW a \in Owners' PROVE slot'[a] \in held'[Color[a]]
  <2>1. CASE a = b
    BY <1>2, <1>5, <2>1
  <2>2. CASE a \in Owners
    <3>1. slot[a] \in held[Color[a]] /\ Color[a] \in Colors /\ slot'[a] = slot[a]
      BY <1>5, <2>2, LoopAssumption DEF SlotInv
    <3> QED
      BY <1>2, <1>3, <3>1
  <2> QED
    BY <1>4, <2>1, <2>2
<1>9. ASSUME NEW a \in Owners', NEW d \in Owners', a # d, Color[a] = Color[d]
      PROVE  slot'[a] # slot'[d]
  <2>1. \A o \in Owners : slot[o] \in held[Color[o]]
    BY DEF SlotInv
  <2>2. \A o, p \in Owners : o # p /\ Color[o] = Color[p] => slot[o] # slot[p]
    BY DEF SlotInv
  <2> QED
    BY <1>2, <1>4, <1>5, <1>9, <2>1, <2>2
<1> QED
  BY <1>4, <1>6, <1>7, <1>8, <1>9 DEF SlotInv

\* SlotTracker.release: a slot that loses its owner is free.
LEMMA HandBackKeepsSlots ==
    ASSUME LoopInv, SlotInv, NEW b \in Blocks, b = current, HandBack(b),
           NEW result \in {"failed", "skipped_oversize"}, EndAttempt(result)
    PROVE  SlotInv'
<1> DEFINE c == Color[b]
           s == slot[b]
<1>0. c \in Colors /\ Slots \in Nat
  BY LoopAssumption
<1>1. /\ held' = [held EXCEPT ![c] = @ \ {s}]
      /\ released' = [released EXCEPT ![c] = Append(@, s)]
      /\ nextIndex' = nextIndex /\ slot' = slot
  BY DEF HandBack
<1>2. /\ outcome' = [outcome EXCEPT ![b] = result]
      /\ handled' \in {handled, handled \cup {b}}
      /\ current' = NoBlock
  BY DEF EndAttempt, Book
<1>3. /\ Owners' = Owners \ {b} /\ b \in Owners
      /\ current' \notin handled'
      /\ \A a \in Blocks : outcome'[a] = "placed" => a \in handled'
  BY <1>2, LoopAssumption DEF Owners, SlotInv, LoopInv, BookInv
<1>4. /\ s \in held[c] /\ s \in 1..Slots
      /\ \A a \in Owners \ {b} : Color[a] = c => slot[a] # s
  BY <1>0, <1>3 DEF SlotInv
<1>5. /\ held'[c] = held[c] \ {s} /\ released'[c] = Append(released[c], s)
      /\ released[c] \in Seq(1..Slots)
      /\ released'[c] \in Seq(1..Slots)
      /\ Free(c)' = Free(c) \cup {s} /\ s \notin Free(c)
      /\ \A i, j \in DOMAIN released'[c] : released'[c][i] = released'[c][j] => i = j
  <2>1. /\ held'[c] = held[c] \ {s} /\ released'[c] = Append(released[c], s)
        /\ released[c] \in Seq(1..Slots)
    BY <1>0, <1>1 DEF SlotInv
  <2> DEFINE r == released[c]
  <2>2. /\ released'[c] \in Seq(1..Slots)
        /\ DOMAIN released'[c] = DOMAIN r \cup {Len(r) + 1}
        /\ Len(r) + 1 \notin DOMAIN r
        /\ released'[c][Len(r) + 1] = s
        /\ \A i \in DOMAIN r : released'[c][i] = r[i]
    <3>1. r \in Seq(1..Slots) /\ s \in 1..Slots /\ released'[c] = Append(r, s)
      BY <1>4, <2>1
    <3>2. /\ Append(r, s) \in Seq(1..Slots)
          /\ Len(Append(r, s)) = Len(r) + 1
          /\ \A i \in 1..Len(r) : Append(r, s)[i] = r[i]
          /\ Append(r, s)[Len(r) + 1] = s
      BY <3>1, AppendProperties
    <3> HIDE DEF r, s
    <3>3. /\ DOMAIN r = 1..Len(r) /\ Len(r) \in Nat
          /\ DOMAIN Append(r, s) = 1..(Len(r) + 1)
      BY <3>1, <3>2
    <3> QED
      BY <3>1, <3>2, <3>3
  <2>3. s \notin Free(c)
    BY <1>0, <1>4 DEF SlotInv
  <2>4. Free(c)' = Free(c) \cup {s}
    <3>1. /\ Free(c)' = {released'[c][i] : i \in DOMAIN r \cup {Len(r) + 1}}
          /\ Free(c) = {r[i] : i \in DOMAIN r}
      BY <2>2 DEF Free
    <3> QED
      BY <2>2, <3>1
  <2>5. \A i \in DOMAIN r : r[i] # s
    BY <2>3 DEF Free
  <2>6. \A i, j \in DOMAIN r : r[i] = r[j] => i = j
    BY <1>0 DEF SlotInv
  <2> QED
    BY <2>1, <2>2, <2>3, <2>4, <2>5, <2>6
<1>6. \A d \in Colors : d # c =>
        /\ released'[d] = released[d] /\ held'[d] = held[d] /\ Free(d)' = Free(d)
  BY <1>1 DEF SlotInv, Free
<1>7. /\ released' \in [Colors -> Seq(1..Slots)]
      /\ held' \in [Colors -> SUBSET (1..Slots)]
  BY <1>0, <1>1, <1>5, <1>6 DEF SlotInv
<1>8. ASSUME NEW d \in Colors
      PROVE  /\ held'[d] \cup Free(d)' = 1..nextIndex'[d]
             /\ held'[d] \cap Free(d)' = {}
             /\ \A i, j \in DOMAIN released'[d] : released'[d][i] = released'[d][j] => i = j
             /\ \A t \in held'[d] : \E a \in Owners' : Color[a] = d /\ slot'[a] = t
  <2>1. /\ held[d] \cup Free(d) = 1..nextIndex[d]
        /\ held[d] \cap Free(d) = {}
        /\ \A i, j \in DOMAIN released[d] : released[d][i] = released[d][j] => i = j
        /\ \A t \in held[d] : \E a \in Owners : Color[a] = d /\ slot[a] = t
    BY DEF SlotInv
  <2>2. CASE d # c
    BY <1>1, <1>3, <1>6, <2>1, <2>2
  <2>3. CASE d = c
    <3>1. \A t \in held'[c] : \E a \in Owners' : Color[a] = c /\ slot'[a] = t
      BY <1>1, <1>3, <1>5, <2>1, <2>3
    <3>2. held'[c] \cup Free(c)' = 1..nextIndex'[c] /\ held'[c] \cap Free(c)' = {}
      BY <1>1, <1>4, <1>5, <2>1, <2>3
    <3> QED
      BY <1>5, <2>3, <3>1, <3>2
  <2> QED
    BY <2>2, <2>3
<1>9. ASSUME NEW a \in Owners' PROVE slot'[a] \in held'[Color[a]]
  <2>1. /\ a \in Owners /\ a # b /\ slot'[a] = slot[a]
        /\ Color[a] \in Colors /\ slot[a] \in held[Color[a]]
    BY <1>1, <1>3, LoopAssumption DEF SlotInv, Owners
  <2> QED
    BY <1>4, <1>5, <1>6, <2>1
<1>10. /\ nextIndex' \in [Colors -> 0..Slots] /\ slot' \in [Blocks -> 0..Slots]
       /\ \A a, d \in Owners' : a # d /\ Color[a] = Color[d] => slot'[a] # slot'[d]
  BY <1>1, <1>3 DEF SlotInv
<1> QED
  BY <1>3, <1>7, <1>8, <1>9, <1>10 DEF SlotInv

\* Whatever draws and hands back nothing and changes no owner.
LEMMA OwnersKeepSlots ==
    ASSUME SlotInv, UNCHANGED slotVars, Owners' = Owners, current' \notin handled',
           \A b \in Blocks : outcome'[b] = "placed" => b \in handled'
    PROVE  SlotInv'
<1>1. /\ UNCHANGED <<nextIndex, released, held, slot>>
      /\ \A c \in Colors : Free(c)' = Free(c)
  BY DEF slotVars, Free
<1> QED
  BY <1>1 DEF SlotInv

\* An attempt at b that ends without a slot of its own.
LEMMA BookKeepsSlots ==
    ASSUME LoopInv, SlotInv, NEW b \in Blocks, b \notin handled, current = NoBlock,
           NEW result \in {"skipped_oversize", "failed"}, Book(b, result), UNCHANGED slotVars
    PROVE  SlotInv'
<1>1. /\ outcome' = [outcome EXCEPT ![b] = result]
      /\ handled' \in {handled, handled \cup {b}}
      /\ current' = NoBlock
  BY DEF Book
<1>2. /\ Owners' = Owners /\ current' \notin handled'
      /\ \A a \in Blocks : outcome'[a] = "placed" => a \in handled'
  BY <1>1, LoopAssumption DEF Owners, SlotInv, LoopInv, BookInv
<1> QED
  BY <1>2, OwnersKeepSlots

\* Taking an item off the list keeps SlotInv.
LEMMA TakeKeepsSlots ==
    ASSUME LoopInv, SlotInv, NEW b \in Blocks, TakeOversize(b) \/ TakeItem(b)
    PROVE  SlotInv'
<1>1. b \notin handled /\ current = NoBlock
  BY TakeFacts DEF TakeOversize, TakeItem
<1>2. CASE \E result \in {"skipped_oversize", "failed"} : Book(b, result) /\ UNCHANGED slotVars
  BY <1>1, <1>2, BookKeepsSlots
<1>3. CASE Draw(b) /\ current' = b /\ UNCHANGED <<handled, outcome>>
  BY <1>1, <1>3, DrawKeepsSlots
<1> QED
  BY <1>2, <1>3 DEF TakeOversize, TakeItem

\* The end of a pick keeps SlotInv, whether its slot is kept or handed back.
LEMMA PipelineKeepsSlots == ASSUME LoopInv, SlotInv, Pipeline PROVE SlotInv'
<1>1. CASE PickFails \/ CarryFails \/ RetreatFails
  <2>1. PICK result \in {"failed", "skipped_oversize"} :
          EndAttempt(result) /\ HandBack(current)
    BY <1>1 DEF PickFails, CarryFails, RetreatFails
  <2>2. current \in Blocks
    BY <1>1 DEF PickFails, CarryFails, RetreatFails, LoopInv, BookInv, Picking
  <2> QED
    BY <2>1, <2>2, HandBackKeepsSlots
<1>2. CASE PickDone
  <2>1. /\ outcome' = [outcome EXCEPT ![current] = "placed"]
        /\ handled' = handled \cup {current} /\ current' = NoBlock
        /\ UNCHANGED slotVars /\ current \in Blocks
    BY <1>2 DEF PickDone, EndAttempt, Book, LoopInv, BookInv, Picking
  <2>2. /\ Owners' = Owners /\ current' \notin handled'
        /\ \A a \in Blocks : outcome'[a] = "placed" => a \in handled'
    BY <2>1, LoopAssumption DEF Owners, SlotInv, LoopInv, BookInv
  <2> QED
    BY <2>1, <2>2, OwnersKeepSlots
<1>3. CASE OpenJaw \/ Grab \/ Release
  <2>1. UNCHANGED <<current, handled, outcome, slotVars>>
    BY <1>3 DEF OpenJaw, Grab, Release, loopVars, bookVars
  <2>2. Owners' = Owners
    BY <2>1 DEF Owners
  <2> QED
    BY <2>1, <2>2, OwnersKeepSlots DEF SlotInv
<1> QED
  BY <1>1, <1>2, <1>3 DEF Pipeline

\* SlotInv is kept by every step of the loop.
LEMMA SlotStep == LoopInv /\ SlotInv /\ [Next]_vars => SlotInv'
<1> SUFFICES ASSUME LoopInv, SlotInv, [Next]_vars PROVE SlotInv'
  OBVIOUS
<1>1. CASE UNCHANGED vars \/ Census \/ CensusRaises \/ PassEnds \/ Stop \/ Over
  <2>1. UNCHANGED <<current, handled, outcome, slotVars>>
    BY <1>1 DEF vars, Census, CensusRaises, PassEnds, Stop, Over, loopVars, bookVars
  <2>2. Owners' = Owners
    BY <2>1 DEF Owners
  <2> QED
    BY <2>1, <2>2, OwnersKeepSlots DEF SlotInv
<1> QED
  BY <1>1, TakeKeepsSlots, PipelineKeepsSlots DEF Next

\* The loop and its slots together.
LEMMA SpecSlotInv == Spec => [](LoopInv /\ SlotInv)
<1>1. Init => LoopInv /\ SlotInv
  BY InitLoopInv, InitSlotInv
<1>2. LoopInv /\ SlotInv /\ [Next]_vars => (LoopInv /\ SlotInv)'
  BY LoopStep, SlotStep
<1> QED
  BY <1>1, <1>2, PTL DEF Spec

\* A colour that has drawn all its slots has placed as many blocks, so one that
\* is not dealt with would be a block too many for LoopAssumption.
LEMMA SlotsAreEnough ==
    ASSUME LoopInv, SlotInv, current = NoBlock, NEW h \in Blocks, h \notin handled
    PROVE  ~NoFreeSlot(Color[h])
<1> SUFFICES ASSUME NoFreeSlot(Color[h]) PROVE FALSE
  OBVIOUS
<1> DEFINE c == Color[h]
           Mine == {b \in Blocks : Color[b] = c}
           owner == [s \in 1..Slots |-> CHOOSE b \in Owners : Color[b] = c /\ slot[b] = s]
<1>1. c \in Colors /\ Slots \in Nat /\ IsFiniteSet(Blocks) /\ Cardinality(Mine) <= Slots
  BY LoopAssumption
<1>2. held[c] = 1..Slots
  <2>1. Free(c) = {}
    BY DEF NoFreeSlot, Free
  <2>2. nextIndex[c] \in 0..Slots /\ nextIndex[c] >= Slots
    BY <1>1 DEF NoFreeSlot, SlotInv
  <2>3. nextIndex[c] = Slots
    BY <1>1, <2>2
  <2> QED
    BY <1>1, <2>1, <2>3 DEF SlotInv
<1>3. h \notin Owners /\ Owners \subseteq Blocks
  BY LoopAssumption DEF Owners, SlotInv
<1>4. ASSUME NEW s \in 1..Slots
      PROVE  owner[s] \in Owners /\ Color[owner[s]] = c /\ slot[owner[s]] = s
  <2>0. \A d \in Colors : \A t \in held[d] : \E b \in Owners : Color[b] = d /\ slot[b] = t
    BY DEF SlotInv
  <2>1. \E b \in Owners : Color[b] = c /\ slot[b] = s
    BY <1>1, <1>2, <2>0
  <2> QED
    BY <2>1
<1>5. owner \in [1..Slots -> Mine \ {h}]
  BY <1>3, <1>4
<1>6. /\ IsFiniteSet(Mine) /\ h \in Mine
      /\ IsFiniteSet(Mine \ {h}) /\ Cardinality(Mine \ {h}) = Cardinality(Mine) - 1
      /\ Cardinality(Mine) \in Nat
  BY <1>1, FS_Subset, FS_RemoveElement, FS_CardinalityType
<1>7. IsFiniteSet(1..Slots) /\ Cardinality(1..Slots) = Slots
  BY <1>1, FS_Interval
<1>8. Cardinality(Mine \ {h}) < Cardinality(1..Slots)
  BY <1>1, <1>6, <1>7
<1>9. PICK x, y \in 1..Slots : x # y /\ owner[x] = owner[y]
  <2> HIDE DEF owner, Mine
  <2> QED
    BY <1>5, <1>6, <1>7, <1>8, FS_PigeonHole
<1> QED
  BY <1>4, <1>9

-----------------------------------------------------------------------------
(***************************************************************************)
(* The pads.                                                               *)
(***************************************************************************)
\* A block on a pad is the one that was just released, one that is placed, each
\* on the slot its attempt drew, or one whose attempt failed; none of them is
\* on the work list.
PadInv ==
    /\ onSlot \in [Blocks -> 0..Slots]
    /\ \A i \in DOMAIN remaining : at[remaining[i]] = "zone"
    /\ \A b \in Blocks : at[b] = "pad" =>
          IF b = current
            THEN pc = "retreat" /\ onSlot[b] = slot[b]
            ELSE outcome[b] = "failed" \/ (outcome[b] = "placed" /\ onSlot[b] = slot[b])

\* A census finds what lies in the zone.
LEMMA CensusKeepsPads == ASSUME LoopInv, PadInv, Census PROVE PadInv'
<1>1. PICK found \in SUBSET {b \in Blocks : at[b] = "zone"} :
        \E matched \in SUBSET found : CensusFinds(found, matched, handled)
  BY DEF Census, Resolves
<1>2. PICK matched \in SUBSET found : CensusFinds(found, matched, handled)
  BY <1>1
<1>3. remaining' \in SetToSeqs(matched \ handled) /\ matched \ handled \in SUBSET Blocks
  BY <1>1, <1>2 DEF CensusFinds
<1>4. \A i \in DOMAIN remaining' : remaining'[i] \in matched \ handled
  BY <1>3, SequencesOfSet
<1>5. /\ pc = "census" /\ current = NoBlock
      /\ UNCHANGED <<current, outcome, at, onSlot, slot>>
  BY DEF Census, LoopInv, BookInv, Picking, cellVars, slotVars
<1>6. \A i \in DOMAIN remaining' : at'[remaining'[i]] = "zone"
  BY <1>1, <1>4, <1>5
<1> QED
  BY <1>5, <1>6, LoopAssumption DEF PadInv

\* A block that is taken off the list is in the zone.
LEMMA TakeKeepsPads ==
    ASSUME LoopInv, SlotInv, PadInv, NEW b \in Blocks, TakeOversize(b) \/ TakeItem(b)
    PROVE  PadInv'
<1>1. Take(b) /\ UNCHANGED <<at, onSlot>>
  BY DEF TakeOversize, TakeItem, cellVars
<1>2. /\ remaining \in Seq(Blocks) /\ remaining # <<>> /\ b = remaining[1]
      /\ remaining' = Tail(remaining) /\ current = NoBlock /\ current \notin Blocks
  <2>1. remaining # <<>> /\ b = Head(remaining) /\ remaining' = Tail(remaining)
    BY <1>1 DEF Take
  <2>2. remaining \in Seq(Blocks) /\ current = NoBlock /\ NoBlock \notin Blocks
    BY <1>1, TakeFacts, LoopAssumption DEF LoopInv, BookInv
  <2> QED
    BY <2>1, <2>2
<1>3. \A i \in DOMAIN remaining' : i + 1 \in DOMAIN remaining /\ remaining'[i] = remaining[i + 1]
  BY <1>2
<1>4. at[b] = "zone" /\ \A i \in DOMAIN remaining' : at'[remaining'[i]] = "zone"
  BY <1>1, <1>2, <1>3 DEF PadInv
<1>5. ASSUME NEW a \in Blocks, a # b
      PROVE  a # current' /\ outcome'[a] = outcome[a] /\ slot'[a] = slot[a]
  <2>1. /\ outcome' = outcome \/ \E x : outcome' = [outcome EXCEPT ![b] = x]
        /\ slot' = slot \/ \E x : slot' = [slot EXCEPT ![b] = x]
        /\ current' \in {b, NoBlock}
    BY DEF TakeOversize, TakeItem, Book, Draw, slotVars
  <2>2. a # current'
    BY <1>5, <2>1, LoopAssumption
  <2>3. outcome'[a] = outcome[a]
    BY <1>5, <2>1 DEF LoopInv, BookInv
  <2>4. slot'[a] = slot[a]
    BY <1>5, <2>1 DEF SlotInv
  <2> QED
    BY <2>2, <2>3, <2>4
<1> QED
  BY <1>1, <1>2, <1>4, <1>5 DEF PadInv

\* Only a release puts a block on a pad, and the end of its attempt books it.
LEMMA PipelineKeepsPads == ASSUME LoopInv, SlotInv, PadInv, Pipeline PROVE PadInv'
<1>0. /\ current \in Blocks /\ current # NoBlock /\ pc \in {"approach", "open", "carry", "retreat"}
      /\ at \in [Blocks -> Places] /\ outcome \in [Blocks -> Outcomes]
      /\ remaining \in Seq(Blocks)
  BY LoopAssumption DEF Pipeline, PickFails, OpenJaw, Grab, CarryFails, Release, PickDone, RetreatFails,
     LoopInv, BookInv, Picking
<1>1. ASSUME NEW result \in {"failed", "skipped_oversize", "placed"}, EndAttempt(result),
             pc = "retreat" => result \in {"failed", "placed"},
             UNCHANGED <<remaining, at, onSlot, slot>>
      PROVE  PadInv'
  <2>1. outcome' = [outcome EXCEPT ![current] = result] /\ current' = NoBlock
    BY <1>1 DEF EndAttempt, Book
  <2>2. at[current] = "pad" => result \in {"failed", "placed"} /\ onSlot[current] = slot[current]
    BY <1>0, <1>1 DEF PadInv
  <2>3. ASSUME NEW b \in Blocks, at'[b] = "pad"
        PROVE  /\ b # current'
               /\ outcome'[b] = "failed" \/ (outcome'[b] = "placed" /\ onSlot'[b] = slot'[b])
    <3>1. CASE b = current
      BY <1>0, <1>1, <2>1, <2>2, <2>3, <3>1, LoopAssumption
    <3>2. CASE b # current
      BY <1>0, <1>1, <2>1, <2>3, <3>2, LoopAssumption DEF PadInv
    <3> QED
      BY <3>1, <3>2
  <2> QED
    BY <1>1, <2>3 DEF PadInv
<1>2. CASE PickFails \/ CarryFails \/ RetreatFails \/ PickDone
  <2>1. PICK result \in {"failed", "skipped_oversize", "placed"} :
          /\ EndAttempt(result)
          /\ pc = "retreat" => result \in {"failed", "placed"}
    BY <1>2 DEF PickFails, CarryFails, RetreatFails, PickDone
  <2>2. UNCHANGED <<remaining, at, onSlot, slot>>
    BY <1>2 DEF PickFails, CarryFails, RetreatFails, PickDone, HandBack, slotVars, cellVars
  <2> QED
    BY <1>1, <2>1, <2>2
<1>3. ASSUME OpenJaw \/ Grab \/ Release
      PROVE  /\ UNCHANGED <<current, remaining, outcome, slot>>
             /\ \A i \in DOMAIN remaining : remaining[i] \in Blocks \ {current} /\ at[remaining[i]] = "zone"
  BY <1>0, <1>3 DEF OpenJaw, Grab, Release, loopVars, bookVars, slotVars, LoopInv, WorkInv, PadInv
<1>4. CASE OpenJaw
  <2>1. PICK fallen \in {"zone", "gone"} :
          at' = [b \in Blocks |-> IF at[b] = "held" THEN fallen ELSE at[b]]
    BY <1>4 DEF OpenJaw
  <2>2. pc = "approach" /\ onSlot' = onSlot
    BY <1>4 DEF OpenJaw
  <2>3. \A b \in Blocks : at'[b] = "pad" => at[b] = "pad"
    BY <2>1
  <2>4. \A i \in DOMAIN remaining' : at'[remaining'[i]] = "zone"
    BY <1>3, <1>4, <2>1
  <2> QED
    BY <1>3, <1>4, <2>2, <2>3, <2>4 DEF PadInv
<1>5. CASE Grab
  <2>1. pc = "open" /\ at' = [at EXCEPT ![current] = "held"] /\ onSlot' = onSlot
    BY <1>5 DEF Grab
  <2>2. \A b \in Blocks : at'[b] = "pad" => at[b] = "pad"
    BY <1>0, <2>1
  <2>3. \A i \in DOMAIN remaining' : at'[remaining'[i]] = "zone"
    BY <1>0, <1>3, <1>5, <2>1
  <2> QED
    BY <1>3, <1>5, <2>1, <2>2, <2>3 DEF PadInv
<1>6. CASE Release
  <2>1. PICK p \in {"pad", "zone", "gone"} :
          /\ at' = [at EXCEPT ![current] = p]
          /\ onSlot' = [onSlot EXCEPT ![current] = IF p = "pad" THEN slot[current] ELSE 0]
    BY <1>6 DEF Release
  <2>2. pc = "carry" /\ pc' = "retreat"
    BY <1>6 DEF Release
  <2>3. \A b \in Blocks \ {current} : at'[b] = at[b]
    BY <1>0, <2>1
  <2>4. \A i \in DOMAIN remaining' : at'[remaining'[i]] = "zone"
    BY <1>3, <1>6, <2>3
  <2>5. /\ UNCHANGED <<current, outcome, slot>>
        /\ slot \in [Blocks -> 0..Slots] /\ 0 \in 0..Slots
    BY <1>3, <1>6, LoopAssumption DEF SlotInv
  <2>6. /\ onSlot' \in [Blocks -> 0..Slots]
        /\ \A b \in Blocks \ {current} : onSlot'[b] = onSlot[b]
        /\ at'[current] = "pad" => onSlot'[current] = slot[current]
    BY <1>0, <2>1, <2>5 DEF PadInv
  <2>7. ASSUME NEW b \in Blocks, at'[b] = "pad"
        PROVE  IF b = current
                 THEN pc' = "retreat" /\ onSlot'[b] = slot[b]
                 ELSE outcome[b] = "failed" \/ (outcome[b] = "placed" /\ onSlot'[b] = slot[b])
    <3>1. CASE b = current
      BY <2>2, <2>6, <2>7, <3>1
    <3>2. CASE b # current
      BY <2>3, <2>6, <2>7, <3>2 DEF PadInv
    <3> QED
      BY <3>1, <3>2
  <2> QED
    BY <2>4, <2>5, <2>6, <2>7 DEF PadInv
<1> QED
  BY <1>2, <1>4, <1>5, <1>6 DEF Pipeline

\* PadInv is kept by every step of the loop.
LEMMA PadStep == LoopInv /\ SlotInv /\ PadInv /\ [Next]_vars => PadInv'
<1> SUFFICES ASSUME LoopInv, SlotInv, PadInv, [Next]_vars PROVE PadInv'
  OBVIOUS
<1>1. CASE UNCHANGED vars \/ CensusRaises \/ PassEnds \/ Stop \/ Over
  <2>1. /\ UNCHANGED <<current, remaining, outcome, at, onSlot, slot>>
        /\ UNCHANGED pc \/ pc # "retreat"
    BY <1>1 DEF vars, CensusRaises, PassEnds, Stop, Over, loopVars, bookVars, slotVars, cellVars
  <2> QED
    BY <2>1 DEF PadInv
<1> QED
  BY <1>1, CensusKeepsPads, TakeKeepsPads, PipelineKeepsPads DEF Next

\* The pads, with the loop and its slots.
LEMMA SpecPadInv == Spec => [](LoopInv /\ SlotInv /\ PadInv)
<1>1. Init => PadInv
  BY LoopAssumption DEF Init, PadInv
<1> QED
  BY <1>1, PadStep, SpecSlotInv, PTL DEF Spec

-----------------------------------------------------------------------------
(***************************************************************************)
(* The outcomes.                                                           *)
(***************************************************************************)
\* A block that has an outcome, or will get one in this pass.
Accounted(b) == outcome[b] # "none" \/ b = current \/ \E i \in DOMAIN remaining : remaining[i] = b

\* One that shares its item's name with a block that has.
Namesake(b) == b \in shadowed /\ \E a \in seen \ {b} :
    Accounted(a) /\ Fires[Color[a]] \cap Fires[Color[b]] # {}

\* Nothing a census found is lost sight of, and a pass that is not cancelled
\* works its whole list off.
SeenInv ==
    /\ seen \subseteq Blocks
    /\ \A b \in handled : outcome[b] # "none"
    /\ pc = "census" \/ (pc = "done" /\ ~cancel) => remaining = <<>>
    /\ \A b \in seen : Accounted(b) \/ Namesake(b)

\* A step without a census loses sight of no block.
LEMMA AccountedStays ==
    ASSUME UNCHANGED <<seen, shadowed>>, seen \subseteq Blocks,
           \A b \in Blocks : Accounted(b) => Accounted(b)',
           \A b \in seen : Accounted(b) \/ Namesake(b)
    PROVE  \A b \in seen' : Accounted(b)' \/ Namesake(b)'
<1> SUFFICES ASSUME NEW b \in seen PROVE Accounted(b)' \/ Namesake(b)'
  OBVIOUS
<1>1. CASE Accounted(b)
  BY <1>1
<1>2. CASE Namesake(b)
  <2>1. PICK a \in seen \ {b} : Accounted(a) /\ Fires[Color[a]] \cap Fires[Color[b]] # {}
    BY <1>2 DEF Namesake
  <2>2. Accounted(a)'
    BY <2>1
  <2> QED
    BY <1>2, <2>1, <2>2 DEF Namesake
<1> QED
  BY <1>1, <1>2

\* What a census finds and does not match has the name of a block that it matches,
\* and which one detector fires on as well.
LEMMA ResolvedByName ==
    ASSUME NEW found \in SUBSET Blocks, NEW item \in Items(found),
           NEW matched \in Resolves(found, item), NEW b \in found \ matched
    PROVE  \E a \in matched : a # b /\ Fires[Color[a]] \cap Fires[Color[b]] # {}
<1> DEFINE Same == {a \in matched : Name(item[a]) = Name(item[b])}
<1>1. matched \subseteq found /\ Cardinality(Same) = 1
  BY DEF Resolves
<1>2. Same # {}
  <2> SUFFICES ASSUME Same = {} PROVE FALSE
    OBVIOUS
  <2>1. Cardinality(Same) = 0
    BY FS_EmptySet
  <2> QED
    BY <1>1, <2>1
<1>3. PICK a \in matched : Name(item[a]) = Name(item[b])
  BY <1>2
<1>4. item[a].by = item[b].by
  BY <1>3 DEF Name
<1>5. item[a].by \in Fires[Color[a]] /\ item[b].by \in Fires[Color[b]]
  BY <1>1 DEF Items
<1> QED
  BY <1>4, <1>5

\* A census keeps SeenInv.
LEMMA CensusKeepsSeen == ASSUME LoopInv, SeenInv, Census PROVE SeenInv'
<1>1. PICK found \in SUBSET {b \in Blocks : at[b] = "zone"} :
        \E item \in Items(found) : \E matched \in Resolves(found, item) :
          CensusFinds(found, matched, handled)
  BY DEF Census
<1>2. PICK item \in Items(found) : \E matched \in Resolves(found, item) :
          CensusFinds(found, matched, handled)
  BY <1>1
<1>3. PICK matched \in Resolves(found, item) : CensusFinds(found, matched, handled)
  BY <1>2
<1>4. /\ seen' = seen \cup found /\ shadowed' = shadowed \cup (found \ matched)
      /\ remaining' \in SetToSeqs(matched \ handled) /\ pc' = "items"
      /\ pc = "census" /\ remaining = <<>>
      /\ UNCHANGED <<current, handled, outcome>>
  BY <1>3 DEF Census, CensusFinds, SeenInv
<1>5. /\ found \subseteq Blocks /\ seen \subseteq Blocks /\ matched \subseteq found
      /\ matched \ handled \in SUBSET Blocks
  BY <1>1, <1>3 DEF Resolves, SeenInv
<1>6. \A b \in matched \ handled : \E i \in DOMAIN remaining' : remaining'[i] = b
  <2>1. IsFiniteSet(matched \ handled)
    BY <1>5, LoopAssumption, FS_Subset
  <2> QED
    BY <1>4, <1>5, <2>1, SequencesCoverSet
<1>7. ASSUME NEW b \in Blocks, Accounted(b) \/ b \in matched PROVE Accounted(b)'
  BY <1>4, <1>6, <1>7 DEF Accounted, SeenInv
<1>8. ASSUME NEW b \in found \ matched PROVE Namesake(b)'
  <2>1. PICK a \in matched : a # b /\ Fires[Color[a]] \cap Fires[Color[b]] # {}
    BY <1>5, ResolvedByName
  <2>2. Accounted(a)' /\ a \in seen' \ {b} /\ b \in shadowed'
    BY <1>4, <1>5, <1>7, <2>1
  <2> QED
    BY <2>1, <2>2 DEF Namesake
<1>9. ASSUME NEW b \in seen PROVE Accounted(b)' \/ Namesake(b)'
  <2>1. CASE Accounted(b)
    BY <1>5, <1>7, <2>1
  <2>2. CASE Namesake(b)
    <3>1. PICK a \in seen \ {b} : Accounted(a) /\ Fires[Color[a]] \cap Fires[Color[b]] # {}
      BY <2>2 DEF Namesake
    <3>2. Accounted(a)' /\ a \in seen' \ {b} /\ b \in shadowed'
      BY <1>4, <1>5, <1>7, <2>2, <3>1 DEF Namesake
    <3> QED
      BY <3>1, <3>2 DEF Namesake
  <2> QED
    BY <2>1, <2>2 DEF SeenInv
<1> QED
  BY <1>4, <1>5, <1>7, <1>8, <1>9 DEF SeenInv

\* An item that leaves the list is the current one or has an outcome.
LEMMA TakeKeepsSeen ==
    ASSUME LoopInv, SeenInv, NEW b \in Blocks, TakeOversize(b) \/ TakeItem(b)
    PROVE  SeenInv'
<1>1. /\ Take(b) /\ UNCHANGED <<seen, shadowed>> /\ pc' \in {"items", "approach"}
      /\ \/ current' = b /\ UNCHANGED <<outcome, handled>>
         \/ \E result \in {"skipped_oversize", "failed"} :
               /\ outcome' = [outcome EXCEPT ![b] = result]
               /\ handled' \in {handled, handled \cup {b}}
  BY DEF TakeOversize, TakeItem, Book
<1>2. /\ remaining \in Seq(Blocks) /\ remaining # <<>>
      /\ b = remaining[1] /\ remaining' = Tail(remaining)
      /\ current = NoBlock /\ outcome \in [Blocks -> Outcomes]
  BY <1>1 DEF Take, LoopInv, BookInv, Picking
<1>3. \A i \in DOMAIN remaining : i # 1 =>
          i - 1 \in DOMAIN remaining' /\ remaining'[i - 1] = remaining[i]
  BY <1>2
<1>4. outcome'[b] # "none" \/ current' = b
  BY <1>1, <1>2
<1>5. ASSUME NEW a \in Blocks, Accounted(a) PROVE Accounted(a)'
  <2>1. CASE a = b
    BY <1>4, <2>1 DEF Accounted
  <2>2. CASE a # b /\ outcome[a] # "none"
    BY <1>1, <1>2, <2>2 DEF Accounted
  <2>3. CASE a # b /\ \E i \in DOMAIN remaining : remaining[i] = a
    BY <1>2, <1>3, <2>3 DEF Accounted
  <2> QED
    BY <1>2, <1>5, <2>1, <2>2, <2>3, LoopAssumption DEF Accounted
<1>6. \A a \in handled' : outcome'[a] # "none"
  BY <1>1, <1>2 DEF SeenInv, LoopInv, BookInv
<1>7. \A a \in seen' : Accounted(a)' \/ Namesake(a)'
  BY <1>1, <1>5, AccountedStays DEF SeenInv
<1> QED
  BY <1>1, <1>6, <1>7 DEF SeenInv

\* A pick ends with an outcome for its block.
LEMMA PipelineKeepsSeen == ASSUME LoopInv, SeenInv, Pipeline PROVE SeenInv'
<1>1. /\ UNCHANGED <<seen, shadowed, remaining>>
      /\ pc' \notin {"census", "done"}
      /\ \/ UNCHANGED <<current, outcome, handled>>
         \/ \E result \in {"failed", "skipped_oversize", "placed"} :
               /\ outcome' = [outcome EXCEPT ![current] = result]
               /\ handled' \in {handled, handled \cup {current}}
  BY DEF Pipeline, PickFails, OpenJaw, Grab, CarryFails, Release, PickDone, RetreatFails,
         EndAttempt, Book, loopVars, bookVars
<1>2. outcome \in [Blocks -> Outcomes] /\ handled \subseteq Blocks
  BY DEF LoopInv, BookInv
<1>3. ASSUME NEW a \in Blocks, Accounted(a) PROVE Accounted(a)'
  BY <1>1, <1>2, <1>3 DEF Accounted
<1>4. \A a \in handled' : outcome'[a] # "none"
  <2>1. pc \in Picking
    BY DEF Pipeline, PickFails, OpenJaw, Grab, CarryFails, Release, PickDone, RetreatFails, Picking
  <2>2. current \in Blocks
    BY <2>1 DEF LoopInv, BookInv
  <2> QED
    BY <1>1, <1>2, <2>2 DEF SeenInv
<1>5. \A a \in seen' : Accounted(a)' \/ Namesake(a)'
  BY <1>1, <1>3, AccountedStays DEF SeenInv
<1> QED
  BY <1>1, <1>4, <1>5 DEF SeenInv

\* SeenInv is kept by every step of the loop.
LEMMA SeenStep == LoopInv /\ SeenInv /\ [Next]_vars => SeenInv'
<1> SUFFICES ASSUME LoopInv, SeenInv, [Next]_vars PROVE SeenInv'
  OBVIOUS
<1>1. CASE UNCHANGED vars \/ CensusRaises \/ PassEnds \/ Stop \/ Over
  <2>1. /\ UNCHANGED <<seen, shadowed, remaining, current, outcome, handled>>
        /\ pc' = "census" \/ (pc' = "done" /\ ~cancel') => remaining = <<>>
    BY <1>1 DEF vars, CensusRaises, PassEnds, Stop, Over, loopVars, bookVars, SeenInv
  <2> QED
    BY <2>1 DEF SeenInv, Accounted, Namesake
<1> QED
  BY <1>1, CensusKeepsSeen, TakeKeepsSeen, PipelineKeepsSeen DEF Next

-----------------------------------------------------------------------------
(***************************************************************************)
(* The pick.                                                               *)
(***************************************************************************)
StepInv ==
    /\ step = "none" <=> pc \notin Picking
    /\ IgnoreFitsTheMotion

\* Every await of a pick is a step of SortLoop or none of its business.
LEMMA PickStepsLoop == [PickNext]_pickVars => [Next]_vars
  BY DEF PickNext, Progress, Outside, Starts, Stops, Ignores, IgnoreFails, Returns,
     Refused, Raises, TooWide, Opens, Grabs, Releases, Reports, Restores, RestoreFails,
     Books, Next, Pipeline, pickVars

\* Where the tables of moves lead.
LEMMA TableFacts ==
    /\ "none" \notin InTry /\ "ignore" \notin InTry
    /\ {"scene", "open", "above", "reach", "grab", "lift", "release", "retreat",
        "hover", "report", "restore"} \subseteq InTry
    /\ \A s \in DOMAIN After : s \in InTry /\ After[s] \in InTry
    /\ \A s \in DOMAIN Fallback : s \in InTry /\ Fallback[s] \in InTry
    /\ CanRaise \subseteq InTry
  BY DEF InTry, Steps, After, Fallback, CanRaise

\* StepInv is kept by every await of a pick.
LEMMA PickStep == StepInv /\ [PickNext]_pickVars => StepInv'
<1> SUFFICES ASSUME StepInv, [PickNext]_pickVars PROVE StepInv'
  OBVIOUS
<1> USE DEF StepInv, IgnoreFitsTheMotion, Picking
<1>1. CASE UNCHANGED pickVars \/ Stops
  BY <1>1 DEF pickVars, Stops, Stop, vars, runVars
<1>2. CASE Outside
  <2>1. /\ pc \notin Picking /\ pc' \notin Picking
        /\ UNCHANGED runVars
    BY <1>2 DEF Outside, Census, CensusFinds, CensusRaises, PassEnds, Over, TakeOversize,
       Take, Book, vars
  <2> QED
    BY <2>1, TableFacts DEF runVars
<1>3. CASE Starts
  <2>1. /\ pc = "items" /\ pc' \in {"items", "approach"}
        /\ step' = IF pc' = "approach" THEN "ignore" ELSE "none"
        /\ UNCHANGED <<ignored, unheard>>
    BY <1>3 DEF Starts, TakeItem, Take, Book
  <2> QED
    BY <2>1, TableFacts
<1>4. CASE Ignores
  BY <1>4, TableFacts DEF Ignores, vars
<1>5. CASE IgnoreFails \/ Restores \/ RestoreFails
  <2>1. PICK result \in {"failed", verdict} : Books(result)
    BY <1>5 DEF IgnoreFails, Restores, RestoreFails
  <2>2. step' = "none" /\ pc' = "items"
    BY <2>1 DEF Books, PickDone, PickFails, CarryFails, RetreatFails, EndAttempt, Book
  <2>3. unheard' \/ ignored' = {}
    BY <1>5 DEF IgnoreFails, Restores, RestoreFails
  <2> QED
    BY <2>2, <2>3, TableFacts
<1>6. CASE Returns \/ Refused \/ Raises \/ TooWide \/ Reports
  <2>1. /\ step \in InTry /\ step' \in InTry
        /\ UNCHANGED <<pc, current, ignored, unheard>>
    BY <1>6, TableFacts DEF Returns, Refused, Raises, TooWide, Reports, NewVerdict, vars, After
  <2> QED
    BY <2>1, TableFacts
<1>7. CASE Opens \/ Grabs \/ Releases
  <2>1. /\ step \in InTry /\ step' \in InTry
        /\ pc \in Picking /\ pc' \in Picking
        /\ UNCHANGED <<current, ignored, unheard>>
    BY <1>7, TableFacts DEF Opens, Grabs, Releases, OpenJaw, Grab, Release
  <2> QED
    BY <2>1, TableFacts
<1> QED
  BY <1>1, <1>2, <1>3, <1>4, <1>5, <1>6, <1>7 DEF PickNext, Progress

-----------------------------------------------------------------------------
(***************************************************************************)
(* The theorems.                                                           *)
(***************************************************************************)
\* A loop whose picks are taken await by await is a loop of SortLoop: retries of
\* moves and the props that are ignored add no behaviour to it.
LEMMA PickIsALoop == PickSpec => Spec
<1>1. PickInit => Init
  BY DEF PickInit
<1> QED
  BY <1>1, PickStepsLoop, PTL DEF PickSpec, Spec

\* No two placed blocks share a slot, a block that is still to be placed finds
\* one, and two blocks stand on one slot only after an attempt that failed with
\* its block on the pad (SlotsSuffice).
THEOREM SlotsAlwaysSuffice == PickSpec => []SlotsSuffice
<1>1. LoopInv /\ SlotInv => PlacedKeepTheirSlots
  BY DEF PlacedKeepTheirSlots, SlotInv, Owners
<1>2. LoopInv /\ SlotInv => SlotsNeverRunOut
  <2> SUFFICES ASSUME LoopInv, SlotInv, pc = "items", remaining # <<>>,
                      Head(remaining) \notin handled
               PROVE  ~NoFreeSlot(Color[Head(remaining)])
    BY DEF SlotsNeverRunOut
  <2>1. Head(remaining) \in Blocks /\ current = NoBlock
    BY DEF LoopInv, BookInv, Picking
  <2> QED
    BY <2>1, SlotsAreEnough
<1>3. SlotInv /\ PadInv => OneBlockToASlot
  <2> SUFFICES ASSUME SlotInv, PadInv, NEW a \in Blocks, NEW b \in Blocks,
                      a # b, Color[a] = Color[b], at[a] = "pad", at[b] = "pad",
                      \A x \in {a, b} \ {current} : outcome[x] # "failed"
               PROVE  onSlot[a] # onSlot[b]
    BY DEF OneBlockToASlot
  <2>1. /\ a \in Owners /\ onSlot[a] = slot[a]
        /\ b \in Owners /\ onSlot[b] = slot[b]
    BY DEF PadInv, Owners
  <2> QED
    BY <2>1 DEF SlotInv
<1>4. LoopInv /\ SlotInv /\ PadInv => SlotsSuffice
  BY <1>1, <1>2, <1>3 DEF SlotsSuffice
<1> QED
  BY <1>4, SpecPadInv, PickIsALoop, PTL

\* One block at most hangs in the jaw, and it is the one being carried or one
\* whose last attempt is booked as failed (JawIsAccountedFor).
THEOREM JawStaysAccountedFor == PickSpec => []JawIsAccountedFor
<1>1. LoopInv => JawIsAccountedFor
  BY DEF LoopInv, HeldInv, JawIsAccountedFor
<1> QED
  BY <1>1, SpecLoopInv, PickIsALoop, PTL

\* No attempt at a block that is placed, oversize or out of attempts
\* (HandledIsFinal).
THEOREM HandledStaysFinal == PickSpec => HandledIsFinal
<1> DEFINE Final == \A b \in handled : attempts'[b] = attempts[b]
<1>1. ASSUME LoopInv, [Next]_vars PROVE [Final]_vars
  <2>1. CASE UNCHANGED attempts
    BY <2>1
  <2>2. ASSUME NEW b \in Blocks, Take(b) PROVE Final
    <3>1. b \notin handled /\ attempts' = [attempts EXCEPT ![b] = @ + 1]
      BY <2>2, TakeFacts, <1>1 DEF Take
    <3> QED
      BY <3>1, <1>1 DEF LoopInv, BookInv
  <2>3. UNCHANGED vars \/ (\E b \in Blocks : Take(b)) \/ UNCHANGED attempts
    BY <1>1 DEF Next, Census, CensusRaises, TakeOversize, TakeItem, Pipeline, PickFails,
       OpenJaw, Grab, CarryFails, Release, PickDone, RetreatFails, EndAttempt, PassEnds,
       Stop, Over, bookVars, vars
  <2> QED
    BY <2>1, <2>2, <2>3
<1>2. Spec => [][Final]_vars
  BY <1>1, SpecLoopInv, PTL DEF Spec
<1> QED
  BY <1>2, PickIsALoop DEF HandledIsFinal

\* The planner leaves out the target of the pick that moves and nothing else,
\* unless the call that says so raised (IgnoreFitsTheMotion).
THEOREM IgnoreAlwaysFits == PickSpec => []IgnoreFitsTheMotion
<1>1. PickInit => StepInv
  BY TableFacts DEF PickInit, Init, StepInv, IgnoreFitsTheMotion, Picking
<1>2. StepInv => IgnoreFitsTheMotion
  BY DEF StepInv
<1> QED
  BY <1>1, <1>2, PickStep, PTL DEF PickSpec
\* A loop that was not cancelled reports every block its censuses found, but for one that
\* lost its name to another, which is reported itself (SeenBlocksAreReported).
THEOREM SeenBlocksStayReported == PickSpec => []SeenBlocksAreReported
<1>1. Init => SeenInv
  BY DEF Init, SeenInv
<1>2. LoopInv /\ SeenInv => SeenBlocksAreReported
  <2> SUFFICES ASSUME LoopInv, SeenInv, pc = "done", ~cancel,
                      NEW b \in seen, outcome[b] = "none"
               PROVE  /\ b \in shadowed
                      /\ \E a \in seen \ {b} :
                            outcome[a] # "none" /\ Fires[Color[a]] \cap Fires[Color[b]] # {}
    BY DEF SeenBlocksAreReported
  <2>1. current = NoBlock /\ remaining = <<>> /\ seen \subseteq Blocks
    BY DEF LoopInv, BookInv, SeenInv, Picking
  <2>2. \A a \in seen : Accounted(a) <=> outcome[a] # "none"
    BY <2>1, LoopAssumption DEF Accounted
  <2>3. Namesake(b)
    BY <2>2 DEF SeenInv
  <2> QED
    BY <2>2, <2>3 DEF Namesake
<1> QED
  BY <1>1, <1>2, InitLoopInv, LoopStep, SeenStep, PickIsALoop, PTL DEF Spec
=============================================================================
