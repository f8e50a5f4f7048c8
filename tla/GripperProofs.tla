---------------------------- MODULE GripperProofs ----------------------------
(***************************************************************************)
(* Proofs about the two grippers.                                          *)
(*                                                                         *)
(* Jaw, for any number of callers, any angles and tolerances that          *)
(* JawAssumption admits and any HoldingSteps.  That an answer is earned is *)
(* not inductive.  What carries it is a count: while the jaw travels       *)
(* freely, every physics step brings it nearer to its target than the      *)
(* window has seen, so the first question after a step starts the count    *)
(* again, and the count stays below the number of questions asked since    *)
(* that step.                                                              *)
(*                                                                         *)
(* Vacuum, for any boxes, loads, limit and length of the window: the       *)
(* monitor opens the gripper for loads of the present hold, but for a hold *)
(* that began before the monitor saw the last one end; an open that came   *)
(* through holds nothing, and a hold is measured from its box.             *)
(***************************************************************************)
EXTENDS Jaw, Vacuum, SequenceTheorems, TLAPS

-----------------------------------------------------------------------------
(***************************************************************************)
(* The parallel jaw.                                                       *)
(***************************************************************************)
\* The jaw never passes the object, and the window belongs to a target.
PlaceInv ==
    /\ block # None => jaw <= block
    /\ told => latch
    /\ target = None => owner = None

\* The progress window while the jaw travels freely and nobody disturbed it.
GapInv ==
    target # None /\ ~disturbed /\ ~touched /\ Gap > Tol =>
        /\ ~latch
        /\ best # None =>
             /\ Gap <= best
             /\ asked = 0 => Gap < best - Eps
             /\ asked > 0 => count < asked

\* Where the call is whose command is in force.
OwnerInv == \A c \in Callers :
    /\ op[c] = "grab" => phase[c] # "settled"
    /\ owner = c =>
         /\ phase[c] \notin {"idle", "commanding", "halted"}
         /\ phase[c] = "held" /\ ~disturbed => touched

JawInv == JawTypeOK /\ PlaceInv /\ GapInv /\ OwnerInv

-----------------------------------------------------------------------------
\* The gap is an angle; a jaw that has a gap has a target.
LEMMA GapType ==
    ASSUME JawTypeOK
    PROVE  /\ Gap \in 0..Closed
           /\ Gap > Tol => target # None /\ target \in 0..Closed
  BY JawAssumption DEF JawTypeOK, Gap

\* The invariant holds at first.
LEMMA InitJawInv == JawInit => JawInv
<1> SUFFICES ASSUME JawInit PROVE JawInv
  OBVIOUS
<1>1. JawTypeOK
  <2>1. phase \in [Callers -> {"idle"} \cup Live \cup Ended] /\ op \in [Callers -> Ops]
    BY DEF JawInit
  <2>2. /\ jaw \in 0..Closed /\ block \in Contacts \cup {None}
        /\ count \in 0..HoldingSteps /\ asked \in 0..HoldingSteps
    BY JawAssumption DEF JawInit
  <2>3. /\ target \in 0..Closed \cup {None} /\ best \in 0..Closed \cup {None}
        /\ owner \in Callers \cup {None}
    BY DEF JawInit
  <2>4. /\ latch \in BOOLEAN /\ disturbed \in BOOLEAN
        /\ touched \in BOOLEAN /\ told \in BOOLEAN
    BY DEF JawInit
  <2> QED
    BY <2>1, <2>2, <2>3, <2>4 DEF JawTypeOK
<1>2. PlaceInv
  BY JawAssumption DEF JawInit, PlaceInv, JawTypeOK
<1>3. GapInv
  BY DEF JawInit, GapInv
<1>4. OwnerInv
  BY JawAssumption DEF JawInit, OwnerInv
<1> QED
  BY <1>1, <1>2, <1>3, <1>4 DEF JawInv

\* A command starts a window in which nothing has been asked.
LEMMA CommandKeepsInv ==
    ASSUME JawInv, NEW angle \in 0..Closed, NEW who \in Callers \cup {None},
           Command(angle, who), UNCHANGED physVars
    PROVE  /\ target' \in 0..Closed /\ best' = None /\ count' = 0 /\ owner' = who
           /\ latch' = FALSE /\ asked' = 0 /\ disturbed' = FALSE
           /\ touched' = FALSE /\ told' = FALSE
           /\ PlaceInv' /\ GapInv'
<1>1. /\ target' \in 0..Closed /\ best' = None /\ count' = 0 /\ owner' = who
      /\ latch' = FALSE /\ asked' = 0 /\ disturbed' = FALSE
      /\ touched' = FALSE /\ told' = FALSE
  BY DEF Command
<1>2. PlaceInv'
  BY <1>1, JawAssumption DEF PlaceInv, JawInv, physVars
<1>3. GapInv'
  BY <1>1 DEF GapInv
<1> QED
  BY <1>1, <1>2, <1>3

\* Undisturbed and untouched, no question finds a stall before the jaw is home.
LEMMA FreeJawIsMoving ==
    ASSUME JawInv, GapAndStall, ~disturbed', ~touched, Gap > Tol
    PROVE  /\ NextCount < HoldingSteps /\ ~NextLatch
           /\ NextCount < asked + 1 /\ asked < HoldingSteps
<1>1. ~disturbed /\ asked < HoldingSteps
  <2>1. ~disturbed /\ ~(asked >= HoldingSteps)
    BY Zenon DEF GapAndStall
  <2> QED
    BY <2>1, JawAssumption DEF JawInv, JawTypeOK
<1>2. target # None /\ Gap \in 0..Closed
  BY GapType DEF JawInv
<1>3. /\ ~latch
      /\ best # None =>
           /\ asked = 0 => Gap < best - Eps
           /\ asked > 0 => count < asked
  BY <1>1, <1>2 DEF JawInv, GapInv
<1>4. asked \in Nat /\ count \in Nat /\ HoldingSteps \in Nat \ {0}
  BY JawAssumption DEF JawInv, JawTypeOK
<1>5. NextCount < HoldingSteps /\ NextCount < asked + 1
  <2>1. CASE Improves
    BY <2>1, <1>4 DEF NextCount
  <2>2. CASE ~Improves
    <3>1. count < asked
      BY <2>2, <1>3, <1>4 DEF Improves
    <3> QED
      BY <2>2, <3>1, <1>1, <1>4 DEF NextCount
  <2> QED
    BY <2>1, <2>2
<1>6. ~NextLatch
  BY <1>3, <1>4, <1>5 DEF NextLatch, NextCount
<1> QED
  BY <1>1, <1>5, <1>6

\* A question, which takes a sample of the window, keeps what JawInv says of it.
LEMMA AsksKeepsInv ==
    ASSUME JawInv, GapAndStall
    PROVE  /\ best' \in 0..Closed \cup {None} /\ count' \in 0..HoldingSteps
           /\ latch' \in BOOLEAN /\ asked' \in 0..HoldingSteps
           /\ disturbed' \in BOOLEAN /\ told' \in BOOLEAN
           /\ touched' = touched /\ target' = target /\ owner' = owner
           /\ jaw' = jaw /\ block' = block
           /\ disturbed => disturbed'
           /\ PlaceInv' /\ GapInv'
<1> USE DEF JawInv
<1>1. touched' = touched /\ target' = target /\ owner' = owner /\ jaw' = jaw /\ block' = block
  BY DEF GapAndStall, physVars
<1>2. Gap \in 0..Closed /\ Gap' = Gap
  BY <1>1, GapType DEF Gap
<1>3. NextCount \in 0..HoldingSteps
  BY JawAssumption DEF NextCount, JawTypeOK
<1>4. best' \in 0..Closed \cup {None} /\ count' \in 0..HoldingSteps
  BY <1>2, <1>3 DEF GapAndStall, windowVars, JawTypeOK
<1>5. latch' \in BOOLEAN /\ disturbed' \in BOOLEAN /\ told' \in BOOLEAN
  BY Zenon DEF GapAndStall, windowVars, JawTypeOK, NextLatch, Holding
<1>6. asked' \in 0..HoldingSteps
  <2>1. CASE disturbed'
    BY <2>1, JawAssumption DEF GapAndStall
  <2>2. CASE ~disturbed'
    <3>1. asked' = asked + 1
      BY <2>2 DEF GapAndStall
    <3>2. ~(asked >= HoldingSteps)
      BY <2>2, Zenon DEF GapAndStall
    <3> QED
      BY <3>1, <3>2, JawAssumption DEF JawTypeOK
  <2> QED
    BY <2>1, <2>2
<1>7. disturbed => disturbed'
  BY DEF GapAndStall
<1>8. PlaceInv'
  <2>1. told' => latch'
    <3> SUFFICES ASSUME told' PROVE latch'
      OBVIOUS
    <3>1. Gap > Tol /\ (told \/ Holding)
      BY DEF GapAndStall
    <3>2. target # None
      BY <3>1, GapType
    <3>3. NextLatch
      BY <3>1 DEF PlaceInv, Holding, NextLatch
    <3> QED
      BY <3>2, <3>3 DEF GapAndStall
  <2> QED
    BY <1>1, <2>1 DEF PlaceInv
<1>9. GapInv'
  <2> SUFFICES ASSUME target' # None, ~disturbed', ~touched', Gap > Tol
               PROVE  /\ ~latch'
                      /\ best' # None =>
                           /\ Gap <= best'
                           /\ asked' = 0 => Gap < best' - Eps
                           /\ asked' > 0 => count' < asked'
    BY <1>2 DEF GapInv
  <2>1. NextCount < asked + 1 /\ ~NextLatch
    BY <1>1, FreeJawIsMoving
  <2>2. target # None /\ ~disturbed
    BY <1>1, <1>7
  <2>3. asked' = asked + 1 /\ asked \in Nat
    BY JawAssumption DEF GapAndStall, JawTypeOK
  <2>4. latch' = NextLatch /\ count' = NextCount /\ best' = IF Improves THEN Gap ELSE best
    BY <2>2 DEF GapAndStall
  <2>5. best' # None => Gap <= best'
    BY <1>1, <1>2, <2>2, <2>4 DEF GapInv
  <2> QED
    BY <2>1, <2>3, <2>4, <2>5
<1> QED
  BY <1>1, <1>4, <1>5, <1>6, <1>7, <1>8, <1>9

-----------------------------------------------------------------------------
(***************************************************************************)
(* The steps of a call: some give a command, some ask, the rest only move  *)
(* the call on.                                                            *)
(***************************************************************************)
LEMMA GotoType ==
    ASSUME JawTypeOK, NEW c \in Callers, NEW where \in {"idle"} \cup Live \cup Ended,
           Goto(c, where)
    PROVE  /\ phase' \in [Callers -> {"idle"} \cup Live \cup Ended]
           /\ op' \in [Callers -> Ops] /\ op' = op
           /\ phase'[c] = where
           /\ \A d \in Callers : d # c => phase'[d] = phase[d]
  BY DEF Goto, JawTypeOK

\* A call that gives the jaw a new target keeps JawInv.
LEMMA CommandingStep ==
    ASSUME JawInv, NEW c \in Callers,
           Commanded(c) \/ CommandedUnwatched(c) \/ Halts(c)
    PROVE  JawInv'
<1> USE DEF JawInv
<1>1. PICK where \in {"waiting", "unwatched", "halted"}, angle \in 0..Closed,
           who \in Callers \cup {None} :
        /\ Command(angle, who) /\ Goto(c, where) /\ UNCHANGED physVars
        /\ who = IF where = "halted" THEN None ELSE c
  <2>1. Goal(op[c]) \in 0..Closed /\ jaw \in 0..Closed
    BY JawAssumption DEF Goal, JawTypeOK
  <2>2. CASE Commanded(c)
    BY <2>1, <2>2 DEF Commanded
  <2>3. CASE CommandedUnwatched(c)
    BY <2>1, <2>3 DEF CommandedUnwatched
  <2>4. CASE Halts(c)
    BY <2>1, <2>4 DEF Halts, Hold
  <2> QED
    BY <2>2, <2>3, <2>4
<1>2. /\ target' \in 0..Closed /\ best' = None /\ count' = 0 /\ owner' = who
      /\ latch' = FALSE /\ asked' = 0 /\ disturbed' = FALSE
      /\ touched' = FALSE /\ told' = FALSE
      /\ PlaceInv' /\ GapInv'
  BY <1>1, CommandKeepsInv
<1>3. where \in {"idle"} \cup Live \cup Ended
  BY DEF Live, Ended
<1>4. /\ phase' \in [Callers -> {"idle"} \cup Live \cup Ended]
      /\ op' \in [Callers -> Ops] /\ op' = op
      /\ phase'[c] = where
      /\ \A d \in Callers : d # c => phase'[d] = phase[d]
  BY <1>1, <1>3, GotoType
<1>5. JawTypeOK'
  <2>1. jaw' \in 0..Closed /\ block' \in Contacts \cup {None}
    BY <1>1 DEF JawTypeOK, physVars
  <2>2. count' \in 0..HoldingSteps /\ asked' \in 0..HoldingSteps
    BY <1>2, JawAssumption
  <2>3. /\ latch' \in BOOLEAN /\ disturbed' \in BOOLEAN
        /\ touched' \in BOOLEAN /\ told' \in BOOLEAN
    BY <1>2
  <2>4. /\ target' \in 0..Closed \cup {None} /\ best' \in 0..Closed \cup {None}
        /\ owner' \in Callers \cup {None}
    BY <1>2
  <2> QED
    BY <1>4, <2>1, <2>2, <2>3, <2>4 DEF JawTypeOK
<1>6. OwnerInv'
  BY <1>1, <1>2, <1>4, JawAssumption DEF OwnerInv
<1> QED
  BY <1>2, <1>5, <1>6

\* What a question may end a call with, and when.
LEMMA AskingStep ==
    ASSUME JawInv, NEW c \in Callers, Polls(c) \/ Judges(c) \/ AsksLast(c)
    PROVE  /\ JawInv'
           /\ \A d \in Callers : phase'[d] # phase[d] /\ ~disturbed' =>
                /\ phase'[d] = "held" => touched
                /\ phase'[d] \in {"settled", "judging"} => touched \/ Gap <= Tol
<1> USE DEF JawInv
<1>1. PICK where \in {"waiting", "judging", "settled", "held", "empty"} :
        /\ GapAndStall /\ Goto(c, where)
        /\ phase[c] \in {"waiting", "judging", "asking"}
        /\ where = "settled" => op[c] # "grab" /\ ~Moving
        /\ where = "judging" => phase[c] = "judging" \/ ~Moving
        /\ where = "held" => Holding
  <2>1. CASE Polls(c)
    BY <2>1 DEF Polls
  <2>2. CASE Judges(c)
    BY <2>2 DEF Judges
  <2>3. CASE AsksLast(c)
    BY <2>3 DEF AsksLast
  <2> QED
    BY <2>1, <2>2, <2>3
<1>2. /\ best' \in 0..Closed \cup {None} /\ count' \in 0..HoldingSteps
      /\ latch' \in BOOLEAN /\ asked' \in 0..HoldingSteps
      /\ disturbed' \in BOOLEAN /\ told' \in BOOLEAN
      /\ touched' = touched /\ target' = target /\ owner' = owner
      /\ jaw' = jaw /\ block' = block
      /\ disturbed => disturbed'
      /\ PlaceInv' /\ GapInv'
  BY <1>1, AsksKeepsInv
<1>3. where \in {"idle"} \cup Live \cup Ended
  BY DEF Live, Ended
<1>4. /\ phase' \in [Callers -> {"idle"} \cup Live \cup Ended]
      /\ op' \in [Callers -> Ops] /\ op' = op
      /\ phase'[c] = where
      /\ \A d \in Callers : d # c => phase'[d] = phase[d]
  BY <1>1, <1>3, GotoType
<1>5. JawTypeOK'
  BY <1>2, <1>4 DEF JawTypeOK
<1>6. ~disturbed' /\ ~touched /\ Gap > Tol => Moving /\ ~Holding
  <2> SUFFICES ASSUME ~disturbed', ~touched, Gap > Tol PROVE Moving /\ ~Holding
    OBVIOUS
  <2>1. NextCount < HoldingSteps /\ ~NextLatch
    BY <1>1, FreeJawIsMoving
  <2>2. ~(NextCount >= HoldingSteps)
    BY <2>1, JawAssumption DEF NextCount, JawTypeOK
  <2> QED
    BY <2>1, <2>2, Zenon DEF Moving, Holding
<1>7. Gap \in 0..Closed /\ Tol \in Nat
  BY GapType, JawAssumption
<1>8. Holding => Gap > Tol
  BY DEF Holding
<1>9. ~disturbed' =>
        /\ where = "held" => touched
        /\ where = "settled" => touched \/ Gap <= Tol
        /\ where = "judging" /\ phase[c] # "judging" => touched \/ Gap <= Tol
  BY <1>1, <1>6, <1>7, <1>8
<1>10. OwnerInv'
  <2> SUFFICES ASSUME NEW d \in Callers
               PROVE  /\ op[d] = "grab" => phase'[d] # "settled"
                      /\ owner = d =>
                           /\ phase'[d] \notin {"idle", "commanding", "halted"}
                           /\ phase'[d] = "held" /\ ~disturbed' => touched
    BY <1>2, <1>4 DEF OwnerInv
  <2>1. CASE d = c
    BY <2>1, <1>1, <1>4, <1>9
  <2>2. CASE d # c
    BY <2>2, <1>2, <1>4 DEF OwnerInv
  <2> QED
    BY <2>1, <2>2
<1>11. \A d \in Callers : phase'[d] # phase[d] /\ ~disturbed' =>
                /\ phase'[d] = "held" => touched
                /\ phase'[d] \in {"settled", "judging"} => touched \/ Gap <= Tol
  BY <1>4, <1>9
<1> QED
  BY <1>2, <1>5, <1>10, <1>11

\* The steps of a call that touch neither target nor window keep JawInv.
LEMMA QuietStep ==
    ASSUME JawInv, NEW c \in Callers,
           Arrives(c) \/ Expires(c) \/ Dropped(c) \/ CallRaises(c)
    PROVE  /\ JawInv'
           /\ \A d \in Callers : phase'[d] # phase[d] => phase'[d] \notin {"held", "settled", "judging"}
<1> USE DEF JawInv
<1>1. PICK where \in {"commanding", "expired", "asking", "halting", "gone", "raised"} :
        /\ Goto(c, where)
        /\ where = "commanding" => phase[c] = "idle"
        /\ UNCHANGED <<physVars, target, windowVars, owner, pastVars>>
  <2>1. CASE Arrives(c)
    BY <2>1 DEF Arrives
  <2>2. CASE Expires(c)
    BY <2>2 DEF Expires
  <2>3. CASE Dropped(c)
    BY <2>3 DEF Dropped
  <2>4. CASE CallRaises(c)
    BY <2>4 DEF CallRaises
  <2> QED
    BY <2>1, <2>2, <2>3, <2>4
<1>2. where \in {"idle"} \cup Live \cup Ended
  BY DEF Live, Ended
<1>3. /\ phase' \in [Callers -> {"idle"} \cup Live \cup Ended]
      /\ op' \in [Callers -> Ops] /\ op' = op
      /\ phase'[c] = where
      /\ \A d \in Callers : d # c => phase'[d] = phase[d]
  BY <1>1, <1>2, GotoType
<1>4. JawTypeOK'
  BY <1>1, <1>3 DEF JawTypeOK, physVars, windowVars, pastVars
<1>5. PlaceInv' /\ GapInv'
  BY <1>1 DEF PlaceInv, GapInv, Gap, physVars, windowVars, pastVars
<1>6. OwnerInv'
  <2> SUFFICES ASSUME NEW d \in Callers
               PROVE  /\ op[d] = "grab" => phase'[d] # "settled"
                      /\ owner = d =>
                           /\ phase'[d] \notin {"idle", "commanding", "halted"}
                           /\ phase'[d] = "held" /\ ~disturbed => touched
    BY <1>1, <1>3 DEF OwnerInv, pastVars
  <2>1. CASE d = c
    BY <2>1, <1>1, <1>3 DEF OwnerInv
  <2>2. CASE d # c
    BY <2>2, <1>3 DEF OwnerInv
  <2> QED
    BY <2>1, <2>2
<1>7. \A d \in Callers : phase'[d] # phase[d] => phase'[d] \notin {"held", "settled", "judging"}
  BY <1>1, <1>3
<1> QED
  BY <1>4, <1>5, <1>6, <1>7

\* A stop keeps JawInv.
LEMMA StopStep ==
    ASSUME JawInv, Stop
    PROVE  JawInv'
<1> USE DEF JawInv
<1>1. Command(jaw, None) /\ UNCHANGED physVars /\ UNCHANGED callVars
  BY DEF Stop, Hold
<1>2. jaw \in 0..Closed
  BY DEF JawTypeOK
<1>3. /\ target' \in 0..Closed /\ best' = None /\ count' = 0 /\ owner' = None
      /\ latch' = FALSE /\ asked' = 0 /\ disturbed' = FALSE
      /\ touched' = FALSE /\ told' = FALSE
      /\ PlaceInv' /\ GapInv'
  BY <1>1, <1>2, CommandKeepsInv
<1>4. JawTypeOK'
  <2>1. /\ jaw' \in 0..Closed /\ block' \in Contacts \cup {None}
        /\ phase' \in [Callers -> {"idle"} \cup Live \cup Ended] /\ op' \in [Callers -> Ops]
    BY <1>1 DEF JawTypeOK, physVars, callVars
  <2>2. count' \in 0..HoldingSteps /\ asked' \in 0..HoldingSteps
    BY <1>3, JawAssumption
  <2>3. /\ latch' \in BOOLEAN /\ disturbed' \in BOOLEAN
        /\ touched' \in BOOLEAN /\ told' \in BOOLEAN
    BY <1>3
  <2>4. /\ target' \in 0..Closed \cup {None} /\ best' \in 0..Closed \cup {None}
        /\ owner' \in Callers \cup {None}
    BY <1>3
  <2> QED
    BY <2>1, <2>2, <2>3, <2>4 DEF JawTypeOK
<1>5. OwnerInv'
  BY <1>1, <1>3, JawAssumption DEF OwnerInv, callVars
<1> QED
  BY <1>3, <1>4, <1>5

\* A question that nobody waits on keeps JawInv.
LEMMA ObserveStep ==
    ASSUME JawInv, Observe
    PROVE  JawInv'
<1> USE DEF JawInv
<1>1. /\ best' \in 0..Closed \cup {None} /\ count' \in 0..HoldingSteps
      /\ latch' \in BOOLEAN /\ asked' \in 0..HoldingSteps
      /\ disturbed' \in BOOLEAN /\ told' \in BOOLEAN
      /\ touched' = touched /\ target' = target /\ owner' = owner
      /\ jaw' = jaw /\ block' = block
      /\ disturbed => disturbed'
      /\ PlaceInv' /\ GapInv'
  BY AsksKeepsInv DEF Observe
<1>2. phase' = phase /\ op' = op
  BY DEF Observe, callVars
<1>3. JawTypeOK'
  BY <1>1, <1>2 DEF JawTypeOK
<1>4. OwnerInv'
  BY <1>1, <1>2 DEF OwnerInv
<1> QED
  BY <1>1, <1>3, <1>4

-----------------------------------------------------------------------------
(***************************************************************************)
(* The simulation's steps.                                                 *)
(***************************************************************************)
\* A free jaw gains Travel on its target in every step that does not end there.
LEMMA PhysicsKeepsInv ==
    ASSUME JawInv, JawStep
    PROVE  JawInv'
<1> USE DEF JawInv
<1>1. /\ block' = block /\ target' = target /\ best' = best /\ count' = count
      /\ latch' = latch /\ phase' = phase /\ op' = op /\ owner' = owner
      /\ disturbed' = disturbed /\ told' = told /\ asked' = 0
  BY DEF JawStep, windowVars, callVars
<1>2. /\ jaw \in 0..Closed /\ Drive \in 0..Closed /\ Closed \in Nat /\ Travel \in Nat
      /\ Eps \in Nat /\ Tol \in Nat /\ Travel > Eps
      /\ block # None => block \in 0..Closed /\ jaw <= block
  BY JawAssumption DEF JawTypeOK, Drive, PlaceInv
<1>3. /\ jaw' \in 0..Closed
      /\ block # None => jaw' <= block
  <2> DEFINE limit == IF block = None THEN Closed ELSE block
  <2>1. limit \in 0..Closed /\ jaw <= limit /\ (block # None => limit = block)
    BY <1>2
  <2>2. CASE Drive < jaw
    <3>1. jaw' = Larger(jaw - Travel, Drive)
      BY <2>2 DEF JawStep
    <3>2. jaw' \in 0..jaw
      BY <1>2, <2>2, <3>1 DEF Larger
    <3> QED
      BY <1>2, <2>1, <3>2
  <2>3. CASE ~(Drive < jaw)
    <3>1. jaw' = Smaller(Smaller(jaw + Travel, Drive), limit)
      BY <2>3 DEF JawStep
    <3>2. jaw' \in 0..limit
      <4> HIDE DEF limit
      <4> QED
        BY <1>2, <2>1, <2>3, <3>1 DEF Smaller
    <3> QED
      BY <1>2, <2>1, <3>2
  <2> QED
    BY <2>2, <2>3
<1>4. touched' \in BOOLEAN /\ (touched => touched')
  BY Zenon DEF JawStep
<1>5. ~touched' => ~(block = jaw' /\ Drive > jaw')
  BY Zenon DEF JawStep
<1>6. JawTypeOK'
  BY <1>1, <1>3, <1>4, JawAssumption DEF JawTypeOK
<1>7. PlaceInv'
  BY <1>1, <1>3 DEF PlaceInv
<1>8. GapInv'
  <2> SUFFICES ASSUME target # None, ~disturbed, ~touched', Gap' > Tol
               PROVE  /\ ~latch
                      /\ best # None => Gap' <= best /\ Gap' < best - Eps
    BY <1>1 DEF GapInv
  <2>1. target \in 0..Closed /\ Drive = target
    BY DEF JawTypeOK, Drive
  <2>2. Gap = IF target > jaw THEN target - jaw ELSE jaw - target
    BY <2>1 DEF Gap
  <2>3. Gap' = IF target > jaw' THEN target - jaw' ELSE jaw' - target
    BY <1>1, <2>1 DEF Gap
  <2>4. jaw' # target
    <3> SUFFICES ASSUME jaw' = target PROVE FALSE
      OBVIOUS
    <3>1. Gap' = 0
      BY <1>3, <2>1, <2>3
    <3> QED
      BY <1>2, <3>1
  <2>5. Gap' = Gap - Travel
    <3>1. CASE target < jaw
      <4>1. jaw' = Larger(jaw - Travel, target)
        BY <2>1, <3>1 DEF JawStep
      <4>2. jaw' = jaw - Travel /\ jaw' > target
        BY <1>2, <2>1, <2>4, <4>1 DEF Larger
      <4> QED
        BY <1>2, <1>3, <2>1, <2>2, <2>3, <3>1, <4>2
    <3>2. CASE ~(target < jaw)
      <4> DEFINE limit == IF block = None THEN Closed ELSE block
      <4>1. jaw' = Smaller(Smaller(jaw + Travel, target), limit)
        BY <2>1, <3>2 DEF JawStep
      <4>2. limit \in 0..Closed
        BY <1>2
      <4>3. jaw' <= target
        <5> HIDE DEF limit
        <5> QED
          BY <1>2, <2>1, <4>1, <4>2 DEF Smaller
      <4>4. jaw' < target
        BY <1>3, <2>1, <2>4, <4>3
      <4>5. block # jaw'
        BY <1>5, <2>1, <4>4
      <4>6. jaw' # limit
        BY <1>2, <2>1, <4>4, <4>5
      <4>7. jaw' = jaw + Travel
        <5> HIDE DEF limit
        <5> QED
          BY <1>2, <2>1, <4>1, <4>2, <4>4, <4>6 DEF Smaller
      <4> QED
        BY <1>2, <1>3, <2>1, <2>2, <2>3, <3>2, <4>4, <4>7
    <3> QED
      BY <3>1, <3>2
  <2>6. Gap \in 0..Closed
    BY GapType
  <2>7. Gap > Tol /\ ~touched
    BY <1>2, <1>4, <2>5, <2>6
  <2>8. ~latch /\ (best # None => Gap <= best)
    BY <2>7 DEF GapInv
  <2>9. best # None => best \in 0..Closed
    BY DEF JawTypeOK
  <2> QED
    BY <1>2, <2>5, <2>6, <2>8, <2>9
<1>9. OwnerInv'
  BY <1>1, <1>4 DEF OwnerInv
<1> QED
  BY <1>6, <1>7, <1>8, <1>9

\* The jaw and the block may move between two questions.
LEMMA WorldStep ==
    ASSUME JawInv, Creep \/ BlockMoves \/ WorldResets
    PROVE  JawInv'
<1> USE DEF JawInv
<1>1. CASE Creep
  <2>1. /\ jaw' \in Contacts /\ block' = jaw' /\ touched' = TRUE /\ asked' = 0
        /\ target' = target /\ best' = best /\ count' = count /\ latch' = latch
        /\ phase' = phase /\ op' = op /\ owner' = owner
        /\ disturbed' = disturbed /\ told' = told
    BY <1>1 DEF Creep, windowVars, callVars
  <2>2. JawTypeOK'
    BY <2>1, JawAssumption DEF JawTypeOK
  <2>3. PlaceInv' /\ GapInv'
    BY <2>1, JawAssumption DEF PlaceInv, GapInv
  <2>4. OwnerInv'
    BY <2>1 DEF OwnerInv
  <2> QED
    BY <2>2, <2>3, <2>4
<1>2. CASE BlockMoves
  <2>1. /\ block' = None \/ (block' \in Contacts /\ block' >= jaw)
        /\ jaw' = jaw /\ target' = target /\ best' = best /\ count' = count
        /\ latch' = latch /\ phase' = phase /\ op' = op /\ owner' = owner
        /\ asked' = asked /\ disturbed' = disturbed /\ touched' = touched /\ told' = told
    BY <1>2 DEF BlockMoves, windowVars, callVars, pastVars
  <2>2. JawTypeOK'
    BY <2>1 DEF JawTypeOK
  <2>3. PlaceInv' /\ GapInv'
    BY <2>1, JawAssumption DEF PlaceInv, GapInv, Gap, JawTypeOK
  <2>4. OwnerInv'
    BY <2>1 DEF OwnerInv
  <2> QED
    BY <2>2, <2>3, <2>4
<1>3. CASE WorldResets
  <2>1. /\ jaw' = 0 /\ disturbed' = TRUE /\ asked' = 0
        /\ block' = block /\ target' = target /\ best' = best /\ count' = count
        /\ latch' = latch /\ phase' = phase /\ op' = op /\ owner' = owner
        /\ touched' = touched /\ told' = told
    BY <1>3 DEF WorldResets, windowVars, callVars
  <2>2. JawTypeOK'
    BY <2>1, JawAssumption DEF JawTypeOK
  <2>3. PlaceInv' /\ GapInv'
    BY <2>1, JawAssumption DEF PlaceInv, GapInv, JawTypeOK
  <2>4. OwnerInv'
    BY <2>1 DEF OwnerInv
  <2> QED
    BY <2>2, <2>3, <2>4
<1> QED
  BY <1>1, <1>2, <1>3

\* JawInv is kept by every step.
LEMMA NextJawInv == JawInv /\ [JawNext]_jawVars => JawInv'
<1> SUFFICES ASSUME JawInv, [JawNext]_jawVars PROVE JawInv'
  OBVIOUS
<1>1. CASE UNCHANGED jawVars
  BY <1>1 DEF jawVars, physVars, windowVars, callVars, pastVars, JawInv, JawTypeOK,
     PlaceInv, GapInv, OwnerInv, Gap
<1>2. ASSUME NEW c \in Callers,
             Commanded(c) \/ CommandedUnwatched(c) \/ Halts(c)
      PROVE  JawInv'
  BY <1>2, CommandingStep
<1>3. ASSUME NEW c \in Callers, Polls(c) \/ Judges(c) \/ AsksLast(c)
      PROVE  JawInv'
  BY <1>3, AskingStep
<1>4. ASSUME NEW c \in Callers, Arrives(c) \/ Expires(c) \/ Dropped(c) \/ CallRaises(c)
      PROVE  JawInv'
  BY <1>4, QuietStep
<1>5. CASE Stop
  BY <1>5, StopStep
<1>6. CASE Observe
  BY <1>6, ObserveStep
<1>7. CASE JawStep
  BY <1>7, PhysicsKeepsInv
<1>8. CASE Creep \/ BlockMoves \/ WorldResets
  BY <1>8, WorldStep
<1> QED
  BY <1>1, <1>2, <1>3, <1>4, <1>5, <1>6, <1>7, <1>8 DEF JawNext, Serves

\* JawInv is an invariant.
LEMMA SpecJawInv == JawSpec => []JawInv
  BY InitJawInv, NextJawInv, PTL DEF JawSpec

-----------------------------------------------------------------------------
(***************************************************************************)
(* The theorems.                                                           *)
(***************************************************************************)
\* Every variable has its type (JawTypeOK).
THEOREM JawTypeCorrect == JawSpec => []JawTypeOK
<1>1. JawInv => JawTypeOK
  BY DEF JawInv
<1> QED
  BY <1>1, SpecJawInv, PTL

\* A hold that somebody was told of is one that everybody is told of, until a
\* new command or until the jaw has closed on nothing (HoldsAreKept).
THEOREM HoldsAreKeptAlways == JawSpec => []HoldsAreKept
<1>1. JawInv => HoldsAreKept
  <2> SUFFICES ASSUME JawInv, told, ~(Gap <= Tol) PROVE Holding
    BY DEF HoldsAreKept
  <2>1. latch
    BY DEF JawInv, PlaceInv
  <2>2. Gap > Tol
    BY GapType, JawAssumption DEF JawInv
  <2> QED
    BY <2>1, <2>2, Zenon DEF Holding, NextLatch
<1> QED
  BY <1>1, SpecJawInv, PTL

\* No grab that was dropped in its wait, or answered, leaves the jaw closing
\* through the air (GrabsAreWatched).
THEOREM GrabsStayWatched == JawSpec => []GrabsAreWatched
<1>1. JawInv => GrabsAreWatched
  <2> SUFFICES ASSUME JawInv, NEW c \in Callers, owner = c, op[c] = "grab",
                      ~touched, ~disturbed
               PROVE  phase[c] \in Live \cup {"unwatched", "expired", "raised", "empty", "gone"}
    BY DEF GrabsAreWatched
  <2>1. phase[c] \in {"idle"} \cup Live \cup Ended
    BY DEF JawInv, JawTypeOK
  <2>2. phase[c] \notin {"idle", "commanding", "halted", "settled", "held"}
    BY DEF JawInv, OwnerInv
  <2> QED
    BY <2>1, <2>2 DEF Ended
<1> QED
  BY <1>1, SpecJawInv, PTL

\* However many clients share the progress window: undisturbed, a call is told
\* of a hold only once the jaw met an object, and that it has settled only once
\* the jaw is home or met one (AnswersAreEarned).
THEOREM AnswersStayEarned == JawSpec => AnswersAreEarned
<1> DEFINE Earned ==
      \A c \in Callers :
          phase'[c] # phase[c] /\ ~disturbed' =>
             /\ phase'[c] = "held" => touched
             /\ phase'[c] \in {"settled", "judging"} => touched \/ Gap <= Tol
<1>1. JawInv /\ [JawNext]_jawVars => [Earned]_jawVars
  <2> SUFFICES ASSUME JawInv, JawNext PROVE Earned
    OBVIOUS
  <2>1. ASSUME NEW c \in Callers, Polls(c) \/ Judges(c) \/ AsksLast(c)
        PROVE  Earned
    BY <2>1, AskingStep
  <2>2. ASSUME NEW c \in Callers, Arrives(c) \/ Expires(c) \/ Dropped(c) \/ CallRaises(c)
        PROVE  Earned
    BY <2>2, QuietStep
  <2>3. ASSUME NEW c \in Callers,
               Commanded(c) \/ CommandedUnwatched(c) \/ Halts(c)
        PROVE  Earned
    BY <2>3 DEF Commanded, CommandedUnwatched, Halts, Goto, JawInv, JawTypeOK
  <2>4. CASE Stop \/ Observe \/ JawStep \/ Creep \/ BlockMoves \/ WorldResets
    BY <2>4 DEF Stop, Observe, JawStep, Creep, BlockMoves, WorldResets, callVars
  <2> QED
    BY <2>1, <2>2, <2>3, <2>4 DEF JawNext, Serves
<1>2. JawSpec => [][Earned]_jawVars
  BY <1>1, SpecJawInv, PTL DEF JawSpec
<1> QED
  BY <1>2 DEF AnswersAreEarned

-----------------------------------------------------------------------------
(***************************************************************************)
(* The vacuum gripper.                                                     *)
(***************************************************************************)
\* The tasks of the client's calls, and all of them.
ClientTasks == {"close", "open", "status"}
Tasks == ClientTasks \cup {"reset", "remove"}

TypeInv ==
    /\ {held, under} \subseteq Boxes \cup {NoBox}
    /\ load \in Nat \cup {NoLoad}
    /\ samples \in Seq(Nat) /\ own \in Seq(Nat)
    /\ queue \in Seq(Tasks)

\* The gripper holds a box exactly while it is closed.
HeldInv == held # NoBox => status = "Closed"

\* The client has one task at most and waits for it, so the fields it wrote are
\* those the task acts for.
TaskInv ==
    /\ \A i \in DOMAIN queue : queue[i] \in ClientTasks => pc = "wait"
    /\ \A i \in DOMAIN queue : queue[i] = "open" => ~Closes
    /\ \A i, j \in DOMAIN queue : {queue[i], queue[j]} \subseteq ClientTasks => i = j
    /\ ~Closes => engaged = FALSE

\* An open that came through leaves a gripper that a reset would not close.
OpenInv == last = "open" => status = "Open" /\ engaged = FALSE

\* The rest is of the box that the gripper is about to take, and then of it.
RestInv == last = "grab" /\ ~strayed =>
    /\ status = "Closing" => rest \in {under, NoBox}
    /\ held # NoBox => rest \in {held, NoBox}

\* s is what t ends with.
EndsWith(t, s) ==
    /\ Len(s) <= Len(t)
    /\ \A k \in 0..(Len(s) - 1) : s[Len(s) - k] = t[Len(t) - k]

\* What the window holds are the last loads of this hold, or, if it began with
\* loads of another in the window, those followed by all of this hold.
WindowInv ==
    /\ Len(own) <= Steps /\ Len(samples) <= Steps
    /\ EndsWith(own, samples) \/ (inherited /\ EndsWith(samples, own))

VacuumInv == TypeInv /\ HeldInv /\ TaskInv /\ OpenInv /\ RestInv /\ WindowInv

-----------------------------------------------------------------------------
(***************************************************************************)
(* Sequences.                                                              *)
(***************************************************************************)
\* A load is pushed onto a window, which drops its first when it is full.
LEMMA PushFacts ==
    ASSUME NEW s \in Seq(Nat), Len(s) <= Steps, NEW x \in Nat
    PROVE  /\ Push(s, x) \in Seq(Nat)
           /\ Len(Push(s, x)) = IF Len(s) < Steps THEN Len(s) + 1 ELSE Steps
           /\ Push(s, x)[Len(Push(s, x))] = x
           /\ \A k \in 1..(Len(Push(s, x)) - 1) :
                 Push(s, x)[Len(Push(s, x)) - k] = s[Len(s) - k + 1]
<1> USE VacuumAssumption
<1>1. Len(s) \in Nat /\ Steps \in Nat \ {0}
  OBVIOUS
<1>2. CASE Len(s) < Steps
  <2>1. Push(s, x) = Append(s, x)
    BY <1>1, <1>2 DEF Push, Filled
  <2> QED
    BY <1>1, <1>2, <2>1
<1>3. CASE Len(s) = Steps
  <2>1. Push(s, x) = Append(Tail(s), x)
    BY <1>1, <1>3 DEF Push, Filled
  <2>2. /\ Tail(s) \in Seq(Nat) /\ Len(Tail(s)) = Steps - 1
        /\ \A i \in 1..(Steps - 1) : Tail(s)[i] = s[i + 1]
    BY <1>1, <1>3
  <2> QED
    BY <1>1, <1>3, <2>1, <2>2
<1> QED
  BY <1>1, <1>2, <1>3

\* A window and a longer record of the same loads agree after one more.
LEMMA PushKeepsEnd ==
    ASSUME NEW s \in Seq(Nat), NEW t \in Seq(Nat), NEW x \in Nat,
           Len(t) <= Steps, EndsWith(t, s)
    PROVE  /\ EndsWith(Push(t, x), Push(s, x))
           /\ Filled(Push(s, x)) => Push(t, x) = Push(s, x)
<1> USE VacuumAssumption
<1> DEFINE ps == Push(s, x)
           pt == Push(t, x)
<1>1. Len(s) \in Nat /\ Len(t) \in Nat /\ Len(s) <= Len(t) /\ Len(s) <= Steps
  BY DEF EndsWith
<1>2. /\ ps \in Seq(Nat) /\ Len(ps) = IF Len(s) < Steps THEN Len(s) + 1 ELSE Steps
      /\ ps[Len(ps)] = x /\ \A k \in 1..(Len(ps) - 1) : ps[Len(ps) - k] = s[Len(s) - k + 1]
  BY <1>1, PushFacts
<1>3. /\ pt \in Seq(Nat) /\ Len(pt) = IF Len(t) < Steps THEN Len(t) + 1 ELSE Steps
      /\ pt[Len(pt)] = x /\ \A k \in 1..(Len(pt) - 1) : pt[Len(pt) - k] = t[Len(t) - k + 1]
  BY <1>1, PushFacts
<1> HIDE DEF ps, pt
<1>4. Len(ps) <= Len(pt) /\ Len(pt) <= Steps /\ Len(ps) \in Nat /\ Len(pt) \in Nat
  <2>1. Len(ps) \in Nat /\ Len(pt) \in Nat
    BY <1>1, <1>2, <1>3
  <2>2. Len(ps) <= Len(pt) /\ Len(pt) <= Steps
    <3>1. CASE Len(t) < Steps
      <4>1. Len(s) < Steps
        BY <1>1, <3>1
      <4>2. Len(ps) = Len(s) + 1 /\ Len(pt) = Len(t) + 1
        BY <1>2, <1>3, <3>1, <4>1
      <4> QED
        BY <1>1, <3>1, <4>2
    <3>2. CASE Len(t) = Steps
      <4>1. Len(pt) = Steps
        BY <1>3, <3>2
      <4>2. (Len(ps) = Len(s) + 1 /\ Len(s) < Steps) \/ Len(ps) = Steps
        BY <1>2
      <4> QED
        BY <1>1, <4>1, <4>2
    <3> QED
      BY <1>1, <3>1, <3>2
  <2> QED
    BY <2>1, <2>2
<1>5. ASSUME NEW k \in 0..(Len(ps) - 1) PROVE ps[Len(ps) - k] = pt[Len(pt) - k]
  <2>1. CASE k = 0
    <3>1. ps[Len(ps) - k] = ps[Len(ps)] /\ pt[Len(pt) - k] = pt[Len(pt)]
      BY <1>4, <2>1
    <3> QED
      BY <1>2, <1>3, <3>1
  <2>2. CASE k # 0
    <3>1. k - 1 \in 0..(Len(s) - 1) /\ Len(s) - (k - 1) = Len(s) - k + 1
          /\ Len(t) - (k - 1) = Len(t) - k + 1
      BY <1>1, <1>2, <1>4, <2>2
    <3>2. s[Len(s) - (k - 1)] = t[Len(t) - (k - 1)]
      BY <3>1 DEF EndsWith
    <3>3. k \in 1..(Len(ps) - 1) /\ k \in 1..(Len(pt) - 1)
      BY <1>4, <2>2
    <3>4. ps[Len(ps) - k] = s[Len(s) - (k - 1)] /\ pt[Len(pt) - k] = t[Len(t) - (k - 1)]
      BY <1>2, <1>3, <3>1, <3>3
    <3> QED
      BY <3>2, <3>4
  <2> QED
    BY <2>1, <2>2
<1>6. ASSUME Filled(ps) PROVE pt = ps
  <2>1. Len(ps) = Steps /\ Len(pt) = Steps
    BY <1>4, <1>6 DEF Filled
  <2>2. ASSUME NEW i \in 1..Steps PROVE ps[i] = pt[i]
    <3>1. Steps - i \in 0..(Len(ps) - 1) /\ Steps - (Steps - i) = i
      BY <2>1
    <3> QED
      BY <1>5, <2>1, <3>1
  <2> QED
    BY <1>2, <1>3, <2>1, <2>2
<1> QED
  BY <1>4, <1>5, <1>6 DEF EndsWith, ps, pt

\* One element of a sequence is removed.
LEMMA RemoveFacts ==
    ASSUME NEW S, NEW s \in Seq(S), NEW i \in DOMAIN s
    PROVE  /\ RemoveAt(s, i) \in Seq(S)
           /\ \A k \in DOMAIN RemoveAt(s, i) :
                 \E j \in DOMAIN s : j # i /\ RemoveAt(s, i)[k] = s[j]
<1>1. Len(s) \in Nat /\ DOMAIN s = 1..Len(s) /\ i \in 1..Len(s)
  OBVIOUS
<1>2. /\ SubSeq(s, 1, i - 1) \in Seq(S) /\ Len(SubSeq(s, 1, i - 1)) = i - 1
      /\ \A k \in 1..(i - 1) : SubSeq(s, 1, i - 1)[k] = s[k]
  BY <1>1
<1>3. /\ SubSeq(s, i + 1, Len(s)) \in Seq(S)
      /\ Len(SubSeq(s, i + 1, Len(s))) = Len(s) - i
      /\ \A k \in 1..(Len(s) - i) : SubSeq(s, i + 1, Len(s))[k] = s[i + k]
  BY <1>1
<1>4. RemoveAt(s, i) = SubSeq(s, 1, i - 1) \o SubSeq(s, i + 1, Len(s))
  BY DEF RemoveAt
<1>5. /\ RemoveAt(s, i) \in Seq(S) /\ DOMAIN RemoveAt(s, i) = 1..(Len(s) - 1)
      /\ \A k \in 1..(Len(s) - 1) :
            RemoveAt(s, i)[k] = IF k < i THEN s[k] ELSE s[k + 1]
  <2> DEFINE a == SubSeq(s, 1, i - 1)
             b == SubSeq(s, i + 1, Len(s))
  <2> HIDE DEF a, b
  <2>1. /\ a \o b \in Seq(S) /\ Len(a \o b) = Len(a) + Len(b)
        /\ \A k \in 1..(Len(a) + Len(b)) :
              (a \o b)[k] = IF k <= Len(a) THEN a[k] ELSE b[k - Len(a)]
    BY <1>2, <1>3, ConcatProperties DEF a, b
  <2>2. Len(a) = i - 1 /\ Len(b) = Len(s) - i
    BY <1>2, <1>3 DEF a, b
  <2>3. ASSUME NEW k \in 1..(Len(s) - 1), k < i PROVE (a \o b)[k] = s[k]
    <3>1. k \in 1..(i - 1) /\ k <= Len(a) /\ k \in 1..(Len(a) + Len(b))
      BY <1>1, <2>2, <2>3
    <3> QED
      BY <1>2, <2>1, <3>1 DEF a
  <2>4. ASSUME NEW k \in 1..(Len(s) - 1), ~(k < i) PROVE (a \o b)[k] = s[k + 1]
    <3>1. /\ k - Len(a) \in 1..(Len(s) - i) /\ ~(k <= Len(a)) /\ k \in 1..(Len(a) + Len(b))
          /\ i + (k - Len(a)) = k + 1
      BY <1>1, <2>2, <2>4
    <3>2. (a \o b)[k] = b[k - Len(a)]
      BY <2>1, <3>1
    <3> QED
      BY <1>3, <3>1, <3>2 DEF b
  <2>5. DOMAIN (a \o b) = 1..(Len(s) - 1)
    <3>1. Len(a \o b) = Len(s) - 1
      BY <1>1, <2>1, <2>2
    <3> QED
      BY <2>1, <3>1
  <2> QED
    BY <1>4, <2>1, <2>3, <2>4, <2>5 DEF a, b
<1>6. ASSUME NEW k \in DOMAIN RemoveAt(s, i)
      PROVE  \E j \in DOMAIN s : j # i /\ RemoveAt(s, i)[k] = s[j]
  BY <1>1, <1>5, <1>6
<1> QED
  BY <1>5, <1>6

-----------------------------------------------------------------------------
(***************************************************************************)
(* The invariant, part by part.                                            *)
(***************************************************************************)
\* It holds at first.
LEMMA InitVacuumInv == Init => VacuumInv
<1> SUFFICES ASSUME Init PROVE VacuumInv
  OBVIOUS
<1>1. TypeInv
  BY DEF Init, TypeInv
<1>2. WindowInv
  BY VacuumAssumption DEF Init, WindowInv, EndsWith
<1> QED
  BY <1>1, <1>2 DEF Init, VacuumInv, HeldInv, TaskInv, OpenInv, RestInv, Closes

\* The queue of the sim thread, action by action.
LEMMA TaskStep ==
    ASSUME TypeInv, TaskInv, Next
    PROVE  queue' \in Seq(Tasks) /\ TaskInv'
<1> USE DEF Tasks, ClientTasks
<1>1. queue \in Seq(Tasks)
  BY DEF TypeInv
<1>2. ASSUME NEW t \in {"reset", "remove"}, queue' = Append(queue, t),
             UNCHANGED <<kind, pc, engaged>>
      PROVE  queue' \in Seq(Tasks) /\ TaskInv'
  <2>1. /\ queue' \in Seq(Tasks) /\ Len(queue') = Len(queue) + 1
        /\ queue'[Len(queue) + 1] = t /\ \A i \in 1..Len(queue) : queue'[i] = queue[i]
    BY <1>1, <1>2, AppendProperties
  <2>2. \A i \in DOMAIN queue' : queue'[i] \in ClientTasks =>
           i \in DOMAIN queue /\ queue'[i] = queue[i]
    BY <1>1, <1>2, <2>1
  <2> QED
    BY <1>2, <2>1, <2>2 DEF TaskInv, Closes
<1>3. ASSUME UNCHANGED <<queue, kind, pc, engaged>>
      PROVE  queue' \in Seq(Tasks) /\ TaskInv'
  BY <1>1, <1>3 DEF TaskInv, Closes
<1>4. CASE Call
  <2>1. \A i \in DOMAIN queue : queue[i] \notin ClientTasks
    BY <1>4 DEF Call, TaskInv
  <2>2. queue' = queue /\ (~Closes' => engaged' = FALSE)
    BY <1>4 DEF Call, sim, GrabFields, OpenFields, Closes
  <2> QED
    BY <1>1, <2>1, <2>2 DEF TaskInv
<1>5. CASE Run
  <2>1. \A i \in DOMAIN queue : queue[i] \notin ClientTasks
    BY <1>5 DEF Run, TaskInv
  <2>2. UNCHANGED <<kind, engaged>>
    BY <1>5 DEF Run, handle
  <2>3. CASE queue' = queue
    BY <1>1, <2>1, <2>2, <2>3 DEF TaskInv, Closes
  <2>4. CASE pc' = "wait" /\ queue' = Append(queue, Task)
    <3>1. Task \in ClientTasks /\ (Task = "open" => ~Closes)
      BY DEF Task
    <3>2. /\ queue' \in Seq(Tasks) /\ Len(queue') = Len(queue) + 1
          /\ queue'[Len(queue) + 1] = Task /\ \A i \in 1..Len(queue) : queue'[i] = queue[i]
      BY <1>1, <2>4, <3>1, AppendProperties
    <3>3. \A i \in DOMAIN queue' : queue'[i] \in ClientTasks =>
             i = Len(queue) + 1 /\ queue'[i] = Task
      BY <1>1, <2>1, <3>2
    <3> QED
      BY <2>2, <2>4, <3>1, <3>2, <3>3 DEF TaskInv, Closes
  <2> QED
    BY <1>5, <2>3, <2>4 DEF Run
<1>6. CASE TimesOut
  <2>1. PICK i \in DOMAIN queue : queue[i] \in ClientTasks /\ queue' = RemoveAt(queue, i)
    BY <1>1, <1>6 DEF TimesOut
  <2>2. /\ queue' \in Seq(Tasks)
        /\ \A k \in DOMAIN queue' : \E j \in DOMAIN queue : j # i /\ queue'[k] = queue[j]
    BY <1>1, <2>1, RemoveFacts
  <2>3. \A k \in DOMAIN queue' : queue'[k] \notin ClientTasks
    BY <2>1, <2>2 DEF TaskInv
  <2>4. UNCHANGED <<kind, engaged>>
    BY <1>6 DEF TimesOut, handle
  <2> QED
    BY <2>2, <2>3, <2>4 DEF TaskInv, Closes
<1>7. CASE Asks
  <2>1. \A i \in DOMAIN queue : queue[i] \notin ClientTasks
    BY <1>7 DEF Asks, TaskInv
  <2> QED
    BY <1>1, <1>7, <2>1 DEF Asks, TaskInv, Closes, sim, handle
<1>8. CASE RunTask
  <2>1. queue # <<>> /\ queue' = Tail(queue) /\ UNCHANGED <<kind, engaged>>
    BY <1>8 DEF RunTask, CloseTask, OpenTask, StatusTask, ResetTask, RemoveTask, handle
  <2>2. /\ queue' \in Seq(Tasks) /\ Len(queue') = Len(queue) - 1 /\ Len(queue) \in Nat \ {0}
        /\ \A i \in 1..(Len(queue) - 1) : queue'[i] = queue[i + 1]
    BY <1>1, <2>1, HeadTailProperties
  <2>3. \A i \in DOMAIN queue' : i + 1 \in DOMAIN queue /\ i + 1 # 1 /\ queue'[i] = queue[i + 1]
    BY <1>1, <2>2
  <2>4. CASE queue[1] \in ClientTasks
    <3>1. \A i \in DOMAIN queue' : queue'[i] \notin ClientTasks
      BY <1>1, <2>2, <2>3, <2>4 DEF TaskInv
    <3> QED
      BY <2>1, <2>2, <3>1 DEF TaskInv, Closes
  <2>5. CASE queue[1] \notin ClientTasks
    <3>1. pc' = pc
      BY <1>1, <1>8, <2>5 DEF RunTask, ResetTask, RemoveTask
    <3> QED
      BY <2>1, <2>2, <2>3, <3>1 DEF TaskInv, Closes
  <2> QED
    BY <2>4, <2>5
<1>9. CASE Close \/ Reset
  BY <1>2, <1>9 DEF Close, Reset, handle, client
<1>10. CASE PhysicsStep \/ Raises \/ Catches \/ GivesUp \/ Shears \/ Moves \/ Pulls \/ BecomesReady
  BY <1>3, <1>10 DEF PhysicsStep, Raises, Catches, GivesUp, Shears, Moves, Pulls, BecomesReady,
                     handle, sim, client
<1> QED
  BY <1>4, <1>5, <1>6, <1>7, <1>8, <1>9, <1>10 DEF Next

\* A load that is read goes onto the window and onto the record of the hold.
LEMMA WatchedFacts ==
    ASSUME TypeInv, WindowInv, Watched
    PROVE  /\ load \in Nat /\ held # NoBox
           /\ Push(samples, load) \in Seq(Nat) /\ Len(Push(samples, load)) <= Steps
           /\ own' = Push(own, load) /\ own' \in Seq(Nat) /\ Len(own') <= Steps
           /\ \/ EndsWith(own', Push(samples, load))
              \/ inherited /\ EndsWith(Push(samples, load), own')
           /\ Over(Push(samples, load)) => Over(own') \/ (inherited /\ Len(own') < Steps)
<1>1. load \in Nat /\ held # NoBox /\ own' = Push(own, load)
  BY DEF Watched, Readable, TypeInv
<1>2. Len(own) <= Steps /\ Len(samples) <= Steps
  BY DEF WindowInv
<1>3. /\ Push(samples, load) \in Seq(Nat) /\ Push(own, load) \in Seq(Nat)
      /\ Len(Push(own, load)) <= Steps /\ Len(Push(samples, load)) <= Steps
  BY <1>1, <1>2, PushFacts, VacuumAssumption DEF TypeInv
<1>4. CASE EndsWith(own, samples)
  <2>1. /\ EndsWith(Push(own, load), Push(samples, load))
        /\ Filled(Push(samples, load)) => Push(own, load) = Push(samples, load)
    BY <1>1, <1>2, <1>4, PushKeepsEnd DEF TypeInv
  <2> QED
    BY <1>1, <1>3, <2>1 DEF Over
<1>5. CASE inherited /\ EndsWith(samples, own)
  <2>1. /\ EndsWith(Push(samples, load), Push(own, load))
        /\ Filled(Push(own, load)) => Push(samples, load) = Push(own, load)
    BY <1>1, <1>2, <1>5, PushKeepsEnd DEF TypeInv
  <2>2. ~Filled(Push(own, load)) => Len(Push(own, load)) < Steps
    BY <1>3, VacuumAssumption DEF Filled
  <2> QED
    BY <1>1, <1>3, <1>5, <2>1, <2>2 DEF Over
<1> QED
  BY <1>4, <1>5 DEF WindowInv

\* An empty window ends every record.
LEMMA EmptyEnds == ASSUME NEW t \in Seq(Nat) PROVE EndsWith(t, <<>>)
BY DEF EndsWith

\* The window and the record.
LEMMA WindowStep ==
    ASSUME TypeInv, WindowInv, Next
    PROVE  samples' \in Seq(Nat) /\ own' \in Seq(Nat) /\ WindowInv'
<1>1. samples \in Seq(Nat) /\ own \in Seq(Nat)
  BY DEF TypeInv
<1>0. <<>> \in Seq(Nat) /\ Len(<<>>) = 0 /\ Steps \in Nat
  BY VacuumAssumption
<1>2. CASE UNCHANGED <<samples, own, inherited>>
  BY <1>1, <1>2 DEF WindowInv
<1>3. CASE Call
  <2>1. own' = <<>> /\ samples' = <<>>
    BY <1>3 DEF Call, GrabFields, OpenFields
  <2>2. EndsWith(own', samples')
    BY <1>0, <2>1, EmptyEnds
  <2>3. Len(own') <= Steps /\ Len(samples') <= Steps
    BY <1>0, <2>1
  <2> QED
    BY <1>0, <2>1, <2>2, <2>3 DEF WindowInv
<1>4. CASE Catches
  <2>1. own' = <<>> /\ samples' = samples /\ inherited' = (samples # <<>>)
    BY <1>4 DEF Catches, handle
  <2>2. EndsWith(samples', own')
    BY <1>1, <2>1, EmptyEnds
  <2>3. samples' = <<>> => EndsWith(own', samples')
    BY <1>0, <2>1, EmptyEnds
  <2>4. Len(own') <= Steps /\ Len(samples') <= Steps
    BY <1>0, <2>1 DEF WindowInv
  <2>5. inherited' \/ samples' = <<>>
    BY <2>1
  <2> QED
    BY <1>0, <1>1, <2>1, <2>2, <2>3, <2>4, <2>5 DEF WindowInv
<1>5. CASE PhysicsStep
  <2>1. inherited' = (inherited /\ samples' # <<>>)
    BY <1>5 DEF PhysicsStep
  <2>2. CASE UNCHANGED <<samples, own>>
    <3>1. samples = <<>> => EndsWith(own, samples)
      BY <1>1, EmptyEnds
    <3> QED
      BY <1>1, <2>1, <2>2, <3>1 DEF WindowInv
  <2>3. CASE Unwatched
    <3>1. samples' = <<>> /\ own' = own
      BY <2>3 DEF Unwatched
    <3> QED
      BY <1>0, <1>1, <3>1, EmptyEnds DEF WindowInv
  <2>4. CASE Watched
    <3>1. /\ Push(samples, load) \in Seq(Nat) /\ Len(Push(samples, load)) <= Steps
          /\ own' \in Seq(Nat) /\ Len(own') <= Steps
          /\ \/ EndsWith(own', Push(samples, load))
             \/ inherited /\ EndsWith(Push(samples, load), own')
      BY <2>4, WatchedFacts
    <3>2. CASE samples' = <<>>
      BY <1>0, <3>1, <3>2, EmptyEnds DEF WindowInv
    <3>3. CASE samples' # <<>> /\ samples' = Push(samples, load)
      BY <2>1, <3>1, <3>3 DEF WindowInv
    <3> QED
      BY <2>4, <3>2, <3>3 DEF Watched
  <2> QED
    BY <1>5, <2>2, <2>3, <2>4 DEF PhysicsStep
<1> QED
  BY <1>2, <1>3, <1>4, <1>5
     DEF Next, Run, TimesOut, Asks, Close, RunTask, CloseTask, OpenTask, StatusTask, ResetTask,
         RemoveTask, Raises, GivesUp, Shears, Moves, Pulls, BecomesReady, Reset, handle, history

\* The gripper, what it holds, and what the handle knows of that.
LEMMA HoldStep ==
    ASSUME TypeInv, HeldInv, TaskInv, OpenInv, RestInv, Next
    PROVE  {held', under'} \subseteq Boxes \cup {NoBox} /\ load' \in Nat \cup {NoLoad}
           /\ HeldInv' /\ OpenInv' /\ RestInv'
<1> USE DEF TypeInv, HeldInv, OpenInv, RestInv
<1>0. NoBox \notin Boxes
  BY VacuumAssumption
<1>1. CASE Call
  BY <1>1 DEF Call, GrabFields, OpenFields, plugin, world
<1>2. CASE Run \/ TimesOut \/ Asks \/ BecomesReady
  BY <1>2 DEF Run, TimesOut, Asks, BecomesReady, plugin, world, handle, history
<1>3. CASE Close \/ Reset
  BY <1>3 DEF Close, Reset, plugin, world, handle, history
<1>4. CASE RunTask
  <2>0. UNCHANGED load /\ queue # <<>>
    BY <1>4 DEF RunTask
  <2>1. CASE CloseTask
    BY <2>0, <2>1 DEF CloseTask, CloseGripper, RestBeforeClose
  <2>2. CASE OpenTask /\ Head(queue) = "open"
    <3>1. engaged = FALSE
      BY <2>0, <2>2 DEF TaskInv
    <3> QED
      BY <2>0, <2>2, <3>1 DEF OpenTask, handle
  <2>3. CASE StatusTask \/ RemoveTask
    BY <2>0, <2>3 DEF StatusTask, RemoveTask, plugin, handle, history
  <2>4. CASE ResetTask
    BY <2>0, <2>4 DEF ResetTask, PostReset, handle
  <2> QED
    BY <1>4, <2>1, <2>2, <2>3, <2>4 DEF RunTask
<1>5. CASE PhysicsStep
  <2>1. UNCHANGED <<engaged, rest, under, load, last, strayed>>
    BY <1>5 DEF PhysicsStep, world
  <2>2. CASE UNCHANGED <<status, held>>
    BY <2>1, <2>2
  <2>3. CASE status' = "Open" /\ held' = NoBox
    BY <2>1, <2>3
  <2> QED
    BY <1>5, <2>2, <2>3 DEF PhysicsStep, Unwatched, Watched, plugin
<1>6. CASE Raises
  BY <1>6 DEF Raises, plugin, world, history
<1>7. CASE Catches
  BY <1>7 DEF Catches, world, handle, history
<1>8. CASE GivesUp \/ Shears
  BY <1>8 DEF GivesUp, Shears, world, handle, history
<1>9. CASE Moves
  BY <1>9 DEF Moves, plugin, handle
<1>10. CASE Pulls
  BY <1>10, VacuumAssumption DEF Pulls, plugin, handle, history
<1> QED
  BY <1>1, <1>2, <1>3, <1>4, <1>5, <1>6, <1>7, <1>8, <1>9, <1>10 DEF Next

-----------------------------------------------------------------------------
\* Every step keeps the invariant.
LEMMA StepKeepsVacuumInv == VacuumInv /\ [Next]_vars => VacuumInv'
<1> SUFFICES ASSUME VacuumInv, [Next]_vars PROVE VacuumInv'
  OBVIOUS
<1>1. CASE Next
  BY <1>1, TaskStep, WindowStep, HoldStep DEF VacuumInv, TypeInv
<1>2. CASE UNCHANGED vars
  <2> USE <1>2 DEF vars, plugin, world, handle, sim, client, history
  <2>1. TypeInv' /\ HeldInv' /\ OpenInv' /\ RestInv'
    BY DEF VacuumInv, TypeInv, HeldInv, OpenInv, RestInv
  <2>2. TaskInv'
    BY DEF VacuumInv, TaskInv, Closes
  <2>3. WindowInv'
    BY DEF VacuumInv, WindowInv
  <2> QED
    BY <2>1, <2>2, <2>3 DEF VacuumInv
<1> QED
  BY <1>1, <1>2

\* The invariant holds of every run of the gripper.
LEMMA SpecVacuumInv == Spec => []VacuumInv
BY InitVacuumInv, StepKeepsVacuumInv, PTL DEF Spec

\* After an open that came through nothing is held, and what is held after a grab
\* is measured from where the face of that box was at rest.
THEOREM HoldsAreAccountedFor == Spec => []HoldIsAccountedFor
<1>1. VacuumInv => HoldIsAccountedFor
  BY DEF VacuumInv, OpenInv, RestInv, HoldIsAccountedFor, OpenedHoldsNothing, RestIsOfTheHold
<1> QED
  BY <1>1, SpecVacuumInv, PTL

\* The monitor opens the gripper for loads of the present hold, over a whole window
\* since the last command, unless the window still had loads from before the hold
\* and its own have not filled it yet.
THEOREM ReleasesAreOwn == Spec => ReleasedForItsOwnLoad
<1>1. ASSUME VacuumInv, [Next]_vars, released' \notin {released, NoLoad}
      PROVE  held # NoBox /\ (Over(own') \/ (inherited /\ Len(own') < Steps))
  <2>1. Watched /\ Over(Push(samples, load))
    BY <1>1
       DEF Next, Call, GrabFields, OpenFields, Run, TimesOut, Asks, Close, RunTask, CloseTask,
           OpenTask, StatusTask, ResetTask, RemoveTask, PhysicsStep, Unwatched, Watched, Raises,
           Catches, GivesUp, Shears, Moves, Pulls, BecomesReady, Reset, handle, vars
  <2> QED
    BY <1>1, <2>1, WatchedFacts DEF VacuumInv
<1> QED
  BY <1>1, SpecVacuumInv, PTL DEF Spec, ReleasedForItsOwnLoad
=============================================================================
