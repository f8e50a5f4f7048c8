-------------------------- MODULE PalletizerProofs --------------------------
(***************************************************************************)
(* Safety of Palletizer, for any number of boxes, attempts and teleports:  *)
(* what the sequencer was told stays true, a stop ends the motion, every   *)
(* run starts fit, a bounded one ends at its bound, and a seq is skipped   *)
(* after as many failed attempts as its run makes (AttemptsInv).           *)
(*                                                                         *)
(* The thread of the argument is the cursor.  Between its question and its *)
(* report a run works at the seq of the cursor, which nobody else moves    *)
(* (SeqInv), so it never touches a box that was told before.               *)
(***************************************************************************)
EXTENDS Palletizer, FiniteSetTheorems, SequenceTheorems, TLAPS

\* From the question on, and until the report.
AtWork == Legs \cup {"restage", "settle", "grab", "grabbed", "swing", "release", "released",
                     "publish", "report"}
\* Past the reading of the pose of the box.
Moving == AtWork \ {"restage", "settle", "report"}
\* From the record of an attempt on.
Booked == {"report", "reported", "skip", "skipped"}

Records == [seq : Seqs, outcome : Outcomes]

TypeInv ==
    /\ pc \in Pcs
    /\ records \in Seq(Records)
    /\ cursor \in Nat \ {0} /\ stopAfter \in Nat
    /\ told \subseteq Seqs
    /\ at \in [Seqs -> Places]

SeqInv ==
    /\ pc \in AtWork => seq = cursor
    /\ pc \in AtWork \cup Booked => seq \in Seqs
    /\ pc \in Booked => records # <<>> /\ Last(records).seq = seq
    /\ \A b \in told : b < cursor

\* The first question of a run finds an open gripper with nothing on it.
CupInv == pc = "ask" /\ records = <<>> => OnCup = {} /\ closing = FALSE

\* Box 1 tells where the infeed is before it is moved, and a run that has asked
\* for the infeed in vain is past box 1 for good.
InfeedInv ==
    /\ pc \in Moving /\ seq = 1 => infeed = TRUE
    /\ pc = "report" /\ Success /\ seq = 1 => infeed = TRUE
    /\ 1 \in told => infeed = TRUE
    /\ \A i \in DOMAIN records : records[i].outcome = "no_infeed" => cursor > 1 /\ 1 \notin told

\* A record at or past the bound is the last one, and the run goes no further.
BoundInv == stopAfter # 0 =>
    \A i \in DOMAIN records : records[i].seq >= stopAfter =>
        i = Len(records) /\ pc \in Booked \cup {"off"}

PackInv == TypeInv /\ SeqInv /\ CupInv /\ InfeedInv /\ BoundInv

-----------------------------------------------------------------------------
\* The invariant holds at first.
LEMMA InitPackInv == Init => PackInv
<1> SUFFICES ASSUME Init PROVE PackInv
  OBVIOUS
<1> USE PalletizerAssumption
<1>1. at \in [Seqs -> Places]
  BY DEF Init, Places
<1>2. TypeInv
  BY <1>1 DEF Init, TypeInv, Pcs, Seqs
<1> QED
  BY <1>2 DEF Init, PackInv, SeqInv, CupInv, InfeedInv, BoundInv, AtWork, Moving, Booked, Legs

\* One more record.
LEMMA AppendFacts ==
    ASSUME TypeInv, NEW r \in Records, records' = Append(records, r)
    PROVE  /\ records' \in Seq(Records) /\ records' # <<>> /\ Last(records') = r
           /\ Len(records') = Len(records) + 1 /\ Len(records) \in Nat
           /\ DOMAIN records = 1..Len(records) /\ DOMAIN records' = 1..(Len(records) + 1)
           /\ records'[Len(records) + 1] = r
           /\ \A i \in 1..Len(records) : records'[i] = records[i]
BY AppendProperties DEF TypeInv, Last

\* What is on the cup falls.
LEMMA LetGoFacts ==
    ASSUME at \in [Seqs -> Places], NEW where \in {"slot", "loose"}, LetGo(where)
    PROVE  /\ at' \in [Seqs -> Places] /\ OnCup' = {} /\ closing' = FALSE
           /\ \A b \in Seqs : at[b] # "cup" => at'[b] = at[b]
BY DEF LetGo, OnCup, Places

-----------------------------------------------------------------------------
(***************************************************************************)
(* The work at one seq.                                                    *)
(***************************************************************************)
\* An await at work goes on to another, without a record.
Continues ==
    /\ records' = records
    /\ pc' \in (AtWork \ {"report"}) \cup {"off"}
    /\ pc' \in Moving => pc \in Moving \cup {"settle"}

\* Or the attempt is over, with one.
Concludes == \E outcome \in Outcomes \ {"no_infeed"} :
    /\ records' = Append(records, Record(seq, outcome))
    /\ pc' \in {"report", "off"}
    /\ outcome = "placed" => pc \in Moving
    /\ outcome = "stopped" => pc' = "off"

Working ==
    /\ pc \in AtWork \ {"report"}
    /\ UNCHANGED <<seq, tracked, failures, cursor, told, stopAfter>>
    /\ infeed = TRUE => infeed' = TRUE
    /\ pc = "settle" /\ seq = 1 /\ pc' \in Moving => infeed' = TRUE
    /\ Continues \/ Concludes

\* The awaits between the question and the record.
Works ==
    \/ RestageLands \/ RestageMisses \/ Settled \/ NoGeometry
    \/ LegArrives \/ Replans \/ RetreatRefused
    \/ Grab \/ Grabbed \/ SwingStops \/ Release \/ Retreats \/ Publishes

\* All of them are of that form.
LEMMA WorkIsOrdered ==
    ASSUME TypeInv, Works
    PROVE  Working
<1> USE DEF Working, AtWork, Moving, Legs, sequencerVars, attemptVars
<1>1. ASSUME NEW leg \in Legs, BeginLeg(leg), pc \in Moving \cup {"settle"}
      PROVE  Continues \/ Concludes
  <2>1. CASE cancel
    BY <1>1, <2>1 DEF BeginLeg, Break, RunReturns, Concludes, Outcomes
  <2>2. CASE ~cancel
    BY <1>1, <2>2 DEF BeginLeg, GoOn, Continues
  <2> QED
    BY <2>1, <2>2
<1>2. ASSUME NEW leg \in Legs, BeginRetreat(leg), pc \in Moving
      PROVE  Continues
  BY <1>2 DEF BeginRetreat, GoOn, Continues
<1>3. CASE RestageLands
  BY <1>3 DEF RestageLands, GoOn, Continues
<1>4. CASE RestageMisses
  BY <1>4 DEF RestageMisses, GoOn, Book, Continues, Concludes, Outcomes
<1>5. CASE Settled
  BY <1>1, <1>5 DEF Settled
<1>6. CASE NoGeometry
  BY <1>6 DEF NoGeometry, Book, GoOn, Concludes, Outcomes
<1>7. CASE LegArrives
  <2>1. pc \in Legs /\ UNCHANGED <<seq, cursor, told, stopAfter, infeed>>
    BY <1>7 DEF LegArrives
  <2>2. CASE pc \in {"approach", "lift", "over"}
    BY <1>1, <1>7, <2>1, <2>2 DEF LegArrives
  <2>3. CASE pc \in {"descent", "lower"} /\ cancel
    BY <1>7, <2>1, <2>3 DEF LegArrives, Break, RunReturns, Concludes, Outcomes
  <2>4. CASE pc \in {"descent", "lower"} /\ ~cancel
    BY <1>7, <2>1, <2>4 DEF LegArrives, GoOn, Continues
  <2>5. CASE pc \in {"carry", "retreat", "clear"}
    BY <1>7, <2>1, <2>5 DEF LegArrives, GoOn, Continues
  <2> QED
    BY <2>1, <2>2, <2>3, <2>4, <2>5
<1>8. CASE Replans
  <2>1. pc \in Legs /\ UNCHANGED <<seq, cursor, told, stopAfter, infeed>>
    BY <1>8 DEF Replans
  <2>2. CASE cancel /\ pc \notin {"retreat", "clear"}
    BY <1>8, <2>1, <2>2 DEF Replans, Break, RunReturns, Concludes, Outcomes
  <2>3. CASE ~cancel \/ pc \in {"retreat", "clear"}
    BY <1>8, <2>1, <2>3 DEF Replans, GoOn, Continues
  <2> QED
    BY <2>1, <2>2, <2>3
<1>9. CASE RetreatRefused \/ Retreats
  BY <1>2, <1>9 DEF RetreatRefused, Retreats
<1>10. CASE Grab \/ Release
  BY <1>10 DEF Grab, Release, GoOn, Continues
<1>11. CASE Grabbed
  <2>1. CASE OnCup # {}
    BY <1>1, <1>11, <2>1 DEF Grabbed
  <2>2. CASE OnCup = {}
    BY <1>11, <2>2 DEF Grabbed, Book, GoOn, Concludes, Outcomes
  <2> QED
    BY <2>1, <2>2
<1>12. CASE SwingStops
  BY <1>1, <1>12 DEF SwingStops
<1>13. CASE Publishes
  BY <1>13 DEF Publishes, Book, GoOn, Concludes, Outcomes
<1> QED
  BY <1>3, <1>4, <1>5, <1>6, <1>7, <1>8, <1>9, <1>10, <1>11, <1>12, <1>13 DEF Works

\* Work leaves the invariant alone.
LEMMA WorkKeepsPackInv ==
    ASSUME PackInv, Working, at' \in [Seqs -> Places]
    PROVE  PackInv'
<1> USE DEF AtWork, Moving, Booked, Legs
<1>1. /\ pc \in AtWork \ {"report"} /\ seq \in Seqs /\ seq = cursor
      /\ UNCHANGED <<seq, cursor, told, stopAfter>> /\ pc' \in AtWork \cup {"off"}
  BY DEF Working, Continues, Concludes, PackInv, SeqInv
<1>2. stopAfter # 0 => \A i \in DOMAIN records : ~(records[i].seq >= stopAfter)
  BY <1>1 DEF PackInv, BoundInv
<1>3. CASE Continues
  <2>1. TypeInv'
    BY <1>1, <1>3 DEF PackInv, TypeInv, Pcs, Continues
  <2>2. SeqInv'
    BY <1>1, <1>3 DEF PackInv, SeqInv, Continues
  <2>3. CupInv'
    BY <1>1 DEF CupInv
  <2>4. InfeedInv'
    BY <1>1, <1>3 DEF PackInv, InfeedInv, Working, Continues
  <2>5. BoundInv'
    BY <1>1, <1>2, <1>3 DEF BoundInv, Continues
  <2> QED
    BY <2>1, <2>2, <2>3, <2>4, <2>5 DEF PackInv
<1>4. CASE Concludes
  <2>1. PICK outcome \in Outcomes \ {"no_infeed"} :
          /\ records' = Append(records, Record(seq, outcome))
          /\ pc' \in {"report", "off"}
          /\ outcome = "placed" => pc \in Moving
    BY <1>4 DEF Concludes
  <2>2. /\ Record(seq, outcome) \in Records
        /\ Record(seq, outcome).seq = seq /\ Record(seq, outcome).outcome = outcome
    BY <1>1 DEF Record, Records
  <2>3. /\ records' \in Seq(Records) /\ records' # <<>>
        /\ Last(records') = Record(seq, outcome)
        /\ Len(records') = Len(records) + 1 /\ Len(records) \in Nat
        /\ DOMAIN records = 1..Len(records) /\ DOMAIN records' = 1..(Len(records) + 1)
        /\ records'[Len(records) + 1] = Record(seq, outcome)
        /\ \A i \in 1..Len(records) : records'[i] = records[i]
    BY <2>1, <2>2, AppendFacts DEF PackInv
  <2>4. TypeInv'
    BY <1>1, <2>1, <2>3 DEF PackInv, TypeInv, Pcs
  <2>5. SeqInv'
    BY <1>1, <2>1, <2>2, <2>3 DEF PackInv, SeqInv
  <2>6. CupInv'
    BY <2>1 DEF CupInv
  <2>7. InfeedInv'
    <3>1. pc' = "report" /\ Success' /\ seq' = 1 => infeed' = TRUE
      BY <1>1, <2>1, <2>2, <2>3 DEF PackInv, InfeedInv, Working, Success
    <3>2. \A i \in DOMAIN records' : records'[i].outcome = "no_infeed" =>
             cursor' > 1 /\ 1 \notin told'
      BY <1>1, <2>1, <2>2, <2>3 DEF PackInv, InfeedInv
    <3>3. 1 \in told' => infeed' = TRUE
      BY <1>1 DEF PackInv, InfeedInv, Working
    <3> QED
      BY <2>1, <3>1, <3>2, <3>3 DEF InfeedInv
  <2>8. BoundInv'
    BY <1>1, <1>2, <2>1, <2>3 DEF BoundInv
  <2> QED
    BY <2>4, <2>5, <2>6, <2>7, <2>8 DEF PackInv
<1> QED
  BY <1>3, <1>4 DEF Working

-----------------------------------------------------------------------------
(***************************************************************************)
(* The other actions.                                                      *)
(***************************************************************************)
\* A run starts with no records, and with a question to nobody yet.
LEMMA StartKeepsPackInv ==
    ASSUME PackInv, NEW bound \in 0..Boxes, Start(bound)
    PROVE  PackInv'
<1> USE PalletizerAssumption
<1>1. /\ pc' = "open" /\ records' = <<>> /\ stopAfter' \in Nat
      /\ UNCHANGED <<infeed, cursor, told, at>>
  BY DEF Start, sequencerVars, cellVars
<1>2. TypeInv'
  BY <1>1 DEF PackInv, TypeInv, Pcs
<1> QED
  BY <1>1, <1>2 DEF PackInv, SeqInv, CupInv, InfeedInv, BoundInv, AtWork, Moving, Booked, Legs

\* An await raises, or a stop comes in.
LEMMA BreakKeepsPackInv ==
    ASSUME PackInv, Stop \/ Raise
    PROVE  PackInv'
<1>1. /\ UNCHANGED <<records, infeed, stopAfter, seq, cursor, told, at, closing>>
      /\ pc' = pc \/ pc' = "off"
  BY DEF Stop, Raise, attemptVars, sequencerVars, cellVars
<1>2. TypeInv'
  BY <1>1 DEF PackInv, TypeInv, Pcs
<1>3. CASE pc' = pc
  BY <1>1, <1>2, <1>3
     DEF PackInv, SeqInv, CupInv, InfeedInv, BoundInv, OnCup, Success
<1>4. CASE pc' = "off"
  BY <1>1, <1>2, <1>4
     DEF PackInv, SeqInv, CupInv, InfeedInv, BoundInv, AtWork, Moving, Booked, Legs
<1> QED
  BY <1>1, <1>3, <1>4

\* The cup is opened before the first question.
LEMMA OpensKeepsPackInv ==
    ASSUME PackInv, OpensFirst
    PROVE  PackInv'
<1>1. /\ UNCHANGED <<records, infeed, stopAfter, seq, cursor, told>>
      /\ pc = "open" /\ pc' \in {"off", "ask"}
  BY DEF OpensFirst, RunReturns, GoOn, attemptVars, sequencerVars
<1>2. at' \in [Seqs -> Places] /\ OnCup' = {} /\ closing' = FALSE
  BY LetGoFacts DEF OpensFirst, PackInv, TypeInv
<1>3. TypeInv'
  BY <1>1, <1>2 DEF PackInv, TypeInv, Pcs
<1> QED
  BY <1>1, <1>2, <1>3
     DEF PackInv, SeqInv, CupInv, InfeedInv, BoundInv, AtWork, Moving, Booked, Legs

\* The sequencer names the seq of its cursor; one past the first finds the infeed
\* unknown only in a run that has not placed box 1 yet.
LEMMA AskKeepsPackInv ==
    ASSUME PackInv, AskIsComplete \/ Ask
    PROVE  PackInv'
<1> USE DEF AtWork, Moving, Booked, Legs
<1>1. /\ UNCHANGED <<infeed, stopAfter, cursor, told, at>> /\ pc = "ask"
  BY DEF AskIsComplete, Ask, sequencerVars, cellVars
<1>2. stopAfter # 0 => \A i \in DOMAIN records : ~(records[i].seq >= stopAfter)
  BY <1>1 DEF PackInv, BoundInv
<1>3. CASE /\ records' = records
           /\ pc' = "off" \/ (pc' \in {"restage", "settle"} /\ seq' = cursor /\ seq' \in Seqs)
  <2>1. TypeInv'
    BY <1>1, <1>3 DEF PackInv, TypeInv, Pcs
  <2>2. SeqInv' /\ CupInv' /\ InfeedInv'
    BY <1>1, <1>3 DEF PackInv, SeqInv, CupInv, InfeedInv
  <2>3. BoundInv'
    BY <1>1, <1>2, <1>3 DEF BoundInv
  <2> QED
    BY <2>1, <2>2, <2>3 DEF PackInv
<1>4. ASSUME NEW outcome \in {"stopped", "no_infeed"},
             records' = Append(records, Record(cursor, outcome)),
             pc' = IF outcome = "stopped" THEN "off" ELSE "report",
             outcome = "no_infeed" => cursor > 1 /\ infeed # TRUE,
             seq' = cursor, cursor \in Seqs
      PROVE  PackInv'
  <2>1. /\ Record(cursor, outcome) \in Records
        /\ Record(cursor, outcome).seq = cursor /\ Record(cursor, outcome).outcome = outcome
    BY <1>4 DEF Record, Records, Outcomes
  <2>2. /\ records' \in Seq(Records) /\ records' # <<>>
        /\ Last(records') = Record(cursor, outcome)
        /\ Len(records') = Len(records) + 1 /\ Len(records) \in Nat
        /\ DOMAIN records = 1..Len(records) /\ DOMAIN records' = 1..(Len(records) + 1)
        /\ records'[Len(records) + 1] = Record(cursor, outcome)
        /\ \A i \in 1..Len(records) : records'[i] = records[i]
    BY <1>4, <2>1, AppendFacts DEF PackInv
  <2>3. TypeInv'
    BY <1>1, <1>4, <2>2 DEF PackInv, TypeInv, Pcs
  <2>4. SeqInv' /\ CupInv'
    BY <1>1, <1>4, <2>1, <2>2 DEF PackInv, SeqInv, CupInv
  <2>5. InfeedInv'
    <3>1. ~Success' /\ pc' \notin Moving
      BY <1>4, <2>1, <2>2 DEF Success
    <3>2. \A i \in DOMAIN records' : records'[i].outcome = "no_infeed" =>
             cursor' > 1 /\ 1 \notin told'
      <4>1. outcome = "no_infeed" => cursor > 1 /\ 1 \notin told
        BY <1>4 DEF PackInv, InfeedInv
      <4>2. \A i \in DOMAIN records : records[i].outcome = "no_infeed" =>
               cursor > 1 /\ 1 \notin told
        BY DEF PackInv, InfeedInv
      <4> QED
        BY <1>1, <2>1, <2>2, <4>1, <4>2
    <3> QED
      BY <1>1, <3>1, <3>2 DEF PackInv, InfeedInv
  <2>6. BoundInv'
    BY <1>1, <1>2, <1>4, <2>2 DEF BoundInv
  <2> QED
    BY <2>3, <2>4, <2>5, <2>6 DEF PackInv
<1>5. CASE AskIsComplete
  BY <1>3, <1>5 DEF AskIsComplete, RunReturns
<1>6. CASE Ask
  <2>1. seq' = cursor /\ cursor \in Seqs
    BY <1>6 DEF Ask, PackInv, TypeInv, Seqs, PalletizerAssumption
  <2>2. CASE cancel
    BY <1>4, <1>6, <2>1, <2>2 DEF Ask, Break, RunReturns
  <2>3. CASE ~cancel /\ cursor > 1 /\ ~infeed
    BY <1>4, <1>6, <2>1, <2>3 DEF Ask, Book, GoOn
  <2>4. CASE ~cancel /\ ~(cursor > 1 /\ ~infeed)
    BY <1>3, <1>6, <2>1, <2>4 DEF Ask, GoOn
  <2> QED
    BY <2>2, <2>3, <2>4
<1> QED
  BY <1>5, <1>6

\* A report or a skip moves the cursor past the seq it is about, and a run that
\* asks again has not come to its bound.
LEMMA ReportKeepsPackInv ==
    ASSUME PackInv, Reports \/ ReportReturns \/ Skips \/ SkipReturns
    PROVE  PackInv'
<1> USE DEF AtWork, Moving, Booked, Legs
<1>1. /\ UNCHANGED <<records, infeed, stopAfter, seq, at, closing>>
      /\ pc \in Booked /\ seq \in Seqs /\ records # <<>> /\ Last(records).seq = seq
  BY DEF PackInv, SeqInv, Reports, ReportReturns, Skips, SkipReturns, attemptVars, cellVars
<1>2. CASE Reports
  <2>1. pc = "report" /\ pc' = "reported" /\ seq = cursor
    BY <1>2 DEF Reports, GoOn, PackInv, SeqInv
  <2>2. \/ Success /\ cursor' = cursor + 1 /\ told' = told \cup {seq}
        \/ UNCHANGED <<cursor, told>>
    BY <1>2 DEF Reports
  <2> HIDE DEF AtWork, Moving
  <2>3. TypeInv'
    <3>1. cursor' \in Nat \ {0} /\ told' \subseteq Seqs
      BY <1>1, <2>2 DEF PackInv, TypeInv
    <3>2. pc' \in Pcs
      BY <2>1 DEF Pcs
    <3> QED
      BY <1>1, <3>1, <3>2 DEF PackInv, TypeInv
  <2>4. SeqInv' /\ CupInv'
    <3>1. \A b \in told' : b < cursor'
      <4>1. told \subseteq Int /\ cursor \in Int /\ \A b \in told : b < cursor
        BY PalletizerAssumption DEF PackInv, TypeInv, SeqInv, Seqs
      <4>2. CASE Success /\ cursor' = cursor + 1 /\ told' = told \cup {seq}
        <5>1. \A b \in told : b < cursor + 1
          BY <4>1
        <5>2. cursor < cursor + 1
          BY <4>1
        <5> QED
          BY <2>1, <4>2, <5>1, <5>2
      <4>3. CASE UNCHANGED <<cursor, told>>
        BY <4>1, <4>3
      <4> QED
        BY <2>2, <4>2, <4>3
    <3> QED
      BY <1>1, <2>1, <3>1 DEF SeqInv, CupInv, AtWork, Booked
  <2>5. InfeedInv'
    <3>1. 1 \in told' => infeed' = TRUE
      BY <1>1, <2>1, <2>2 DEF PackInv, InfeedInv
    <3>2. \A i \in DOMAIN records' : records'[i].outcome = "no_infeed" =>
             cursor' > 1 /\ 1 \notin told'
      BY <1>1, <2>1, <2>2 DEF PackInv, TypeInv, InfeedInv
    <3>3. pc' \notin Moving /\ pc' # "report"
      BY <2>1 DEF Moving, AtWork, Legs
    <3> QED
      BY <3>1, <3>2, <3>3 DEF InfeedInv
  <2>6. BoundInv'
    BY <1>1, <2>1 DEF PackInv, BoundInv
  <2> QED
    BY <2>3, <2>4, <2>5, <2>6 DEF PackInv
<1>3. CASE Skips
  <2>1. pc = "skip" /\ pc' = "skipped" /\ cursor' = cursor + 1 /\ told' = told
    BY <1>3 DEF Skips, GoOn
  <2>2. TypeInv'
    BY <1>1, <2>1 DEF PackInv, TypeInv, Pcs
  <2>3. SeqInv' /\ CupInv' /\ InfeedInv' /\ BoundInv'
    BY <1>1, <2>1 DEF PackInv, TypeInv, SeqInv, CupInv, InfeedInv, BoundInv
  <2> QED
    BY <2>2, <2>3 DEF PackInv
<1>4. CASE ReportReturns \/ SkipReturns
  <2>1. /\ UNCHANGED <<cursor, told>> /\ pc' \in {"off", "ask", "skip"}
        /\ pc' = "ask" => ~(stopAfter # 0 /\ seq >= stopAfter)
    BY <1>4 DEF ReportReturns, SkipReturns, AfterReport, RunReturns, GoOn, sequencerVars
  <2>2. TypeInv'
    BY <1>1, <2>1 DEF PackInv, TypeInv, Pcs
  <2>3. SeqInv' /\ CupInv' /\ InfeedInv'
    BY <1>1, <2>1 DEF PackInv, SeqInv, CupInv, InfeedInv
  <2>4. BoundInv'
    BY <1>1, <2>1 DEF PackInv, BoundInv, Last
  <2> QED
    BY <2>2, <2>3, <2>4 DEF PackInv
<1> QED
  BY <1>2, <1>3, <1>4

\* A box takes hold late, or falls off the cup.
LEMMA CellKeepsPackInv ==
    ASSUME PackInv, TakesHoldLate \/ BoxDrops
    PROVE  PackInv'
<1>1. UNCHANGED <<records, infeed, stopAfter, pc, seq, cursor, told>>
  BY DEF TakesHoldLate, BoxDrops, serviceVars, attemptVars, sequencerVars
<1>2. at' \in [Seqs -> Places]
  BY LetGoFacts DEF TakesHoldLate, BoxDrops, PackInv, TypeInv, Places
<1>3. TypeInv'
  BY <1>1, <1>2 DEF PackInv, TypeInv
<1>4. CupInv'
  BY <1>1 DEF PackInv, CupInv, TakesHoldLate, BoxDrops, Legs
<1> QED
  BY <1>1, <1>3, <1>4 DEF PackInv, SeqInv, InfeedInv, BoundInv, Success

-----------------------------------------------------------------------------
(***************************************************************************)
(* Where the boxes are.                                                    *)
(***************************************************************************)
\* A run at work moves the box of its seq, one on the station or one on the cup:
\* never one that was told and stands on its slot.
LEMMA WorkKeepsTold ==
    ASSUME PackInv, Works
    PROVE  /\ at' \in [Seqs -> Places]
           /\ \A b \in told : at[b] = "slot" => at'[b] = "slot"
<1> USE DEF Places
<1>1. at \in [Seqs -> Places] /\ told \subseteq Seqs
  BY DEF PackInv, TypeInv
<1>2. pc \in {"restage", "grab"} => seq \notin told
  <2> SUFFICES ASSUME pc \in {"restage", "grab"}, seq \in told PROVE FALSE
    OBVIOUS
  <2>1. seq < seq /\ seq \in Seqs
    BY DEF PackInv, SeqInv, AtWork
  <2> QED
    BY <2>1, PalletizerAssumption DEF Seqs
<1>3. CASE RestageLands \/ RestageMisses
  BY <1>1, <1>2, <1>3 DEF RestageLands, RestageMisses
<1>4. CASE Grab
  BY <1>1, <1>2, <1>4 DEF Grab
<1>5. CASE Release
  BY <1>1, <1>5, LetGoFacts DEF Release
<1>6. CASE UNCHANGED at
  BY <1>1, <1>6
<1> QED
  BY <1>3, <1>4, <1>5, <1>6
     DEF Works, Settled, NoGeometry, LegArrives, Replans, RetreatRefused, Grabbed, SwingStops,
         Retreats, Publishes, cellVars

\* No step at all moves one.
LEMMA StepKeepsTold ==
    ASSUME PackInv, [Next]_vars
    PROVE  \A b \in told : at[b] = "slot" => at'[b] = "slot"
<1>1. at \in [Seqs -> Places] /\ told \subseteq Seqs
  BY DEF PackInv, TypeInv
<1>2. CASE Works
  BY <1>2, WorkKeepsTold
<1>3. CASE OpensFirst \/ BoxDrops
  BY <1>1, <1>3, LetGoFacts DEF OpensFirst, BoxDrops
<1>4. CASE TakesHoldLate
  BY <1>1, <1>4 DEF TakesHoldLate
<1>5. CASE UNCHANGED at
  BY <1>5
<1> QED
  BY <1>2, <1>3, <1>4, <1>5
     DEF Next, Run, Works, Start, Stop, Raise, AskIsComplete, Ask, Reports, ReportReturns, Skips,
         SkipReturns, cellVars, vars

-----------------------------------------------------------------------------
(***************************************************************************)
(* How often a seq is tried.  From its first question on, a run has        *)
(* recorded failures attempts at the seq it tracks, and one more between a *)
(* record and the return of its report; none at a seq past it.             *)
(***************************************************************************)
FailedOutcomes == {"failed", "no_infeed"}

\* The attempts that are recorded and not in failures yet.
Pending == IF pc \in {"report", "reported"} THEN 1 ELSE 0

\* The run asks, and is going to be told another seq than the last one.
MovesOn == pc = "ask" /\ cursor # tracked

\* The count of failures is that of the seq the run tracks.
CountInv ==
    pc \notin {"off", "open"} /\ ~MovesOn =>
        /\ Cardinality(Attempts(tracked)) = failures + Pending
        /\ \A i \in Attempts(tracked) :
              records[i].outcome \in FailedOutcomes \/ (Pending = 1 /\ i = Len(records))

\* Where the count, the seq and the cursor stand.
TrackInv ==
    /\ failures \in Nat
    /\ pc # "off" =>
         /\ tracked \in 0..cursor
         /\ \A i \in DOMAIN records : records[i].seq <= tracked
         /\ pc \in {"skip", "skipped"} \/ MovesOn \/ failures < MaxAttempts
    /\ pc = "open" => records = <<>> /\ tracked = 0
    /\ pc \in AtWork \cup Booked => tracked = seq
    /\ pc \in {"report", "reported"} => Last(records).outcome # "stopped"
    /\ pc = "reported" => cursor = IF Success THEN seq + 1 ELSE seq
    /\ pc = "skip" => cursor = seq /\ failures = MaxAttempts
    /\ pc = "skipped" => cursor = seq + 1

AttemptsInv ==
    /\ CountInv /\ TrackInv
    /\ \A s \in Seqs : Cardinality(Attempts(s)) <= MaxAttempts

\* The attempts at a seq are as many as a number says.
LEMMA AttemptsAreFinite ==
    ASSUME TypeInv, NEW s
    PROVE  /\ IsFiniteSet(Attempts(s)) /\ Cardinality(Attempts(s)) \in Nat
           /\ Attempts(s) \subseteq 1..Len(records)
<1>1. Len(records) \in Nat /\ DOMAIN records = 1..Len(records)
  BY DEF TypeInv
<1>2. Attempts(s) \subseteq 1..Len(records)
  BY <1>1 DEF Attempts
<1>3. IsFiniteSet(1..Len(records))
  BY <1>1, FS_Interval
<1> QED
  BY <1>2, <1>3, FS_Subset, FS_CardinalityType

\* One more record is one more attempt at its seq, and at no other.
LEMMA OneMoreAttempt ==
    ASSUME TypeInv, NEW r \in Records, records' = Append(records, r)
    PROVE  /\ Attempts(r.seq)' = Attempts(r.seq) \cup {Len(records')}
           /\ Cardinality(Attempts(r.seq)') = Cardinality(Attempts(r.seq)) + 1
           /\ \A s : s # r.seq => Attempts(s)' = Attempts(s)
<1>1. /\ Len(records') = Len(records) + 1 /\ Len(records) \in Nat
      /\ DOMAIN records = 1..Len(records) /\ DOMAIN records' = 1..(Len(records) + 1)
      /\ records'[Len(records) + 1] = r
      /\ \A i \in 1..Len(records) : records'[i] = records[i]
  BY AppendFacts
<1>2. Attempts(r.seq)' = Attempts(r.seq) \cup {Len(records')}
  BY <1>1 DEF Attempts
<1>3. \A s : s # r.seq => Attempts(s)' = Attempts(s)
  BY <1>1 DEF Attempts
<1>4. IsFiniteSet(Attempts(r.seq)) /\ Len(records') \notin Attempts(r.seq)
  BY <1>1, AttemptsAreFinite
<1> QED
  BY <1>2, <1>3, <1>4, FS_AddElement

\* It holds at first.
LEMMA InitAttemptsInv == Init => AttemptsInv
<1> SUFFICES ASSUME Init PROVE AttemptsInv
  OBVIOUS
<1>1. \A s \in Seqs : Attempts(s) = {}
  BY DEF Init, Attempts
<1>2. Cardinality({}) = 0 /\ MaxAttempts >= 0
  BY FS_EmptySet, PalletizerAssumption
<1>3. \A s \in Seqs : Cardinality(Attempts(s)) <= MaxAttempts
  BY <1>1, <1>2
<1>4. CountInv /\ TrackInv
  BY DEF Init, CountInv, TrackInv, AtWork, Booked, Legs
<1> QED
  BY <1>3, <1>4 DEF AttemptsInv

\* A step that records and counts nothing, and stays where it is, goes on with the
\* work or ends the run, leaves it alone.
LEMMA IdleKeepsAttemptsInv ==
    ASSUME PackInv, AttemptsInv, UNCHANGED <<records, failures, tracked, seq, cursor>>,
           \/ pc' \in {pc, "off"}
           \/ pc \in AtWork \ {"report"} /\ pc' \in AtWork \ {"report"}
           \/ pc = "open" /\ pc' = "ask"
    PROVE  AttemptsInv'
<1> USE DEF AtWork, Booked, Legs
<1>1. \A s : Attempts(s)' = Attempts(s)
  BY DEF Attempts
<1>2. CASE pc' = pc
  BY <1>1, <1>2 DEF AttemptsInv, CountInv, TrackInv, Pending, MovesOn, Success
<1>3. CASE pc' = "off"
  BY <1>1, <1>3 DEF AttemptsInv, CountInv, TrackInv
<1>4. CASE pc \in AtWork \ {"report"} /\ pc' \in AtWork \ {"report"}
  <2>1. Pending = 0 /\ Pending' = 0 /\ ~MovesOn /\ ~MovesOn'
    BY <1>4 DEF Pending, MovesOn
  <2>2. CountInv'
    BY <1>1, <1>4, <2>1 DEF AttemptsInv, CountInv
  <2>3. TrackInv'
    BY <1>4, <2>1 DEF AttemptsInv, TrackInv
  <2> QED
    BY <1>1, <2>2, <2>3 DEF AttemptsInv
<1>5. CASE pc = "open" /\ pc' = "ask"
  <2>1. MovesOn' /\ UNCHANGED <<records, failures, tracked, cursor>>
    BY <1>5 DEF AttemptsInv, TrackInv, MovesOn, PackInv, TypeInv
  <2> QED
    BY <1>1, <1>5, <2>1 DEF AttemptsInv, CountInv, TrackInv
<1> QED
  BY <1>2, <1>3, <1>4, <1>5

\* The end of the work at a seq is one more attempt at the seq it tracks.
LEMMA ConcludeKeepsAttemptsInv ==
    ASSUME PackInv, AttemptsInv, Working, Concludes
    PROVE  AttemptsInv'
<1> USE DEF AtWork, Booked, Legs
<1>1. PICK outcome \in Outcomes \ {"no_infeed"} :
        /\ records' = Append(records, Record(seq, outcome))
        /\ pc' \in {"report", "off"}
        /\ outcome = "stopped" => pc' = "off"
  BY DEF Concludes
<1>2. /\ pc \in AtWork \ {"report"} /\ tracked = seq /\ seq \in Seqs
      /\ UNCHANGED <<seq, tracked, failures, cursor>>
      /\ failures \in Nat /\ failures < MaxAttempts
      /\ Cardinality(Attempts(seq)) = failures
      /\ \A i \in Attempts(seq) : records[i].outcome \in FailedOutcomes
  <2>1. Pending = 0 /\ ~MovesOn /\ pc \in AtWork \ {"report"}
    BY DEF Working, Pending, MovesOn
  <2> QED
    BY <2>1 DEF Working, AttemptsInv, CountInv, TrackInv, PackInv, SeqInv
<1>3. /\ Record(seq, outcome) \in Records
      /\ Record(seq, outcome).seq = seq /\ Record(seq, outcome).outcome = outcome
  BY <1>2 DEF Record, Records
<1>4. /\ Attempts(seq)' = Attempts(seq) \cup {Len(records')}
      /\ Cardinality(Attempts(seq)') = failures + 1
      /\ \A s : s # seq => Attempts(s)' = Attempts(s)
  BY <1>1, <1>2, <1>3, OneMoreAttempt DEF PackInv
<1>5. /\ Last(records') = Record(seq, outcome)
      /\ Len(records') = Len(records) + 1 /\ Len(records) \in Nat
      /\ DOMAIN records = 1..Len(records) /\ DOMAIN records' = 1..(Len(records) + 1)
      /\ records'[Len(records) + 1] = Record(seq, outcome)
      /\ \A i \in 1..Len(records) : records'[i] = records[i]
  BY <1>1, <1>3, AppendFacts DEF PackInv
<1>6. CountInv'
  <2> SUFFICES ASSUME pc' = "report"
               PROVE  CountInv'
    BY <1>1 DEF CountInv
  <2>1. Pending' = 1
    BY DEF Pending
  <2>2. \A i \in Attempts(seq) : records'[i].outcome \in FailedOutcomes
    BY <1>2, <1>5 DEF Attempts
  <2>3. /\ Cardinality(Attempts(tracked)') = failures' + Pending'
        /\ Attempts(tracked)' = Attempts(seq)'
    BY <1>2, <1>4, <2>1
  <2> QED
    BY <1>2, <1>4, <2>1, <2>2, <2>3 DEF CountInv
<1>7. TrackInv'
  BY <1>1, <1>2, <1>3, <1>5 DEF AttemptsInv, TrackInv
<1>8. ASSUME NEW s \in Seqs PROVE Cardinality(Attempts(s)') <= MaxAttempts
  <2>1. CASE s = seq
    <3>1. Cardinality(Attempts(s)') = failures + 1
      BY <1>2, <1>4, <2>1
    <3> QED
      BY <1>2, <3>1, PalletizerAssumption
  <2>2. CASE s # seq
    BY <1>4, <2>2 DEF AttemptsInv
  <2> QED
    BY <2>1, <2>2
<1> QED
  BY <1>6, <1>7, <1>8 DEF AttemptsInv

\* A question turns to the seq it is told, which was not tried yet when it is another
\* than the last one.
LEMMA AskKeepsAttemptsInv ==
    ASSUME PackInv, AttemptsInv, Ask
    PROVE  AttemptsInv'
<1> USE DEF AtWork, Booked, Legs
<1>1. /\ pc = "ask" /\ cursor \in Seqs /\ cursor' = cursor
      /\ seq' = cursor /\ tracked' = cursor
      /\ failures' = IF cursor # tracked THEN 0 ELSE failures
  BY PalletizerAssumption DEF Ask, sequencerVars, PackInv, TypeInv, Seqs
<1>2. /\ failures' \in Nat /\ failures' < MaxAttempts
      /\ Cardinality(Attempts(cursor)) = failures'
      /\ \A i \in Attempts(cursor) : records[i].outcome \in FailedOutcomes
      /\ \A i \in DOMAIN records : records[i].seq <= cursor
  <2>0. /\ tracked \in 0..cursor /\ \A i \in DOMAIN records : records[i].seq <= tracked
    BY <1>1 DEF AttemptsInv, TrackInv
  <2>3. records \in Seq(Records) /\ Seqs \subseteq Nat
    BY PalletizerAssumption DEF PackInv, TypeInv, Seqs
  <2>4. ASSUME NEW i \in DOMAIN records PROVE records[i].seq \in Nat
    <3>1. records[i] \in Records
      BY <2>3
    <3> QED
      BY <2>3, <3>1 DEF Records
  <2>1. CASE cursor # tracked
    <3>1. Attempts(cursor) = {} /\ Cardinality({}) = 0
      BY <1>1, <2>0, <2>1, <2>3, FS_EmptySet DEF Attempts
    <3>2. failures' = 0 /\ MaxAttempts > 0
      BY <1>1, <2>1, PalletizerAssumption
    <3>3. \A i \in DOMAIN records : records[i].seq <= cursor
      BY <1>1, <2>0, <2>3, <2>4
    <3> QED
      BY <3>1, <3>2, <3>3
  <2>2. CASE cursor = tracked
    <3>1. ~MovesOn /\ Pending = 0
      BY <1>1, <2>2 DEF MovesOn, Pending
    <3> QED
      BY <1>1, <2>0, <2>2, <3>1 DEF AttemptsInv, CountInv, TrackInv
  <2> QED
    BY <2>1, <2>2
<1>3. ~MovesOn'
  BY <1>1 DEF MovesOn
<1>4. CASE records' = records /\ pc' \in {"restage", "settle"}
  <2>1. \A s : Attempts(s)' = Attempts(s)
    BY <1>4 DEF Attempts
  <2>2. CountInv'
    BY <1>1, <1>2, <1>4, <2>1 DEF CountInv, Pending
  <2>3. TrackInv'
    BY <1>1, <1>2, <1>4 DEF TrackInv, Seqs
  <2> QED
    BY <2>1, <2>2, <2>3 DEF AttemptsInv
<1>5. ASSUME NEW outcome \in {"stopped", "no_infeed"},
             records' = Append(records, Record(cursor, outcome)),
             pc' = IF outcome = "stopped" THEN "off" ELSE "report"
      PROVE  AttemptsInv'
  <2>1. /\ Record(cursor, outcome) \in Records
        /\ Record(cursor, outcome).seq = cursor /\ Record(cursor, outcome).outcome = outcome
    BY <1>1, <1>5 DEF Record, Records, Outcomes
  <2>2. /\ Attempts(cursor)' = Attempts(cursor) \cup {Len(records')}
        /\ Cardinality(Attempts(cursor)') = failures' + 1
        /\ \A s : s # cursor => Attempts(s)' = Attempts(s)
    BY <1>1, <1>2, <1>5, <2>1, OneMoreAttempt DEF PackInv
  <2>3. /\ Last(records') = Record(cursor, outcome)
        /\ Len(records') = Len(records) + 1 /\ Len(records) \in Nat
        /\ DOMAIN records = 1..Len(records) /\ DOMAIN records' = 1..(Len(records) + 1)
        /\ records'[Len(records) + 1] = Record(cursor, outcome)
        /\ \A i \in 1..Len(records) : records'[i] = records[i]
    BY <1>5, <2>1, AppendFacts DEF PackInv
  <2>4. CountInv'
    <3> SUFFICES ASSUME pc' = "report"
                 PROVE  CountInv'
      BY <1>5 DEF CountInv
    <3>1. Pending' = 1
      BY DEF Pending
    <3>2. \A i \in Attempts(cursor) : records'[i].outcome \in FailedOutcomes
      BY <1>2, <2>3 DEF Attempts
    <3>3. /\ Cardinality(Attempts(tracked)') = failures' + Pending'
          /\ Attempts(tracked)' = Attempts(cursor)'
      BY <1>1, <2>2, <3>1
    <3> QED
      BY <1>1, <2>2, <3>1, <3>2, <3>3 DEF CountInv
  <2>5. TrackInv'
    BY <1>1, <1>2, <1>5, <2>1, <2>3 DEF TrackInv, Seqs
  <2>6. ASSUME NEW s \in Seqs PROVE Cardinality(Attempts(s)') <= MaxAttempts
    <3>1. CASE s = cursor
      <4>1. Cardinality(Attempts(s)') = failures' + 1
        BY <1>1, <2>2, <3>1
      <4>2. failures' \in Nat /\ failures' < MaxAttempts
        BY <1>2
      <4>3. \A n \in Nat : n < MaxAttempts => n + 1 <= MaxAttempts
        BY PalletizerAssumption
      <4> QED
        BY <4>1, <4>2, <4>3
    <3>2. CASE s # cursor
      BY <2>2, <3>2 DEF AttemptsInv
    <3> QED
      BY <3>1, <3>2
  <2> QED
    BY <2>4, <2>5, <2>6 DEF AttemptsInv
<1>6. CASE cancel
  BY <1>1, <1>5, <1>6 DEF Ask, Break, RunReturns
<1>7. CASE ~cancel /\ cursor > 1 /\ ~infeed
  BY <1>1, <1>5, <1>7 DEF Ask, Book, GoOn
<1>8. CASE ~cancel /\ ~(cursor > 1 /\ ~infeed)
  BY <1>1, <1>4, <1>8 DEF Ask, GoOn
<1> QED
  BY <1>6, <1>7, <1>8

\* A report counts its failure, or has moved the cursor on; the failure that fills the
\* count leads to the skip, which moves it too.
LEMMA ReportKeepsAttemptsInv ==
    ASSUME PackInv, AttemptsInv, Reports \/ ReportReturns \/ Skips \/ SkipReturns
    PROVE  AttemptsInv'
<1> USE DEF AtWork, Booked, Legs
<1>1. /\ UNCHANGED <<records, seq, tracked>> /\ tracked = seq /\ seq \in Seqs
      /\ records \in Seq(Records) /\ records # <<>> /\ Last(records).seq = seq
      /\ failures \in Nat /\ tracked \in 0..cursor /\ cursor \in Nat
      /\ \A i \in DOMAIN records : records[i].seq <= tracked
      /\ \A s : Attempts(s)' = Attempts(s)
      /\ \A s \in Seqs : Cardinality(Attempts(s)) <= MaxAttempts
  BY DEF PackInv, TypeInv, SeqInv, AttemptsInv, TrackInv, Reports, ReportReturns, Skips,
         SkipReturns, attemptVars, Attempts
<1>2. /\ seq \in Nat /\ Len(records) \in DOMAIN records
      /\ Last(records) = records[Len(records)] /\ Last(records).outcome \in Outcomes
  <2>1. Len(records) \in DOMAIN records /\ Last(records) = records[Len(records)]
        /\ Last(records) \in Records
    BY <1>1 DEF Last
  <2> QED
    BY <1>1, <2>1, PalletizerAssumption DEF Seqs, Records
<1>3. CASE Reports
  <2>1. /\ pc = "report" /\ pc' = "reported" /\ failures' = failures /\ failures < MaxAttempts
        /\ cursor = seq /\ cursor' = IF Success THEN cursor + 1 ELSE cursor
        /\ Pending = 1 /\ Pending' = 1 /\ ~MovesOn
    BY <1>3 DEF Reports, GoOn, attemptVars, PackInv, SeqInv, AttemptsInv, TrackInv, Pending,
                MovesOn
  <2>2. CountInv'
    BY <1>1, <2>1 DEF AttemptsInv, CountInv
  <2>3. TrackInv'
    BY <1>1, <1>2, <2>1 DEF AttemptsInv, TrackInv, Success
  <2> QED
    BY <1>1, <2>2, <2>3 DEF AttemptsInv
<1>4. CASE ReportReturns
  <2>1. /\ pc = "reported" /\ cursor' = cursor
        /\ failures' = IF Success THEN failures ELSE failures + 1
        /\ failures < MaxAttempts
        /\ cursor = IF Success THEN seq + 1 ELSE seq
        /\ Last(records).outcome # "stopped"
        /\ Pending = 1 /\ ~MovesOn
        /\ Cardinality(Attempts(seq)) = failures + 1
        /\ \A i \in Attempts(seq) : records[i].outcome \in FailedOutcomes \/ i = Len(records)
        /\ \/ pc' = "skip" /\ ~Success /\ failures + 1 >= MaxAttempts
           \/ pc' = "off"
           \/ pc' = "ask" /\ (Success \/ failures + 1 < MaxAttempts)
    <3>1. pc = "reported" /\ Pending = 1 /\ ~MovesOn /\ failures + 1 \in Nat
      BY <1>1, <1>4 DEF ReportReturns, Pending, MovesOn
    <3>2. /\ Cardinality(Attempts(seq)) = failures + 1
          /\ \A i \in Attempts(seq) : records[i].outcome \in FailedOutcomes \/ i = Len(records)
      BY <1>1, <3>1 DEF AttemptsInv, CountInv
    <3>3. \/ pc' = "skip" /\ ~Success /\ failures + 1 >= MaxAttempts
          \/ pc' = "off"
          \/ pc' = "ask" /\ (Success \/ ~(failures + 1 >= MaxAttempts))
      BY <1>4 DEF ReportReturns, AfterReport, RunReturns, GoOn
    <3> QED
      BY <1>1, <1>4, <3>1, <3>2, <3>3, PalletizerAssumption
         DEF ReportReturns, sequencerVars, AttemptsInv, TrackInv
  <2>2. ~Success => Last(records).outcome \in FailedOutcomes
    BY <1>2, <2>1 DEF Success, Outcomes, FailedOutcomes
  <2>3. ~Success => \A i \in Attempts(seq) : records[i].outcome \in FailedOutcomes
    BY <1>2, <2>1, <2>2
  <2>4. CASE pc' = "off"
    BY <1>1, <2>1, <2>4 DEF AttemptsInv, CountInv, TrackInv
  <2>5. CASE pc' = "skip"
    <3>1. ~Success /\ failures' = failures + 1 /\ failures' = MaxAttempts /\ Pending' = 0
      BY <1>1, <2>1, <2>5, PalletizerAssumption DEF Pending
    <3>2. CountInv'
      BY <1>1, <2>1, <2>3, <2>5, <3>1 DEF CountInv
    <3>3. TrackInv'
      BY <1>1, <2>1, <2>5, <3>1 DEF TrackInv
    <3> QED
      BY <1>1, <3>2, <3>3 DEF AttemptsInv
  <2>6. CASE pc' = "ask" /\ Success
    <3>1. MovesOn' /\ cursor' = seq + 1 /\ failures' = failures
      BY <1>1, <1>2, <2>1, <2>6 DEF MovesOn
    <3> QED
      BY <1>1, <1>2, <2>6, <3>1 DEF AttemptsInv, CountInv, TrackInv
  <2>7. CASE pc' = "ask" /\ ~Success
    <3>1. /\ cursor' = seq /\ failures' = failures + 1 /\ failures' < MaxAttempts
          /\ Pending' = 0 /\ ~MovesOn'
      BY <1>1, <2>1, <2>7 DEF Pending, MovesOn
    <3>2. CountInv'
      BY <1>1, <2>1, <2>3, <2>7, <3>1 DEF CountInv
    <3>3. TrackInv'
      BY <1>1, <1>2, <2>1, <2>7, <3>1 DEF TrackInv
    <3> QED
      BY <1>1, <3>2, <3>3 DEF AttemptsInv
  <2> QED
    BY <2>1, <2>4, <2>5, <2>6, <2>7
<1>5. CASE Skips
  <2>1. /\ pc = "skip" /\ pc' = "skipped" /\ failures' = failures
        /\ cursor = seq /\ cursor' = cursor + 1
        /\ Pending = 0 /\ Pending' = 0 /\ ~MovesOn
    BY <1>5 DEF Skips, GoOn, attemptVars, AttemptsInv, TrackInv, Pending, MovesOn
  <2>2. CountInv'
    BY <1>1, <2>1 DEF AttemptsInv, CountInv
  <2>3. TrackInv'
    BY <1>1, <1>2, <2>1 DEF AttemptsInv, TrackInv
  <2> QED
    BY <1>1, <2>2, <2>3 DEF AttemptsInv
<1>6. CASE SkipReturns
  <2>1. /\ pc = "skipped" /\ pc' \in {"off", "ask"} /\ failures' = failures
        /\ cursor = seq + 1 /\ cursor' = cursor
    BY <1>6 DEF SkipReturns, AfterReport, RunReturns, GoOn, attemptVars, sequencerVars,
                AttemptsInv, TrackInv
  <2>2. pc' = "ask" => MovesOn'
    BY <1>1, <1>2, <2>1 DEF MovesOn
  <2> QED
    BY <1>1, <1>2, <2>1, <2>2 DEF AttemptsInv, CountInv, TrackInv
<1> QED
  BY <1>3, <1>4, <1>5, <1>6

-----------------------------------------------------------------------------
(***************************************************************************)
(* The whole service.                                                      *)
(***************************************************************************)
\* Every step keeps the invariant.
LEMMA StepKeepsPackInv == PackInv /\ [Next]_vars => PackInv'
<1> SUFFICES ASSUME PackInv, [Next]_vars PROVE PackInv'
  OBVIOUS
<1>1. ASSUME NEW bound \in 0..Boxes, Start(bound) PROVE PackInv'
  BY <1>1, StartKeepsPackInv
<1>2. CASE Stop \/ Raise
  BY <1>2, BreakKeepsPackInv
<1>3. CASE OpensFirst
  BY <1>3, OpensKeepsPackInv
<1>4. CASE AskIsComplete \/ Ask
  BY <1>4, AskKeepsPackInv
<1>5. CASE Works
  BY <1>5, WorkIsOrdered, WorkKeepsTold, WorkKeepsPackInv DEF PackInv
<1>6. CASE Reports \/ ReportReturns \/ Skips \/ SkipReturns
  BY <1>6, ReportKeepsPackInv
<1>7. CASE TakesHoldLate \/ BoxDrops
  BY <1>7, CellKeepsPackInv
<1>8. CASE UNCHANGED vars
  <2>1. UNCHANGED <<pc, records, cursor, stopAfter, told, at, seq, closing, infeed>>
    BY <1>8 DEF vars, serviceVars, attemptVars, sequencerVars, cellVars
  <2> QED
    BY <2>1 DEF PackInv, TypeInv, SeqInv, CupInv, InfeedInv, BoundInv, OnCup, Success
<1> QED
  BY <1>1, <1>2, <1>3, <1>4, <1>5, <1>6, <1>7, <1>8 DEF Next, Run, Works

\* The invariant holds of every run of the service.
LEMMA SpecPackInv == Spec => []PackInv
BY InitPackInv, StepKeepsPackInv, PTL DEF Spec

\* Every step keeps the count of the attempts.
LEMMA StepKeepsAttemptsInv == PackInv /\ AttemptsInv /\ [Next]_vars => AttemptsInv'
<1> SUFFICES ASSUME PackInv, AttemptsInv, [Next]_vars PROVE AttemptsInv'
  OBVIOUS
<1>1. ASSUME NEW bound \in 0..Boxes, Start(bound) PROVE AttemptsInv'
  <2>1. /\ records' = <<>> /\ pc' = "open" /\ tracked' = 0 /\ failures' = 0
        /\ cursor' \in Nat
    BY <1>1 DEF Start, sequencerVars, PackInv, TypeInv
  <2>2. \A s \in Seqs : Attempts(s)' = {}
    BY <2>1 DEF Attempts
  <2>3. Cardinality({}) = 0 /\ MaxAttempts > 0
    BY FS_EmptySet, PalletizerAssumption
  <2>4. ASSUME NEW s \in Seqs PROVE Cardinality(Attempts(s))' <= MaxAttempts
    <3>1. Attempts(s)' = {}
      BY <2>2
    <3> QED
      BY <2>3, <3>1, PalletizerAssumption
  <2>5. CountInv' /\ TrackInv'
    BY <2>1, <2>3 DEF CountInv, TrackInv, AtWork, Booked, Legs
  <2> QED
    BY <2>4, <2>5 DEF AttemptsInv
<1>2. CASE \/ Stop \/ Raise \/ OpensFirst \/ AskIsComplete
           \/ TakesHoldLate \/ BoxDrops \/ UNCHANGED vars
  <2>1. UNCHANGED <<records, failures, tracked, seq, cursor>>
    BY <1>2 DEF Stop, Raise, OpensFirst, AskIsComplete, TakesHoldLate, BoxDrops, serviceVars,
                attemptVars, sequencerVars, vars
  <2>2. pc' \in {pc, "off"} \/ (pc = "open" /\ pc' = "ask")
    BY <1>2 DEF Stop, Raise, OpensFirst, AskIsComplete, TakesHoldLate, BoxDrops, RunReturns,
                GoOn, vars
  <2> QED
    BY <2>1, <2>2, IdleKeepsAttemptsInv
<1>3. CASE Ask
  BY <1>3, AskKeepsAttemptsInv
<1>4. CASE Works
  <2>1. Working
    BY <1>4, WorkIsOrdered DEF PackInv
  <2>2. CASE Continues
    BY <2>1, <2>2, IdleKeepsAttemptsInv DEF Working, Continues
  <2>3. CASE Concludes
    BY <2>1, <2>3, ConcludeKeepsAttemptsInv
  <2> QED
    BY <2>1, <2>2, <2>3 DEF Working
<1>5. CASE Reports \/ ReportReturns \/ Skips \/ SkipReturns
  BY <1>5, ReportKeepsAttemptsInv
<1> QED
  BY <1>1, <1>2, <1>3, <1>4, <1>5 DEF Next, Run, Works

\* What the sequencer is told is in the records already, and no later restage, pick
\* or restart of the palletizer takes that box off the slot it stands on.
THEOREM ToldStaysTrue == Spec => ToldIsKept
<1>1. ASSUME PackInv, [Next]_vars
      PROVE  /\ \A s \in told' \ told : \E i \in DOMAIN records : records[i] = Record(s, "placed")
             /\ \A b \in told : at[b] = "slot" => at'[b] = "slot"
  <2>1. ASSUME NEW s \in told' \ told
        PROVE  \E i \in DOMAIN records : records[i] = Record(s, "placed")
    <3>1. Reports /\ Success /\ s = seq
      BY <1>1, <2>1
         DEF Next, Run, Start, Stop, Raise, OpensFirst, AskIsComplete, Ask, RestageLands,
             RestageMisses, Settled, NoGeometry, LegArrives, Replans, RetreatRefused, Grab,
             Grabbed, SwingStops, Release, Retreats, Publishes, Reports, ReportReturns, Skips,
             SkipReturns, TakesHoldLate, BoxDrops, sequencerVars, vars
    <3>2. /\ records \in Seq(Records) /\ records # <<>> /\ Last(records).seq = seq
      BY <1>1, <3>1 DEF PackInv, TypeInv, SeqInv, Booked, Reports
    <3>3. Len(records) \in DOMAIN records /\ Last(records) = records[Len(records)]
          /\ Last(records) \in Records
      BY <3>2 DEF Last
    <3>4. Last(records) = Record(s, "placed")
      BY <3>1, <3>2, <3>3 DEF Success, Record, Records
    <3> QED
      BY <3>3, <3>4
  <2> QED
    BY <1>1, <2>1, StepKeepsTold
<1> QED
  BY <1>1, SpecPackInv, PTL DEF Spec, ToldIsKept

\* After a stop the run begins and plans no leg any more, and the cup neither
\* closes nor opens over a slot.
THEOREM StopEndsMotion == Spec => NoMotionAfterStop
<1> USE DEF Legs
<1>1. ASSUME [Next]_vars, cancel, <<pc', plan'>> # <<pc, plan>>, pc # "off"
      PROVE  pc' \notin Legs \cup {"grab", "release"}
  <2>1. CASE \/ \E bound \in 0..Boxes : Start(bound)
             \/ Raise \/ OpensFirst \/ AskIsComplete \/ Ask
    BY <1>1, <2>1
       DEF Start, Raise, OpensFirst, AskIsComplete, Ask, Break, Book, GoOn, RunReturns
  <2>2. CASE Stop \/ TakesHoldLate \/ BoxDrops \/ UNCHANGED vars
    BY <1>1, <2>2 DEF Stop, TakesHoldLate, BoxDrops, vars
  <2>3. CASE \/ RestageLands \/ RestageMisses \/ Settled \/ NoGeometry
             \/ Grab \/ Grabbed \/ SwingStops \/ Release
    BY <1>1, <2>3
       DEF RestageLands, RestageMisses, Settled, NoGeometry, Grab, Grabbed, SwingStops, Release,
           BeginLeg, Break, Book, GoOn, RunReturns
  <2>4. CASE LegArrives \/ Replans
    BY <1>1, <2>4 DEF LegArrives, Replans, BeginLeg, Break, GoOn, RunReturns
  <2>5. CASE \/ RetreatRefused \/ Retreats \/ Publishes
             \/ Reports \/ ReportReturns \/ Skips \/ SkipReturns
    BY <1>1, <2>5
       DEF RetreatRefused, Retreats, Publishes, Reports, ReportReturns, Skips, SkipReturns,
           BeginRetreat, Book, GoOn, AfterReport, RunReturns
  <2> QED
    BY <1>1, <2>1, <2>2, <2>3, <2>4, <2>5 DEF Next, Run
<1> QED
  BY <1>1, PTL DEF Spec, NoMotionAfterStop

\* However the run before it ended, a run asks its first question with an empty cup,
\* and one that follows the placing of box 1 knows where the infeed is.
THEOREM EveryRunStartsFit == Spec => []RunsStartFit
<1>1. PackInv => RunsStartFit
  BY DEF PackInv, CupInv, InfeedInv, RunsStartFit, RunStartsEmpty, ResumedRunHasInfeed
<1> QED
  BY <1>1, SpecPackInv, PTL

\* A bounded run records one attempt at or past its bound at most.
THEOREM BoundedRunsEnd == Spec => []BoundedRunEnds
<1>1. ASSUME PackInv PROVE BoundedRunEnds
  <2> SUFFICES ASSUME stopAfter # 0
               PROVE  Cardinality({i \in DOMAIN records : records[i].seq >= stopAfter}) <= 1
    BY DEF BoundedRunEnds
  <2>1. {i \in DOMAIN records : records[i].seq >= stopAfter} \subseteq {Len(records)}
    BY <1>1 DEF PackInv, BoundInv
  <2>2. IsFiniteSet({Len(records)}) /\ Cardinality({Len(records)}) = 1
    BY FS_Singleton
  <2> QED
    BY <2>1, <2>2, FS_Subset
<1> QED
  BY <1>1, SpecPackInv, PTL

\* However runs fail, are stopped and follow each other, each starts fit and stays within
\* its bounds: no seq is tried more than MAX_ATTEMPTS_PER_SEQ times in a run, and one is
\* skipped after that many failures of its own and of no other seq.
THEOREM RunsStayOrderly == Spec => []RunsAreOrderly
<1>1. Spec => []AttemptsInv
  BY InitAttemptsInv, StepKeepsAttemptsInv, SpecPackInv, PTL DEF Spec
<1>2. AttemptsInv => SkippedAfterItsOwnFailures
  <2> SUFFICES ASSUME AttemptsInv PROVE SkippedAfterItsOwnFailures
    OBVIOUS
  <2>1. ASSUME pc = "skip"
        PROVE  /\ Cardinality(Attempts(seq)) = MaxAttempts
               /\ \A i \in Attempts(seq) : records[i].outcome \in FailedOutcomes
    <3>1. /\ tracked = seq /\ failures = MaxAttempts /\ Pending = 0 /\ ~MovesOn
          /\ failures \in Nat
      BY <2>1 DEF AttemptsInv, TrackInv, Booked, Pending, MovesOn
    <3> QED
      BY <2>1, <3>1 DEF AttemptsInv, CountInv
  <2> QED
    BY <2>1 DEF AttemptsInv, SkippedAfterItsOwnFailures, FailedOutcomes
<1> QED
  BY <1>1, <1>2, EveryRunStartsFit, BoundedRunsEnd, PTL DEF RunsAreOrderly, AttemptsAreBounded

=============================================================================
