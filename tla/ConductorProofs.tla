--------------------------- MODULE ConductorProofs ---------------------------
(***************************************************************************)
(* Safety of Conductor, for any number of starts, loops and records, any   *)
(* window of the log and any bound on the errors in a row, and for starts  *)
(* that overlap in any way: what status shows, that nothing is done after  *)
(* a stop, and that the conductor is one job at a time, each unless the    *)
(* last run was accepted beside another one at work.                       *)
(*                                                                         *)
(* BaseInv holds even then.  While runs are alone SoloInv does too: a run  *)
(* that works is the one the state speaks of, and the cancel flag is that  *)
(* run's.  RunInv follows its counters.                                    *)
(*                                                                         *)
(* Then of SorterSensor: captures are complete, however replies overlap.   *)
(* SensorInv needs of the conductor only that its log is the window of its *)
(* last records, which holds whatever starts do.                           *)
(***************************************************************************)
EXTENDS SorterSensor, FiniteSetTheorems, SequenceTheorems, TLAPS

Busy    == {"running", "stopping"}
Records == [id : Nat, run : Starts, error : BOOLEAN]

TypeInv ==
    /\ state \in States /\ cancel \in BOOLEAN
    /\ startPc \in [Starts -> {"idle", "refused", "probing", "raised", "accepted"}]
    /\ runPc \in [Starts -> Working \cup {"none", "home", "ended"}]
    /\ kind \in [Starts -> Kinds]
    /\ wanted \in [Starts -> Nat \ {0}]
    /\ loopIndex \in [Starts -> Nat]
    /\ errors \in [Starts -> Nat]
    /\ rollup \in [loop : Nat, completed : Nat, errored : Nat]
    /\ nextId \in Nat /\ base \in Nat
    /\ log \in Seq(Records)
    /\ latest \in Starts \cup {NoRun}
    /\ stopAsked \subseteq Starts /\ met \subseteq Starts /\ overlap \in BOOLEAN

\* A run comes from a start that was accepted, and as long as the state speaks
\* of a run the last one accepted is at work.
BaseInv ==
    /\ \A s \in Starts : runPc[s] # "none" => startPc[s] = "accepted"
    /\ \A s \in Starts : runPc[s] = "none" => loopIndex[s] = 0 /\ errors[s] = 0
    /\ \A s \in stopAsked : startPc[s] = "accepted"
    /\ state \in Busy => latest \in Starts /\ runPc[latest] \in Working

\* The run at work is the last one accepted, and the state says so.
OwnerInv == \A s \in Starts : runPc[s] \in Working => s = latest /\ state \in Busy

\* The flag is set for the run at work, and stays set while it works.
CancelInv ==
    /\ state = "running" => cancel = FALSE
    /\ state = "stopping" => cancel = TRUE
    /\ \A s \in stopAsked : runPc[s] \in Working => cancel = TRUE

\* Nobody is let through beside a run at work.
CheckInv == met = {}

SoloInv == OwnerInv /\ CancelInv /\ CheckInv

\* The newest n records are errors of one run.
ErrorsAtEnd(n, s) == \A i \in DOMAIN log :
    i > Len(log) - n => log[i].error /\ log[i].run = s

\* What the rollup says of the loops of the run under way ...
Counted(s) ==
    /\ rollup.completed + rollup.errored = loopIndex[s]
    /\ runPc[s] = "park" => loopIndex[s] = 0
    /\ runPc[s] # "park" => rollup.loop = loopIndex[s] + 1
    /\ kind[s] # "continuous" => loopIndex[s] + 1 <= wanted[s]

\* ... and the log of its errors in a row.
Streak(s) ==
    /\ errors[s] <= nextId - base
    /\ LoopMode(s) => errors[s] < MaxErrors
    /\ ErrorsAtEnd(errors[s], s)

RunInv == \A s \in Starts : runPc[s] \in Working => Counted(s) /\ Streak(s)

\* Status tells what took place, without a condition.
Truth == LogIsWindow /\ OutcomesMatchLoops

\* While runs are alone ...
AloneInv == TypeInv /\ BaseInv /\ SoloInv /\ RunInv /\ Truth

\* ... and always.
CondInv == TypeInv /\ BaseInv /\ LogIsWindow /\ (~overlap => AloneInv)

-----------------------------------------------------------------------------
\* The invariant holds at first.
LEMMA InitAloneInv == Init => AloneInv
<1> SUFFICES ASSUME Init PROVE AloneInv
  OBVIOUS
<1>1. TypeInv
  <2>1. /\ state \in States /\ cancel \in BOOLEAN /\ nextId \in Nat /\ base \in Nat
        /\ rollup \in [loop : Nat, completed : Nat, errored : Nat]
        /\ latest \in Starts \cup {NoRun} /\ stopAsked \subseteq Starts
        /\ met \subseteq Starts /\ overlap \in BOOLEAN
    BY DEF Init, States
  <2>2. log \in Seq(Records)
    BY DEF Init
  <2>3. /\ startPc \in [Starts -> {"idle", "refused", "probing", "raised", "accepted"}]
        /\ runPc \in [Starts -> Working \cup {"none", "home", "ended"}]
        /\ kind \in [Starts -> Kinds] /\ wanted \in [Starts -> Nat \ {0}]
        /\ loopIndex \in [Starts -> Nat] /\ errors \in [Starts -> Nat]
    BY DEF Init, Kinds, Working
  <2> QED
    BY <2>1, <2>2, <2>3 DEF TypeInv
<1>2. BaseInv /\ SoloInv
  BY DEF Init, BaseInv, SoloInv, OwnerInv, CancelInv, CheckInv, Busy, Working
<1>3. RunInv
  BY DEF Init, RunInv, Working
<1>4. Truth
  BY ConductorAssumption DEF Init, Truth, LogIsWindow, OutcomesMatchLoops,
     RollupMatchesRecords, CompleteMeansAllLoops, FailedMeansErrorsInARow
<1> QED
  BY <1>1, <1>2, <1>3, <1>4 DEF AloneInv

\* _record_loop: the log ends with the new record, and what is left of the
\* others has moved by as many places as records were dropped.
LEMMA RecordFacts ==
    ASSUME TypeInv, LogIsWindow, NEW s \in Starts, NEW failed \in BOOLEAN, Record(s, failed)
    PROVE  /\ nextId' = nextId + 1
           /\ log' \in Seq(Records)
           /\ LogIsWindow'
           /\ Len(log') \in Nat \ {0}
           /\ log'[Len(log')].run = s /\ log'[Len(log')].error = failed
           /\ \E d \in {0, 1} :
                 /\ Len(log) = Len(log') - 1 + d
                 /\ \A i \in 1..(Len(log') - 1) : i + d \in DOMAIN log /\ log'[i] = log[i + d]
<1> DEFINE new == [id |-> nextId + 1, run |-> s, error |-> failed]
           all == Append(log, new)
<1>0. log' = IF Len(all) > Window THEN Tail(all) ELSE all
  BY DEF Record
<1>1. nextId' = nextId + 1 /\ nextId \in Nat /\ nextId' \in Nat /\ Window \in Nat /\ Window > 0
  BY ConductorAssumption DEF Record, TypeInv
<1>2. new \in Records /\ new.id = nextId + 1 /\ new.run = s /\ new.error = failed
  BY <1>1 DEF Records
<1>3. /\ log \in Seq(Records) /\ Len(log) \in Nat /\ DOMAIN log = 1..Len(log)
      /\ Len(log) <= Window /\ (Len(log) = Window \/ Len(log) = nextId)
      /\ \A i \in DOMAIN log : log[i].id = nextId - Len(log) + i
  BY DEF TypeInv, LogIsWindow
<1> HIDE DEF new
<1>4. /\ all \in Seq(Records) /\ all # <<>> /\ Len(all) = Len(log) + 1
      /\ \A i \in 1..Len(log) : all[i] = log[i]
      /\ all[Len(log) + 1] = new
  BY <1>2, <1>3, AppendProperties
<1> HIDE DEF all
<1>a. /\ Len(log) \in Nat /\ Len(log) <= Window /\ (Len(log) = Window \/ Len(log) = nextId)
      /\ Len(all) = Len(log) + 1
  BY <1>3, <1>4
<1>b. \A i \in 1..Len(log) : log[i].id = nextId - Len(log) + i
  BY <1>3
<1>5. \A i \in 1..(Len(log) + 1) : all[i].id = nextId' - (Len(log) + 1) + i
  <2> SUFFICES ASSUME NEW i \in 1..(Len(log) + 1)
               PROVE  all[i].id = nextId' - (Len(log) + 1) + i
    OBVIOUS
  <2>1. CASE i = Len(log) + 1
    <3>1. all[i].id = nextId + 1
      BY <1>2, <1>4, <2>1
    <3> QED
      BY <1>1, <1>a, <2>1, <3>1
  <2>2. CASE i # Len(log) + 1
    <3>1. i \in 1..Len(log)
      BY <1>3, <2>2
    <3>2. all[i].id = nextId - Len(log) + i
      BY <1>4, <1>b, <3>1
    <3> QED
      BY <1>1, <1>a, <3>1, <3>2
  <2> QED
    BY <2>1, <2>2
<1>6. \E d \in {0, 1} :
        /\ Len(log') \in Nat \ {0} /\ log' \in Seq(Records)
        /\ Len(log) = Len(log') - 1 + d
        /\ Len(log') <= Window
        /\ Len(log') = Window \/ (d = 0 /\ Len(log) = nextId)
        /\ \A i \in 1..Len(log') : log'[i] = all[i + d]
  <2>1. CASE Len(all) > Window
    <3>1. log' = Tail(all)
      BY <1>0, <2>1
    <3>2. /\ log' \in Seq(Records) /\ Len(log') = Len(log)
          /\ \A i \in 1..Len(log') : log'[i] = all[i + 1]
      BY <1>3, <1>4, <3>1, HeadTailProperties
    <3>3. Len(log) = Window
      BY <1>1, <1>a, <2>1
    <3>4. Len(log') \in Nat \ {0} /\ Len(log') = Window /\ Len(log) = Len(log') - 1 + 1
      BY <1>1, <1>a, <3>2, <3>3
    <3>5. Len(log') <= Window
      BY <1>1, <3>4
    <3> WITNESS 1 \in {0, 1}
    <3> QED
      BY <3>2, <3>4, <3>5
  <2>2. CASE ~(Len(all) > Window)
    <3>1. log' = all
      BY <1>0, <2>2
    <3>2. /\ Len(log') = Len(log) + 1 /\ Len(log') <= Window
          /\ Len(log') = Window \/ Len(log) = nextId
      BY <1>1, <1>a, <2>2, <3>1
    <3>3. \A i \in 1..Len(log') : log'[i] = all[i + 0]
      BY <3>1
    <3> QED
      BY <1>3, <1>4, <3>1, <3>2, <3>3
  <2> QED
    BY <2>1, <2>2
<1>7. PICK d \in {0, 1} :
        /\ Len(log') \in Nat \ {0} /\ log' \in Seq(Records)
        /\ Len(log) = Len(log') - 1 + d
        /\ Len(log') <= Window
        /\ Len(log') = Window \/ (d = 0 /\ Len(log) = nextId)
        /\ \A i \in 1..Len(log') : log'[i] = all[i + d]
  BY <1>6
<1>8. \A i \in 1..Len(log') : log'[i].id = nextId' - Len(log') + i
  <2> SUFFICES ASSUME NEW i \in 1..Len(log') PROVE log'[i].id = nextId' - Len(log') + i
    OBVIOUS
  <2>1. i + d \in 1..(Len(log) + 1) /\ log'[i] = all[i + d]
    BY <1>3, <1>7
  <2>2. all[i + d].id = nextId' - (Len(log) + 1) + (i + d)
    BY <1>5, <2>1
  <2>3. log'[i].id = nextId' - (Len(log) + 1) + (i + d)
    BY <2>1, <2>2
  <2>4. Len(log) + 1 = Len(log') + d /\ Len(log') \in Nat
    BY <1>a, <1>7
  <2> QED
    BY <1>1, <1>a, <2>3, <2>4
<1>9. DOMAIN log' = 1..Len(log')
  BY <1>7
<1>10. LogIsWindow'
  <2>1. Len(log') = Window \/ Len(log') = nextId'
    BY <1>1, <1>3, <1>7
  <2> QED
    BY <1>7, <1>8, <1>9, <2>1 DEF LogIsWindow
<1>11. log'[Len(log')] = new
  <2>1. Len(log') \in 1..Len(log') /\ Len(log') + d = Len(log) + 1
    BY <1>3, <1>7
  <2> QED
    BY <1>4, <1>7, <2>1
<1>12. \A i \in 1..(Len(log') - 1) : i + d \in DOMAIN log /\ log'[i] = log[i + d]
  <2> SUFFICES ASSUME NEW i \in 1..(Len(log') - 1)
               PROVE  i + d \in 1..Len(log) /\ log'[i] = log[i + d]
    BY <1>3
  <2>1. i + d \in 1..Len(log) /\ i \in 1..Len(log')
    BY <1>3, <1>7
  <2> QED
    BY <1>4, <1>7, <2>1
<1> QED
  BY <1>1, <1>2, <1>7, <1>10, <1>11, <1>12

\* So errors that ended the log still do, one more with a failed loop.
LEMMA RecordExtendsErrors ==
    ASSUME TypeInv, LogIsWindow, NEW s \in Starts, Record(s, TRUE),
           NEW n \in Nat, ErrorsAtEnd(n, s)
    PROVE  ErrorsAtEnd(n + 1, s)'
<1>1. PICK d \in {0, 1} :
        /\ Len(log) = Len(log') - 1 + d
        /\ \A i \in 1..(Len(log') - 1) : i + d \in DOMAIN log /\ log'[i] = log[i + d]
  BY RecordFacts
<1>2. /\ log' \in Seq(Records) /\ Len(log') \in Nat \ {0} /\ Len(log) \in Nat
      /\ log'[Len(log')].run = s /\ log'[Len(log')].error
  <2>1. Len(log) \in Nat
    BY DEF TypeInv
  <2>2. log'[Len(log')].error = TRUE
    BY RecordFacts, Zenon
  <2> QED
    BY RecordFacts, <2>1, <2>2
<1> SUFFICES ASSUME NEW i \in DOMAIN log', i > Len(log') - (n + 1)
             PROVE  log'[i].error /\ log'[i].run = s
  BY DEF ErrorsAtEnd
<1>3. CASE i = Len(log')
  BY <1>2, <1>3
<1>4. CASE i # Len(log')
  <2>1. i \in 1..(Len(log') - 1) /\ i + d > Len(log) - n
    BY <1>1, <1>2, <1>4
  <2> QED
    BY <1>1, <2>1 DEF ErrorsAtEnd
<1> QED
  BY <1>3, <1>4

-----------------------------------------------------------------------------
(***************************************************************************)
(* The steps.                                                              *)
(***************************************************************************)
\* How a run goes on.
LEMMA NextLoopTypes ==
    ASSUME TypeInv, NEW s \in Starts, NextLoop(s)
    PROVE  /\ state' \in States /\ cancel' \in BOOLEAN
           /\ runPc' \in [Starts -> Working \cup {"none", "home", "ended"}]
           /\ loopIndex' \in [Starts -> Nat]
<1>1. runPc' = [runPc EXCEPT ![s] = "reset"] /\ "reset" \in Working
  BY DEF NextLoop, Working
<1>2. runPc' \in [Starts -> Working \cup {"none", "home", "ended"}]
  BY <1>1 DEF TypeInv
<1>3. loopIndex' \in [Starts -> Nat]
  <2>1. loopIndex' = [loopIndex EXCEPT ![s] = loopIndex[s] + 1]
    BY DEF NextLoop
  <2>2. loopIndex \in [Starts -> Nat] /\ loopIndex[s] + 1 \in Nat
    BY DEF TypeInv
  <2> QED
    BY <2>1, <2>2
<1> QED
  BY <1>2, <1>3 DEF TypeInv, NextLoop

\* How a run leaves its loop.
LEMMA FinishTypes ==
    ASSUME TypeInv, NEW s \in Starts, NEW outcome \in {EndOfRun, "failed", "idle"},
           Finish(s, outcome)
    PROVE  /\ state' \in States /\ cancel' \in BOOLEAN
           /\ runPc' \in [Starts -> Working \cup {"none", "home", "ended"}]
           /\ loopIndex' \in [Starts -> Nat]
<1>1. outcome \in States
  BY DEF EndOfRun, States
<1>2. runPc' = [runPc EXCEPT ![s] = "home"]
  BY DEF Finish
<1>3. runPc' \in [Starts -> Working \cup {"none", "home", "ended"}]
  BY <1>2 DEF TypeInv
<1> QED
  BY <1>1, <1>3 DEF TypeInv, Finish

\* The rollup counts the loop that is over; a run that goes on was not asked
\* to stop and has loops left.
LEMMA LoopCompletesFacts ==
    ASSUME TypeInv, NEW s \in Starts, LoopCompletes(s)
    PROVE  /\ rollup' \in [loop : Nat, completed : Nat, errored : Nat]
           /\ rollup'.completed = rollup.completed + 1 /\ rollup'.errored = rollup.errored
           /\ errors' = [errors EXCEPT ![s] = 0]
           /\ \/ Finish(s, EndOfRun) /\ (cancel \/ LastLoop(s)) /\ rollup'.loop = rollup.loop
              \/ NextLoop(s) /\ ~cancel /\ ~LastLoop(s) /\ rollup'.loop = loopIndex'[s] + 1
<1>1. /\ rollup \in [loop : Nat, completed : Nat, errored : Nat]
      /\ errors' = [errors EXCEPT ![s] = 0]
  BY DEF TypeInv, LoopCompletes
<1>2. CASE cancel \/ LastLoop(s)
  <2>1. Finish(s, EndOfRun) /\ rollup' = [rollup EXCEPT !.completed = rollup.completed + 1]
    BY <1>2 DEF LoopCompletes
  <2> QED
    BY <1>1, <1>2, <2>1
<1>3. CASE ~(cancel \/ LastLoop(s))
  <2>1. /\ NextLoop(s)
        /\ rollup' = [rollup EXCEPT !.completed = rollup.completed + 1,
                                 !.loop = loopIndex'[s] + 1]
    BY <1>3 DEF LoopCompletes
  <2>2. /\ rollup' \in [loop : Nat, completed : Nat, errored : Nat]
        /\ rollup'.completed = rollup.completed + 1 /\ rollup'.errored = rollup.errored
        /\ rollup'.loop = loopIndex'[s] + 1
    <3>1. rollup' = [ loop |-> loopIndex'[s] + 1, completed |-> rollup.completed + 1,
                      errored |-> rollup.errored ]
      BY <1>1, <2>1, Zenon
    <3>2. rollup.completed \in Nat /\ rollup.errored \in Nat /\ loopIndex'[s] + 1 \in Nat
      BY <1>1, <2>1, NextLoopTypes
    <3> QED
      BY <3>1, <3>2
  <2> QED
    BY <1>1, <1>3, <2>1, <2>2
<1> QED
  BY <1>2, <1>3

\* The same of a loop that failed, which also counts against the run.
LEMMA LoopFailsFacts ==
    ASSUME TypeInv, NEW s \in Starts, LoopFails(s)
    PROVE  /\ rollup' \in [loop : Nat, completed : Nat, errored : Nat]
           /\ rollup'.completed = rollup.completed /\ rollup'.errored = rollup.errored + 1
           /\ errors' = [errors EXCEPT ![s] = errors[s] + 1]
           /\ \/ /\ Finish(s, "failed") /\ (~LoopMode(s) \/ errors[s] + 1 >= MaxErrors)
                 /\ rollup'.loop = rollup.loop
              \/ /\ Finish(s, EndOfRun) /\ (cancel \/ LastLoop(s)) /\ rollup'.loop = rollup.loop
              \/ /\ NextLoop(s) /\ ~cancel /\ ~LastLoop(s) /\ rollup'.loop = loopIndex'[s] + 1
                 /\ LoopMode(s) => errors[s] + 1 < MaxErrors
<1> DEFINE counted == [rollup EXCEPT !.errored = rollup.errored + 1]
<1>1. /\ rollup \in [loop : Nat, completed : Nat, errored : Nat] /\ errors \in [Starts -> Nat]
      /\ errors' = [errors EXCEPT ![s] = errors[s] + 1]
  BY DEF TypeInv, LoopFails
<1>2. errors'[s] = errors[s] + 1 /\ errors[s] \in Nat /\ MaxErrors \in Nat
  BY <1>1, ConductorAssumption
<1>3. /\ counted \in [loop : Nat, completed : Nat, errored : Nat]
      /\ counted.completed = rollup.completed /\ counted.errored = rollup.errored + 1
      /\ counted.loop = rollup.loop
  BY <1>1
<1>4. IF ~LoopMode(s) \/ errors'[s] >= MaxErrors
        THEN Finish(s, "failed") /\ rollup' = counted
      ELSE IF cancel \/ LastLoop(s)
        THEN Finish(s, EndOfRun) /\ rollup' = counted
        ELSE NextLoop(s) /\ rollup' = [counted EXCEPT !.loop = loopIndex'[s] + 1]
  BY DEF LoopFails
<1> HIDE DEF counted
<1>5. CASE ~LoopMode(s) \/ errors'[s] >= MaxErrors
  BY <1>1, <1>2, <1>3, <1>4, <1>5
<1>6. CASE ~(~LoopMode(s) \/ errors'[s] >= MaxErrors) /\ (cancel \/ LastLoop(s))
  BY <1>1, <1>3, <1>4, <1>6
<1>7. CASE ~(~LoopMode(s) \/ errors'[s] >= MaxErrors) /\ ~(cancel \/ LastLoop(s))
  <2>1. NextLoop(s) /\ rollup' = [counted EXCEPT !.loop = loopIndex'[s] + 1]
    BY <1>4, <1>7
  <2>2. /\ rollup' \in [loop : Nat, completed : Nat, errored : Nat]
        /\ rollup'.completed = rollup.completed /\ rollup'.errored = rollup.errored + 1
        /\ rollup'.loop = loopIndex'[s] + 1
    <3>1. loopIndex'[s] + 1 \in Nat
      BY <2>1, NextLoopTypes
    <3> QED
      BY <1>1, <1>3, <2>1, <3>1
  <2>3. errors[s] + 1 < MaxErrors
    BY <1>2, <1>7
  <2> QED
    BY <1>1, <1>7, <2>1, <2>2, <2>3
<1> QED
  BY <1>5, <1>6, <1>7

\* TypeInv is kept by every step.
LEMMA TypeStep == TypeInv /\ LogIsWindow /\ [Next]_vars => TypeInv'
<1> SUFFICES ASSUME TypeInv, LogIsWindow, [Next]_vars PROVE TypeInv'
  OBVIOUS
<1>1. CASE UNCHANGED vars \/ Quiet
  BY <1>1 DEF TypeInv, Quiet, vars, runVars, askVars, logVars
<1>2. CASE Stop
  BY <1>2 DEF TypeInv, Stop, Sorters, States, runVars, askVars, logVars
<1>3. ASSUME NEW s \in Starts, StartArrives(s) \/ StartRaises(s)
      PROVE  TypeInv'
  BY <1>3 DEF TypeInv, StartArrives, LetThrough, StartRaises, runVars, logVars
<1>4. ASSUME NEW s \in Starts, StartAccepted(s)
      PROVE  TypeInv'
  <2>1. /\ kind' \in [Starts -> Kinds] /\ wanted' \in [Starts -> Nat \ {0}]
        /\ startPc' \in [Starts -> {"idle", "refused", "probing", "raised", "accepted"}]
        /\ runPc' \in [Starts -> Working \cup {"none", "home", "ended"}]
    BY <1>4, ConductorAssumption DEF TypeInv, StartAccepted, Kinds, Working
  <2>2. /\ rollup' \in [loop : Nat, completed : Nat, errored : Nat]
        /\ state' \in States /\ cancel' \in BOOLEAN /\ base' \in Nat /\ latest' \in Starts
        /\ met' \subseteq Starts /\ overlap' \in BOOLEAN
        /\ UNCHANGED <<loopIndex, errors, nextId, log, stopAsked>>
    BY <1>4 DEF TypeInv, StartAccepted, States
  <2> QED
    BY <2>1, <2>2 DEF TypeInv
<1>5. ASSUME NEW s \in Starts,
             ResetDone(s) \/ AttemptBegins(s) \/ NextPass(s) \/ Home(s)
      PROVE  TypeInv'
  BY <1>5 DEF TypeInv, ResetDone, AttemptBegins, NextPass, Home, Working, askVars, logVars
<1>6. ASSUME NEW s \in Starts, Parked(s) \/ ParkRaises(s)
      PROVE  TypeInv'
  <2>1. UNCHANGED <<errors, askVars, nextId, log, stopAsked>>
    BY <1>6 DEF Parked, ParkRaises, logVars
  <2>2. rollup' \in [loop : Nat, completed : Nat, errored : Nat]
    <3>1. rollup \in [loop : Nat, completed : Nat, errored : Nat]
      BY DEF TypeInv
    <3>2. rollup' = rollup \/ rollup' = [rollup EXCEPT !.loop = 1]
      BY <1>6 DEF Parked, ParkRaises, logVars
    <3> QED
      BY <3>1, <3>2
  <2>3. CASE Finish(s, "idle") \/ Finish(s, "failed")
    BY <2>1, <2>2, <2>3, FinishTypes DEF TypeInv, askVars
  <2>4. CASE ~(Finish(s, "idle") \/ Finish(s, "failed"))
    <3>1. /\ UNCHANGED <<state, cancel, loopIndex>>
          /\ runPc' = [runPc EXCEPT ![s] = IF kind[s] = "single" THEN "census" ELSE "reset"]
      BY <1>6, <2>4 DEF Parked, ParkRaises
    <3>2. runPc' \in [Starts -> Working \cup {"none", "home", "ended"}]
      BY <3>1 DEF TypeInv, Working
    <3> QED
      BY <2>1, <2>2, <3>1, <3>2 DEF TypeInv, askVars
  <2> QED
    BY <2>3, <2>4
<1>7. ASSUME NEW s \in Starts, LoopCompletes(s) \/ LoopFails(s)
      PROVE  TypeInv'
  <2>1. nextId' \in Nat /\ log' \in Seq(Records)
    <3>1. PICK failed \in BOOLEAN : Record(s, failed)
      BY <1>7 DEF LoopCompletes, LoopFails
    <3> QED
      BY <3>1, RecordFacts DEF TypeInv
  <2>2. /\ state' \in States /\ cancel' \in BOOLEAN
        /\ runPc' \in [Starts -> Working \cup {"none", "home", "ended"}]
        /\ loopIndex' \in [Starts -> Nat]
    BY <1>7, NextLoopTypes, FinishTypes, LoopCompletesFacts, LoopFailsFacts
  <2>3. errors' \in [Starts -> Nat]
    <3>1. errors \in [Starts -> Nat] /\ errors[s] + 1 \in Nat
      BY DEF TypeInv
    <3>2. errors' = [errors EXCEPT ![s] = 0] \/ errors' = [errors EXCEPT ![s] = errors[s] + 1]
      BY <1>7, LoopCompletesFacts, LoopFailsFacts
    <3> QED
      BY <3>1, <3>2
  <2>4. rollup' \in [loop : Nat, completed : Nat, errored : Nat]
    BY <1>7, LoopCompletesFacts, LoopFailsFacts
  <2>5. UNCHANGED <<askVars, stopAsked>>
    BY <1>7 DEF LoopCompletes, LoopFails
  <2> QED
    BY <2>1, <2>2, <2>3, <2>4, <2>5 DEF TypeInv, askVars
<1> QED
  BY <1>1, <1>2, <1>3, <1>4, <1>5, <1>6, <1>7 DEF Next, Command, RunTask

\* A run goes on, without a stop, or it ends and takes the flag with it; the
\* counters of other runs are left alone.
LEMMA RunAtWork ==
    ASSUME TypeInv, NEW s \in Starts, RunTask(s)
    PROVE  /\ UNCHANGED <<startPc, kind, wanted, latest, base, met, overlap, stopAsked>>
           /\ \A t \in Starts : t # s => /\ runPc'[t] = runPc[t]
                                         /\ loopIndex'[t] = loopIndex[t] /\ errors'[t] = errors[t]
           /\ \/ /\ runPc[s] \in Working /\ runPc'[s] \in Working
                 /\ UNCHANGED <<state, cancel>>
              \/ /\ runPc[s] \in Working /\ runPc'[s] = "home"
                 /\ state' \in {"idle", "complete", "failed"}
                 /\ ~cancel'
              \/ /\ runPc[s] = "home" /\ runPc'[s] = "ended"
                 /\ UNCHANGED <<state, cancel>>
<1>1. UNCHANGED <<startPc, kind, wanted, latest, base, met, overlap, stopAsked>>
  BY DEF RunTask, Parked, ParkRaises, ResetDone, AttemptBegins, NextPass, LoopCompletes,
     LoopFails, Home, askVars
<1>2. runPc \in [Starts -> Working \cup {"none", "home", "ended"}]
  BY DEF TypeInv
<1>3. CASE ResetDone(s) \/ AttemptBegins(s) \/ NextPass(s) \/ Home(s)
  BY <1>1, <1>2, <1>3 DEF ResetDone, AttemptBegins, NextPass, Home, Working
<1>4. ASSUME runPc[s] \in Working, NextLoop(s)
      PROVE  /\ runPc'[s] \in Working /\ \A t \in Starts : t # s => runPc'[t] = runPc[t]
             /\ \A t \in Starts : t # s => loopIndex'[t] = loopIndex[t]
             /\ UNCHANGED <<state, cancel>>
  BY <1>2, <1>4 DEF NextLoop, Working, TypeInv
<1>5. ASSUME NEW outcome \in {EndOfRun, "failed", "idle"}, Finish(s, outcome)
      PROVE  /\ runPc'[s] = "home" /\ \A t \in Starts : t # s => runPc'[t] = runPc[t]
             /\ UNCHANGED loopIndex
             /\ state' \in {"idle", "complete", "failed"} /\ ~cancel'
  BY <1>2, <1>5 DEF Finish, EndOfRun
<1>6. CASE Parked(s) \/ ParkRaises(s)
  <2>1. runPc[s] \in Working /\ UNCHANGED errors
    BY <1>6 DEF Parked, ParkRaises, Working
  <2>2. CASE Finish(s, "idle") \/ Finish(s, "failed")
    BY <1>1, <1>5, <2>1, <2>2
  <2>3. CASE ~(Finish(s, "idle") \/ Finish(s, "failed"))
    <3>1. /\ runPc' = [runPc EXCEPT ![s] = IF kind[s] = "single" THEN "census" ELSE "reset"]
          /\ UNCHANGED <<state, cancel, loopIndex>>
      BY <1>6, <2>3 DEF Parked, ParkRaises
    <3> QED
      BY <1>1, <1>2, <2>1, <3>1 DEF Working
  <2> QED
    BY <2>2, <2>3
<1>7. CASE LoopCompletes(s) \/ LoopFails(s)
  <2>1. runPc[s] \in Working
    BY <1>7 DEF LoopCompletes, LoopFails, Working
  <2>2. \A t \in Starts : t # s => errors'[t] = errors[t]
    BY <1>7, LoopCompletesFacts, LoopFailsFacts DEF TypeInv
  <2>3. Finish(s, EndOfRun) \/ Finish(s, "failed") \/ NextLoop(s)
    BY <1>7, LoopCompletesFacts, LoopFailsFacts
  <2> QED
    BY <1>1, <1>4, <1>5, <2>1, <2>2, <2>3
<1> QED
  BY <1>3, <1>6, <1>7 DEF RunTask

\* BaseInv is kept by every step.
LEMMA BaseStep == TypeInv /\ BaseInv /\ [Next]_vars => BaseInv'
<1> SUFFICES ASSUME TypeInv, BaseInv, [Next]_vars PROVE BaseInv'
  OBVIOUS
<1>1. CASE UNCHANGED vars \/ Quiet
  BY <1>1 DEF BaseInv, Quiet, vars, runVars, askVars
<1>2. CASE Stop
  <2>1. /\ UNCHANGED <<startPc, runPc, latest, loopIndex, errors>>
        /\ state' = IF state = "running" THEN "stopping" ELSE state
        /\ stopAsked' = stopAsked \cup Sorters
    BY <1>2 DEF Stop, runVars, askVars
  <2> QED
    BY <2>1 DEF BaseInv, Busy, Working, Sorters
<1>3. ASSUME NEW s \in Starts, StartArrives(s) \/ StartRaises(s)
      PROVE  BaseInv'
  <2>1. /\ startPc[s] # "accepted" /\ \A t \in Starts : t # s => startPc'[t] = startPc[t]
        /\ UNCHANGED <<state, runPc, latest, stopAsked, loopIndex, errors>>
    BY <1>3 DEF TypeInv, StartArrives, StartRaises, runVars
  <2> QED
    BY <2>1 DEF BaseInv, TypeInv
<1>4. ASSUME NEW s \in Starts, StartAccepted(s)
      PROVE  BaseInv'
  <2>1. /\ startPc' = [startPc EXCEPT ![s] = "accepted"]
        /\ runPc' = [runPc EXCEPT ![s] = "park"] /\ latest' = s
        /\ UNCHANGED <<stopAsked, loopIndex, errors>>
    BY <1>4 DEF StartAccepted
  <2>2. /\ startPc'[s] = "accepted" /\ runPc'[s] = "park"
        /\ \A t \in Starts : t # s => startPc'[t] = startPc[t] /\ runPc'[t] = runPc[t]
    BY <2>1 DEF TypeInv
  <2> QED
    BY <2>1, <2>2 DEF BaseInv, TypeInv, Working
<1>5. ASSUME NEW s \in Starts, RunTask(s)
      PROVE  BaseInv'
  <2>1. /\ UNCHANGED <<startPc, latest, stopAsked>>
        /\ runPc[s] # "none" /\ runPc'[s] # "none"
        /\ \A t \in Starts : t # s => /\ runPc'[t] = runPc[t]
                                      /\ loopIndex'[t] = loopIndex[t] /\ errors'[t] = errors[t]
    BY <1>5, RunAtWork DEF Working
  <2>2. state' \in Busy => UNCHANGED state /\ (runPc[s] \in Working => runPc'[s] \in Working)
    BY <1>5, RunAtWork DEF Working, Busy
  <2> QED
    BY <2>1, <2>2 DEF BaseInv
<1> QED
  BY <1>1, <1>2, <1>3, <1>4, <1>5 DEF Next, Command

\* A start that finds nobody at work begins anew, whatever was before.
LEMMA AcceptedAlone ==
    ASSUME TypeInv, BaseInv, LogIsWindow, NEW s \in Starts, StartAccepted(s), Sorters = {}
    PROVE  AloneInv'
<1>1. /\ startPc[s] = "probing" /\ runPc' = [runPc EXCEPT ![s] = "park"]
      /\ state' = "running" /\ cancel' = FALSE /\ latest' = s /\ base' = nextId
      /\ rollup' = [loop |-> 0, completed |-> 0, errored |-> 0]
      /\ UNCHANGED <<loopIndex, errors, nextId, log, stopAsked>>
      /\ met' = {} /\ \A t \in Starts : runPc[t] \notin Working
  BY DEF StartAccepted, Sorters
<1>2. /\ runPc[s] = "none" /\ loopIndex[s] = 0 /\ errors[s] = 0 /\ s \notin stopAsked
      /\ runPc'[s] = "park" /\ \A t \in Starts : t # s => runPc'[t] = runPc[t]
  BY <1>1 DEF BaseInv, TypeInv
<1>3. TypeInv' /\ BaseInv'
  BY TypeStep, BaseStep DEF Next, Command
<1>4. SoloInv'
  BY <1>1, <1>2 DEF SoloInv, OwnerInv, CancelInv, CheckInv, Working, Busy, TypeInv
<1>5. Counted(s)'
  <2>1. wanted'[s] \in Nat \ {0}
    BY <1>3 DEF TypeInv
  <2> QED
    BY <1>1, <1>2, <2>1 DEF Counted
<1>6. Streak(s)'
  <2>1. log \in Seq(Records) /\ nextId \in Nat /\ MaxErrors \in Nat \ {0}
    BY ConductorAssumption DEF TypeInv
  <2> QED
    BY <1>1, <1>2, <2>1 DEF Streak, ErrorsAtEnd
<1>7. RunInv'
  BY <1>1, <1>2, <1>5, <1>6 DEF RunInv
<1>8. Truth'
  <2>1. LogIsWindow' /\ RollupMatchesRecords'
    <3>1. nextId \in Nat
      BY DEF TypeInv
    <3> QED
      BY <1>1, <3>1 DEF LogIsWindow, RollupMatchesRecords
  <2> QED
    BY <1>1, <2>1
    DEF Truth, OutcomesMatchLoops, CompleteMeansAllLoops, FailedMeansErrorsInARow
<1> QED
  BY <1>3, <1>4, <1>7, <1>8 DEF AloneInv

\* SoloInv is kept by every step but a start accepted beside a run at work.
LEMMA SoloStep == AloneInv /\ ~overlap' /\ [Next]_vars => SoloInv'
<1> SUFFICES ASSUME AloneInv, ~overlap', [Next]_vars PROVE SoloInv'
  OBVIOUS
<1> USE DEF AloneInv, SoloInv
<1>1. CASE UNCHANGED vars \/ Quiet
  BY <1>1 DEF OwnerInv, CancelInv, CheckInv, Quiet, vars, runVars, askVars
<1>2. CASE Stop
  <2>1. /\ UNCHANGED <<runPc, latest, met>> /\ cancel' = TRUE
        /\ state' = IF state = "running" THEN "stopping" ELSE state
    BY <1>2 DEF Stop, runVars, askVars
  <2> QED
    BY <2>1 DEF OwnerInv, CancelInv, CheckInv, Busy
<1>3. ASSUME NEW s \in Starts, StartArrives(s) \/ StartRaises(s)
      PROVE  SoloInv'
  <2>1. UNCHANGED <<state, cancel, runPc, latest, stopAsked>>
    BY <1>3 DEF StartArrives, StartRaises, runVars
  <2>2. met' = met
    <3>1. startPc'[s] = "probing" /\ StartArrives(s) => Sorters = {}
      BY DEF StartArrives, TypeInv, OwnerInv, Sorters, Busy
    <3> QED
      BY <1>3, <3>1 DEF StartArrives, StartRaises, LetThrough
  <2> QED
    BY <2>1, <2>2 DEF OwnerInv, CancelInv, CheckInv
<1>4. ASSUME NEW s \in Starts, StartAccepted(s)
      PROVE  SoloInv'
  BY <1>4, AcceptedAlone DEF Truth, StartAccepted, CheckInv
<1>5. ASSUME NEW s \in Starts, RunTask(s)
      PROVE  SoloInv'
  <2>1. /\ UNCHANGED <<latest, stopAsked, met>>
        /\ \A t \in Starts : t # s => runPc'[t] = runPc[t]
    BY <1>5, RunAtWork
  <2>2. CASE (runPc'[s] \in Working => runPc[s] \in Working) /\ UNCHANGED <<state, cancel>>
    BY <2>1, <2>2 DEF OwnerInv, CancelInv, CheckInv, TypeInv
  <2>3. CASE runPc[s] \in Working /\ runPc'[s] = "home"
             /\ state' \in {"idle", "complete", "failed"}
    <3>1. \A t \in Starts : runPc'[t] \notin Working
      BY <2>1, <2>3 DEF OwnerInv, Working
    <3> QED
      BY <2>1, <2>3, <3>1 DEF OwnerInv, CancelInv, CheckInv, TypeInv
  <2> QED
    BY <1>5, <2>2, <2>3, RunAtWork DEF Working
<1> QED
  BY <1>1, <1>2, <1>3, <1>4, <1>5 DEF Next, Command

\* A step of a run outside its loops keeps its counters and what status shows.
LEMMA QuietRunStep ==
    ASSUME AloneInv, NEW s \in Starts,
           Parked(s) \/ ParkRaises(s) \/ ResetDone(s) \/ AttemptBegins(s) \/ NextPass(s) \/ Home(s)
    PROVE  /\ UNCHANGED loopIndex /\ UNCHANGED errors
           /\ runPc'[s] \in Working => Counted(s)' /\ Streak(s)'
           /\ Truth'
<1> USE DEF AloneInv
<1>1. UNCHANGED <<loopIndex, errors, kind, wanted, latest, base, nextId, log>>
  BY DEF Parked, ParkRaises, ResetDone, AttemptBegins, NextPass, Home, Finish, askVars, logVars
<1>2. /\ rollup \in [loop : Nat, completed : Nat, errored : Nat]
      /\ rollup' = rollup \/ rollup' = [rollup EXCEPT !.loop = 1]
  BY DEF TypeInv, Parked, ParkRaises, ResetDone, AttemptBegins, NextPass, Home, logVars
<1>3. rollup'.completed = rollup.completed /\ rollup'.errored = rollup.errored
  BY <1>2
<1>4. LogIsWindow' /\ RollupMatchesRecords'
  <2>1. LogIsWindow /\ RollupMatchesRecords
    BY DEF Truth, OutcomesMatchLoops
  <2> QED
    BY <1>1, <1>3, <2>1 DEF LogIsWindow, RollupMatchesRecords
<1>5. CASE Parked(s) \/ ParkRaises(s)
  <2>1. /\ runPc[s] = "park" /\ loopIndex[s] = 0 /\ Counted(s) /\ Streak(s)
        /\ s = latest
    BY <1>5 DEF Parked, ParkRaises, SoloInv, OwnerInv, RunInv, Counted, Working
  <2>2. nextId = base
    <3>1. nextId - base = 0
      BY <2>1 DEF Counted, Truth, OutcomesMatchLoops, RollupMatchesRecords
    <3> QED
      BY <3>1 DEF TypeInv
  <2>3. FailedMeansErrorsInARow'
    <3>1. ~(nextId' > base')
      BY <1>1, <2>2 DEF TypeInv
    <3> QED
      BY <3>1 DEF FailedMeansErrorsInARow
  <2>4. CompleteMeansAllLoops'
    <3>1. state' # "complete"
      BY <1>5, <2>1 DEF Parked, ParkRaises, Finish, SoloInv, OwnerInv, Busy, Working
    <3> QED
      BY <3>1 DEF CompleteMeansAllLoops
  <2>5. ASSUME runPc'[s] \in Working PROVE Counted(s)' /\ Streak(s)'
    <3>1. ~Finish(s, "idle") /\ ~Finish(s, "failed")
      BY <2>5 DEF Finish, Working, TypeInv
    <3>2. Parked(s) /\ ~cancel
      BY <1>5, <3>1 DEF Parked, ParkRaises
    <3>3. /\ runPc' = [runPc EXCEPT ![s] = IF kind[s] = "single" THEN "census" ELSE "reset"]
          /\ rollup' = [rollup EXCEPT !.loop = 1]
      BY <3>2 DEF Parked
    <3>4. runPc'[s] # "park" /\ rollup'.loop = 1
      BY <1>2, <3>3 DEF TypeInv
    <3>5. Counted(s)'
      BY <1>1, <1>3, <2>1, <3>4 DEF Counted
    <3>6. Streak(s)'
      BY <1>1, <2>1 DEF Streak, ErrorsAtEnd, LoopMode
    <3> QED
      BY <3>5, <3>6
  <2> QED
    BY <1>1, <1>4, <2>3, <2>4, <2>5 DEF Truth, OutcomesMatchLoops
<1>6. CASE ResetDone(s) \/ AttemptBegins(s) \/ NextPass(s) \/ Home(s)
  <2>1. UNCHANGED <<state, rollup>>
    BY <1>6 DEF ResetDone, AttemptBegins, NextPass, Home, logVars
  <2>2. CompleteMeansAllLoops' /\ FailedMeansErrorsInARow'
    <3>1. CompleteMeansAllLoops /\ FailedMeansErrorsInARow
      BY DEF Truth, OutcomesMatchLoops
    <3> QED
      BY <1>1, <2>1, <3>1 DEF CompleteMeansAllLoops, FailedMeansErrorsInARow, LoopMode
  <2>3. ASSUME runPc'[s] \in Working PROVE Counted(s)' /\ Streak(s)'
    <3>1. runPc[s] \in Working /\ runPc[s] # "park" /\ runPc'[s] # "park"
      BY <1>6, <2>3 DEF ResetDone, AttemptBegins, NextPass, Home, Working, TypeInv
    <3>2. Counted(s) /\ Streak(s)
      BY <3>1 DEF RunInv
    <3>3. Counted(s)'
      BY <1>1, <2>1, <3>1, <3>2 DEF Counted
    <3>4. Streak(s)'
      BY <1>1, <3>2 DEF Streak, ErrorsAtEnd, LoopMode
    <3> QED
      BY <3>3, <3>4
  <2> QED
    BY <1>1, <1>4, <2>2, <2>3 DEF Truth, OutcomesMatchLoops
<1> QED
  BY <1>5, <1>6

\* A loop that completes or fails is counted once, in the rollup, in the run
\* and in the log.
LEMMA LoopStep ==
    ASSUME AloneInv, NEW s \in Starts, LoopCompletes(s) \/ LoopFails(s)
    PROVE  /\ runPc[s] \in Working
           /\ \A t \in Starts : t # s => loopIndex'[t] = loopIndex[t] /\ errors'[t] = errors[t]
           /\ runPc'[s] \in Working => Counted(s)' /\ Streak(s)'
           /\ Truth'
<1> USE DEF AloneInv
<1> DEFINE ended == Finish(s, EndOfRun) \/ Finish(s, "failed")
<1>1. /\ runPc[s] \in Working /\ runPc[s] # "park" /\ s = latest
      /\ UNCHANGED <<kind, wanted, latest, base>>
  BY DEF LoopCompletes, LoopFails, SoloInv, OwnerInv, Working, askVars
<1>2. Counted(s) /\ Streak(s) /\ LogIsWindow /\ RollupMatchesRecords
  BY <1>1 DEF RunInv, Truth, OutcomesMatchLoops
<1>3. PICK failed \in BOOLEAN :
         /\ Record(s, failed)
         /\ (failed = TRUE => LoopFails(s)) /\ (failed = FALSE => LoopCompletes(s))
  BY DEF LoopCompletes, LoopFails
<1>4. nextId' = nextId + 1 /\ LogIsWindow'
  BY <1>2, <1>3, RecordFacts
<1>5. /\ nextId \in Nat /\ base \in Nat /\ loopIndex[s] \in Nat /\ errors[s] \in Nat
      /\ rollup.loop \in Nat /\ rollup.completed \in Nat /\ rollup.errored \in Nat
      /\ wanted[s] \in Nat /\ MaxErrors \in Nat \ {0} /\ Window \in Nat \ {0}
      /\ loopIndex \in [Starts -> Nat] /\ errors \in [Starts -> Nat]
  BY ConductorAssumption DEF TypeInv
<1>6. /\ rollup' \in [loop : Nat, completed : Nat, errored : Nat]
      /\ rollup'.completed + rollup'.errored = loopIndex[s] + 1
  <2>1. rollup.completed + rollup.errored = loopIndex[s]
    BY <1>2 DEF Counted
  <2>2. \/ rollup'.completed = rollup.completed + 1 /\ rollup'.errored = rollup.errored
        \/ rollup'.completed = rollup.completed /\ rollup'.errored = rollup.errored + 1
    BY LoopCompletesFacts, LoopFailsFacts
  <2>3. rollup' \in [loop : Nat, completed : Nat, errored : Nat]
    BY LoopCompletesFacts, LoopFailsFacts
  <2> QED
    BY <1>5, <2>1, <2>2, <2>3
<1>7. RollupMatchesRecords'
  <2>1. loopIndex[s] = nextId - base
    BY <1>2 DEF Counted, RollupMatchesRecords
  <2> QED
    BY <1>1, <1>4, <1>5, <1>6, <2>1 DEF RollupMatchesRecords
<1>8. \/ Finish(s, EndOfRun) /\ (cancel \/ LastLoop(s)) /\ rollup'.loop = rollup.loop
      \/ /\ Finish(s, "failed") /\ LoopFails(s) /\ (~LoopMode(s) \/ errors[s] + 1 >= MaxErrors)
      \/ /\ NextLoop(s) /\ ~cancel /\ ~LastLoop(s) /\ rollup'.loop = loopIndex'[s] + 1
         /\ LoopFails(s) /\ LoopMode(s) => errors[s] + 1 < MaxErrors
  BY LoopCompletesFacts, LoopFailsFacts
<1>9. \/ failed = FALSE /\ errors' = [errors EXCEPT ![s] = 0]
      \/ failed = TRUE /\ LoopFails(s) /\ errors' = [errors EXCEPT ![s] = errors[s] + 1]
  BY <1>3, LoopCompletesFacts, LoopFailsFacts
<1>10. \A t \in Starts : t # s => loopIndex'[t] = loopIndex[t] /\ errors'[t] = errors[t]
  <2>1. loopIndex' = loopIndex \/ loopIndex' = [loopIndex EXCEPT ![s] = loopIndex[s] + 1]
    BY <1>8 DEF Finish, NextLoop
  <2> QED
    BY <1>5, <1>9, <2>1
<1>11. /\ errors'[s] \in Nat /\ errors'[s] <= nextId' - base
       /\ \A i \in DOMAIN log' : i > Len(log') - errors'[s] => log'[i].error /\ log'[i].run = s
  <2>1. errors[s] <= nextId - base /\ ErrorsAtEnd(errors[s], s)
    BY <1>2 DEF Streak
  <2>2. CASE failed = FALSE
    <3>1. errors'[s] = 0
      BY <1>5, <1>9, <2>2
    <3>2. log' \in Seq(Records)
      BY <1>2, <1>3, RecordFacts
    <3>3. 0 <= nextId' - base
      BY <1>4, <1>5, <2>1
    <3> QED
      BY <3>1, <3>2, <3>3
  <2>3. CASE failed = TRUE
    <3>1. errors'[s] = errors[s] + 1
      BY <1>5, <1>9, <2>3
    <3> PICK n \in Nat : n = errors[s]
      BY <1>5
    <3>2. ErrorsAtEnd(n + 1, s)'
      <4>1. Record(s, TRUE) /\ ErrorsAtEnd(n, s)
        BY <1>3, <2>1, <2>3
      <4> QED
        BY <1>2, <4>1, RecordExtendsErrors
    <3>3. errors[s] + 1 <= nextId' - base
      BY <1>4, <1>5, <2>1
    <3> QED
      BY <1>5, <3>1, <3>2, <3>3 DEF ErrorsAtEnd
  <2> QED
    BY <2>2, <2>3
<1>12. CASE NextLoop(s) /\ ~cancel /\ ~LastLoop(s) /\ rollup'.loop = loopIndex'[s] + 1
  <2>1. /\ UNCHANGED state /\ runPc'[s] # "park"
        /\ loopIndex' = [loopIndex EXCEPT ![s] = loopIndex[s] + 1]
    BY <1>12 DEF NextLoop, TypeInv
  <2>2. loopIndex'[s] = loopIndex[s] + 1
    BY <1>5, <2>1
  <2>3. Counted(s)'
    <3>1. rollup'.loop = loopIndex'[s] + 1
      BY <1>12
    <3>2. kind[s] # "continuous" => loopIndex'[s] + 1 <= wanted[s]
      BY <1>5, <1>12, <2>2 DEF LastLoop
    <3> QED
      BY <1>1, <1>6, <2>1, <2>2, <3>1, <3>2 DEF Counted
  <2>4. LoopMode(s)' => errors'[s] < MaxErrors
    <3>1. LoopMode(s)' => LoopMode(s)
      BY <1>1 DEF LoopMode
    <3>2. CASE failed = FALSE
      BY <1>5, <1>9, <3>2
    <3>3. CASE failed = TRUE
      <4>1. LoopMode(s) => errors[s] + 1 < MaxErrors
        BY <1>8, <1>9, <1>12, <3>3 DEF NextLoop, Finish, TypeInv
      <4> QED
        BY <1>5, <1>9, <3>1, <3>3, <4>1
    <3> QED
      BY <3>2, <3>3
  <2>5. Streak(s)'
    BY <1>1, <1>11, <2>4 DEF Streak, ErrorsAtEnd
  <2>6. state' # "complete" /\ state' # "failed"
    BY <1>1, <2>1 DEF SoloInv, OwnerInv, Busy
  <2> QED
    BY <1>1, <1>4, <1>7, <1>10, <2>3, <2>5, <2>6
    DEF Truth, OutcomesMatchLoops, CompleteMeansAllLoops, FailedMeansErrorsInARow
<1>13. CASE ended
  <2>1. runPc'[s] \notin Working /\ state' \in {EndOfRun, "failed"}
    BY <1>13 DEF Finish, TypeInv, Working
  <2>2. CompleteMeansAllLoops'
    <3> SUFFICES ASSUME state' = "complete"
                 PROVE  /\ kind[s] # "continuous"
                        /\ rollup'.completed + rollup'.errored = wanted[s]
                        /\ rollup'.loop = wanted[s]
      BY <1>1 DEF CompleteMeansAllLoops
    <3>1. ~cancel /\ Finish(s, EndOfRun)
      BY <1>13, <2>1 DEF EndOfRun, Finish
    <3>2. LastLoop(s) /\ rollup'.loop = rollup.loop
      BY <1>8, <3>1 DEF Finish, NextLoop, TypeInv
    <3>3. kind[s] # "continuous" /\ loopIndex[s] + 1 = wanted[s]
      BY <1>2, <1>5, <3>2 DEF LastLoop, Counted
    <3>4. rollup.loop = loopIndex[s] + 1
      BY <1>1, <1>2 DEF Counted
    <3> QED
      BY <1>6, <3>2, <3>3, <3>4
  <2>3. FailedMeansErrorsInARow'
    <3> SUFFICES ASSUME state' = "failed", LoopMode(s)', MaxErrors <= Window
                 PROVE  /\ Len(log') >= MaxErrors
                        /\ \A i \in (Len(log') - MaxErrors + 1)..Len(log') :
                             log'[i].error /\ log'[i].run = s
      BY <1>1 DEF FailedMeansErrorsInARow, LoopMode
    <3>1. LoopFails(s) /\ errors[s] + 1 >= MaxErrors
      <4>1. LoopMode(s)
        BY <1>1 DEF LoopMode
      <4>2. ~Finish(s, EndOfRun)
        BY DEF Finish, EndOfRun
      <4>3. ~NextLoop(s)
        BY <2>1 DEF NextLoop, TypeInv, Working
      <4> QED
        BY <1>8, <4>1, <4>2, <4>3
    <3>2. errors'[s] >= MaxErrors
      BY <1>5, <3>1, LoopFailsFacts
    <3>3. Len(log') \in Nat /\ DOMAIN log' = 1..Len(log')
      BY <1>2, <1>3, RecordFacts
    <3>4. Len(log') >= MaxErrors
      <4>1. Len(log') = Window \/ Len(log') = nextId'
        BY <1>4 DEF LogIsWindow
      <4>2. nextId' >= MaxErrors
        BY <1>4, <1>5, <1>11, <3>2
      <4> QED
        BY <1>5, <3>3, <4>1, <4>2
    <3>5. ASSUME NEW i \in (Len(log') - MaxErrors + 1)..Len(log')
          PROVE  log'[i].error /\ log'[i].run = s
      <4>1. i \in 1..Len(log') /\ i > Len(log') - errors'[s]
        BY <1>5, <1>11, <3>2, <3>3, <3>4
      <4> QED
        BY <1>11, <3>3, <4>1
    <3> QED
      BY <3>4, <3>5
  <2> QED
    BY <1>1, <1>4, <1>7, <1>10, <2>1, <2>2, <2>3 DEF Truth, OutcomesMatchLoops
<1> QED
  BY <1>8, <1>12, <1>13

\* RunInv and Truth are kept, too.
LEMMA StatusStep == AloneInv /\ ~overlap' /\ SoloInv' /\ [Next]_vars => RunInv' /\ Truth'
<1> SUFFICES ASSUME AloneInv, ~overlap', SoloInv', [Next]_vars PROVE RunInv' /\ Truth'
  OBVIOUS
<1> USE DEF AloneInv
<1>0. LogIsWindow /\ RollupMatchesRecords /\ CompleteMeansAllLoops /\ FailedMeansErrorsInARow
  BY DEF Truth, OutcomesMatchLoops
<1>1. ASSUME UNCHANGED <<runPc, kind, wanted, latest, base, loopIndex, errors, rollup, nextId, log>>,
             state' \in {"complete", "failed"} => state' = state
      PROVE  RunInv' /\ Truth'
  <2>1. RunInv'
    BY <1>1 DEF RunInv, Counted, Streak, ErrorsAtEnd, LoopMode
  <2>2. LogIsWindow' /\ RollupMatchesRecords'
    BY <1>0, <1>1 DEF LogIsWindow, RollupMatchesRecords
  <2>3. CompleteMeansAllLoops' /\ FailedMeansErrorsInARow'
    BY <1>0, <1>1 DEF CompleteMeansAllLoops, FailedMeansErrorsInARow, LoopMode
  <2> QED
    BY <2>1, <2>2, <2>3 DEF Truth, OutcomesMatchLoops
<1>2. CASE UNCHANGED vars \/ Quiet \/ Stop
  BY <1>1, <1>2 DEF Quiet, Stop, vars, runVars, askVars, logVars
<1>3. ASSUME NEW s \in Starts, StartArrives(s) \/ StartRaises(s)
      PROVE  RunInv' /\ Truth'
  BY <1>1, <1>3 DEF StartArrives, StartRaises, runVars, logVars
<1>4. ASSUME NEW s \in Starts, StartAccepted(s)
      PROVE  RunInv' /\ Truth'
  BY <1>4, AcceptedAlone DEF Truth, StartAccepted, SoloInv, CheckInv
<1>5. ASSUME NEW s \in Starts, RunTask(s)
      PROVE  RunInv' /\ Truth'
  <2>1. \A t \in Starts : t # s => runPc'[t] = runPc[t]
    BY <1>5, RunAtWork
  <2>2. /\ \A t \in Starts : t # s => loopIndex'[t] = loopIndex[t] /\ errors'[t] = errors[t]
        /\ runPc'[s] \in Working => Counted(s)' /\ Streak(s)'
        /\ Truth'
    BY <1>5, QuietRunStep, LoopStep DEF RunTask
  <2>4. ASSUME NEW t \in Starts, t # s, runPc'[t] \in Working
        PROVE  Counted(t)' /\ Streak(t)'
    <3>1. runPc[t] = runPc'[t] /\ t = latest
      BY <2>1, <2>4 DEF SoloInv, OwnerInv
    <3>2. runPc[s] \notin Working
      BY <2>4, <3>1 DEF SoloInv, OwnerInv
    <3>3. Home(s)
      BY <1>5, <3>2 DEF RunTask, Parked, ParkRaises, ResetDone, AttemptBegins, NextPass,
         LoopCompletes, LoopFails, Working
    <3>4. UNCHANGED <<loopIndex, errors, kind, wanted, base, nextId, log, rollup>>
      BY <3>3 DEF Home, askVars, logVars
    <3>5. Counted(t) /\ Streak(t)
      BY <2>4, <3>1 DEF RunInv
    <3> QED
      BY <3>1, <3>4, <3>5 DEF Counted, Streak, ErrorsAtEnd, LoopMode
  <2>5. RunInv'
    BY <2>2, <2>4 DEF RunInv
  <2> QED
    BY <2>2, <2>5
<1> QED
  BY <1>2, <1>3, <1>4, <1>5 DEF Next, Command

\* A step of the conductor keeps the types and the log, which changes by a record.
LEMMA LogKept ==
    TypeInv /\ LogIsWindow /\ [Next]_vars =>
        /\ TypeInv' /\ LogIsWindow'
        /\ \/ UNCHANGED <<nextId, log>>
           \/ \E s \in Starts, failed \in BOOLEAN : Record(s, failed)
<1> SUFFICES ASSUME TypeInv, LogIsWindow, [Next]_vars
             PROVE  /\ TypeInv' /\ LogIsWindow'
                    /\ \/ UNCHANGED <<nextId, log>>
                       \/ \E s \in Starts, failed \in BOOLEAN : Record(s, failed)
  OBVIOUS
<1>1. \/ UNCHANGED <<nextId, log>>
      \/ \E s \in Starts, failed \in BOOLEAN : Record(s, failed)
  BY DEF Next, Command, RunTask, StartArrives, StartRaises, StartAccepted, Stop, Quiet, Parked,
         ParkRaises, ResetDone, AttemptBegins, NextPass, LoopCompletes, LoopFails, Home,
         logVars, vars
<1>2. CASE UNCHANGED <<nextId, log>>
  BY <1>2, TypeStep DEF LogIsWindow
<1>3. CASE \E s \in Starts, failed \in BOOLEAN : Record(s, failed)
  BY <1>3, TypeStep, RecordFacts
<1> QED
  BY <1>1, <1>2, <1>3

\* While runs are alone, or a start finds nobody at work, AloneInv holds.
LEMMA AloneStep == CondInv /\ ~overlap' /\ [Next]_vars => AloneInv'
<1> SUFFICES ASSUME CondInv, ~overlap', [Next]_vars PROVE AloneInv'
  OBVIOUS
<1> USE DEF CondInv
<1>1. CASE ~overlap
  BY <1>1, TypeStep, BaseStep, SoloStep, StatusStep DEF AloneInv, Truth
<1>2. CASE overlap
  <2>1. \E s \in Starts : StartAccepted(s)
    BY <1>2, RunAtWork DEF Next, Command, StartArrives, StartRaises, Stop, Quiet, vars, askVars
  <2> QED
    BY <1>2, <2>1, AcceptedAlone DEF StartAccepted
<1> QED
  BY <1>1, <1>2

\* The invariant is inductive.
LEMMA SpecCondInv == Spec => []CondInv
<1>1. Init => CondInv
  BY InitAloneInv DEF CondInv, AloneInv, Truth
<1>2. CondInv /\ [Next]_vars => CondInv'
  BY LogKept, BaseStep, AloneStep DEF CondInv
<1> QED
  BY <1>1, <1>2, PTL DEF Spec

-----------------------------------------------------------------------------
(***************************************************************************)
(* What CondInv is for.                                                    *)
(***************************************************************************)
\* What status shows is what the loops put on record: the log however starts
\* overlap, the rollup and the final state of a run unless it was accepted
\* beside another (_record_loop, the rollup of _run, _status_snapshot).
THEOREM StatusStaysTrue == Spec => []StatusIsTrue
<1>1. CondInv => StatusIsTrue
  BY DEF CondInv, AloneInv, Truth, StatusIsTrue
<1> QED
  BY <1>1, SpecCondInv, PTL

AttemptInv == attempt \in [Starts -> {0, 1}]

\* What the history keeps of the attempts of a run is their parity.
LEMMA AttemptsAreTyped == Spec => []AttemptInv
<1>1. Init => AttemptInv
  BY DEF Init, AttemptInv
<1>2. AttemptInv /\ [Next]_vars => AttemptInv'
  <2> SUFFICES ASSUME attempt \in [Starts -> {0, 1}], [Next]_vars
               PROVE  attempt' \in [Starts -> {0, 1}]
    BY DEF AttemptInv
  <2>1. ASSUME NEW s \in Starts, AttemptBegins(s)
        PROVE  attempt' \in [Starts -> {0, 1}]
    <3>1. 1 - attempt[s] \in {0, 1} /\ attempt' = [attempt EXCEPT ![s] = 1 - attempt[s]]
      BY <2>1 DEF AttemptBegins
    <3> QED
      BY <3>1
  <2>2. ASSUME NEW s \in Starts, Command(s) \/ RunTask(s), ~AttemptBegins(s)
        PROVE  attempt' = attempt
    BY <2>2 DEF Command, StartArrives, StartRaises, StartAccepted, RunTask, Parked, ParkRaises,
       ResetDone, NextPass, LoopCompletes, LoopFails, Home, runVars
  <2>3. CASE Stop \/ Quiet \/ UNCHANGED vars
    BY <2>3 DEF Stop, Quiet, vars, runVars
  <2> QED
    BY <2>1, <2>2, <2>3 DEF Next
<1> QED
  BY <1>1, <1>2, PTL DEF Spec

\* A run that a stop found at work starts nothing more: every place where it
\* could go on looks at the flag, and nobody clears the flag before it is home
\* but a start that is accepted beside it (_handle_start, _handle_stop, _run).
THEOREM NothingAfterStop == Spec => NoWorkAfterStop
<1> DEFINE Unmoved == ~overlap => \A s \in stopAsked :
               attempt'[s] = attempt[s] /\ loopIndex'[s] = loopIndex[s]
<1>1. CondInv /\ AttemptInv /\ [Next]_vars => [Unmoved]_vars
  <2> SUFFICES ASSUME AloneInv, attempt \in [Starts -> {0, 1}], [Next]_vars,
                      NEW s \in stopAsked
               PROVE  attempt'[s] = attempt[s] /\ loopIndex'[s] = loopIndex[s]
    BY DEF AttemptInv, CondInv
  <2> USE DEF AloneInv
  <2>1. s \in Starts /\ (runPc[s] \in Working => cancel = TRUE)
    BY DEF TypeInv, SoloInv, CancelInv
  <2>2. ASSUME NEW t \in Starts, AttemptBegins(t)
        PROVE  attempt'[s] = attempt[s] /\ loopIndex'[s] = loopIndex[s]
    <3>1. /\ runPc[t] \in Working /\ ~cancel /\ UNCHANGED loopIndex
          /\ attempt' = [attempt EXCEPT ![t] = 1 - attempt[t]]
      BY <2>2 DEF AttemptBegins, Working
    <3>2. t # s
      BY <2>1, <3>1
    <3> QED
      BY <2>1, <3>1, <3>2
  <2>3. ASSUME NEW t \in Starts, LoopCompletes(t) \/ LoopFails(t)
        PROVE  attempt'[s] = attempt[s] /\ loopIndex'[s] = loopIndex[s]
    <3>1. UNCHANGED attempt
      BY <2>3 DEF LoopCompletes, LoopFails
    <3>2. t # s => loopIndex'[s] = loopIndex[s]
      BY <2>1, <2>3, LoopStep
    <3>3. runPc[t] \in Working
      BY <2>3, LoopStep
    <3>4. CASE NextLoop(t) /\ ~cancel
      BY <2>1, <3>1, <3>2, <3>3, <3>4
    <3>5. CASE Finish(t, EndOfRun) \/ Finish(t, "failed")
      BY <3>1, <3>5 DEF Finish
    <3> QED
      BY <2>3, <3>4, <3>5, LoopCompletesFacts, LoopFailsFacts
  <2>4. ASSUME NEW t \in Starts, Command(t) \/ RunTask(t),
               ~AttemptBegins(t), ~LoopCompletes(t), ~LoopFails(t)
        PROVE  UNCHANGED <<attempt, loopIndex>>
    BY <2>4, QuietRunStep DEF Command, StartArrives, StartRaises, StartAccepted, RunTask, Parked,
       ParkRaises, ResetDone, NextPass, Home, runVars
  <2>5. CASE Stop \/ Quiet \/ UNCHANGED vars
    BY <2>5 DEF Stop, Quiet, vars, runVars
  <2> QED
    BY <2>2, <2>3, <2>4, <2>5 DEF Next
<1> QED
  BY <1>1, SpecCondInv, AttemptsAreTyped, PTL DEF Spec, NoWorkAfterStop

\* Seen from outside the conductor is one job at a time: a start that is
\* accepted finds nobody at work, and a run that was asked to stop ends before
\* another begins - but for a start that is accepted beside a run, until one
\* finds nobody at work again (_handle_start, _run).
THEOREM OneJobAtATime == Spec => ImplementsSortJob
<1>1. Init => Job!Init
  BY DEF Init, Job!Init, Sorters, Working
<1>2. CondInv /\ CondInv' /\ [Next]_vars => [overlap' \/ Job!Next]_(Job!vars)
  <2> SUFFICES ASSUME CondInv, AloneInv', ~overlap', [Next]_vars
               PROVE  Job!Next \/ UNCHANGED Job!vars
    BY DEF CondInv
  <2>1. CASE UNCHANGED vars \/ Quiet
    BY <2>1 DEF Quiet, vars, runVars, Job!vars, Sorters
  <2>2. CASE Stop
    <3>1. UNCHANGED Sorters /\ state' = IF state = "running" THEN "stopping" ELSE state
      BY <2>2 DEF Stop, runVars, Sorters
    <3> QED
      BY <3>1 DEF Job!Next, Job!AskStop, Job!vars
  <2>3. ASSUME NEW s \in Starts, StartArrives(s) \/ StartRaises(s)
        PROVE  UNCHANGED Job!vars
    BY <2>3 DEF StartArrives, StartRaises, runVars, Job!vars, Sorters
  <2>4. ASSUME NEW s \in Starts, StartAccepted(s)
        PROVE  Job!Begin(s)
    <3>1. state' = "running" /\ runPc' = [runPc EXCEPT ![s] = "park"]
      BY <2>4 DEF StartAccepted
    <3>2. state \notin Busy /\ Sorters = {}
      <4>1. Sorters = {}
        BY <2>4 DEF StartAccepted, CondInv, AloneInv, SoloInv, CheckInv
      <4> QED
        BY <4>1 DEF CondInv, BaseInv, Sorters
    <3>3. Sorters' = {s}
      BY <3>1, <3>2 DEF CondInv, TypeInv, Sorters, Working
    <3> QED
      BY <3>1, <3>2, <3>3 DEF Job!Begin, Busy
  <2>5. ASSUME NEW s \in Starts, RunTask(s)
        PROVE  Job!End(s) \/ UNCHANGED Job!vars
    <3>0. /\ AloneInv /\ TypeInv
          /\ \A t \in Starts : t # s => runPc'[t] = runPc[t]
      BY <2>5, RunAtWork DEF CondInv, AloneInv
    <3>1. CASE UNCHANGED state /\ (runPc[s] \in Working <=> runPc'[s] \in Working)
      <4>1. UNCHANGED Sorters
        BY <3>0, <3>1 DEF Sorters
      <4> QED
        BY <3>1, <4>1 DEF Job!vars
    <3>2. CASE /\ runPc[s] \in Working /\ runPc'[s] = "home"
               /\ state' \in {"idle", "complete", "failed"}
      <4>1. Sorters = {s}
        BY <3>0, <3>2 DEF Sorters, AloneInv, SoloInv, OwnerInv
      <4>2. Sorters' = {}
        BY <3>0, <3>2, <4>1 DEF Sorters, Working
      <4> QED
        BY <3>2, <4>1, <4>2 DEF Job!End
    <3> QED
      BY <2>5, <3>0, <3>1, <3>2, RunAtWork DEF Working
  <2> QED
    BY <2>1, <2>2, <2>3, <2>4, <2>5 DEF Next, Command, Job!Next
<1> QED
  BY <1>1, <1>2, SpecCondInv, PTL DEF Spec, ImplementsSortJob
-----------------------------------------------------------------------------
(***************************************************************************)
(* The sensor.  A reply is a window of the log as it once was: a run of    *)
(* consecutive records that begins no later than the log does now.  So     *)
(* what of it is above the mark is its end, and follows on what was        *)
(* emitted before without a gap.                                           *)
(***************************************************************************)
\* The records of r are numbered on from b.
NumberedFrom(r, b) == \A i \in DOMAIN r : r[i].id = b + i

\* A reply that is still on its way, while the log is l and the newest record n.
Answer(r, l, n) ==
    /\ r \in Seq(Records)
    /\ \E b \in Int : NumberedFrom(r, b) /\ b + Len(r) <= n /\ b <= n - Len(l)
    /\ \A i \in DOMAIN r, j \in DOMAIN l : r[i].id = l[j].id => r[i] = l[j]

\* The records of e come in order, up to the mark m.
InOrderTo(e, m) ==
    /\ \A i \in DOMAIN e : e[i].id <= m
    /\ \A i, j \in DOMAIN e : i < j => e[i].id < e[j].id
    /\ e # <<>> => m = Last(e).id

SensorInv ==
    /\ TypeInv /\ LogIsWindow
    /\ DOMAIN reply = Pollers
    /\ \A p \in Pollers : reply[p] = NoReply \/ Answer(reply[p], log, nextId)
    /\ mark \in Int /\ mark <= nextId
    /\ emitted \in Seq(Records) /\ InOrderTo(emitted, mark)
    /\ NothingJumpedOver

\* Of a sequence without its first m places, a filter leaves what it is.
LEMMA KeptEnd ==
    ASSUME NEW s, NEW m \in Nat, NEW n \in Nat, m <= n
    PROVE  /\ Kept(s, (m + 1)..n) = [k \in 1..(n - m) |-> s[k + m]]
           /\ n - m \in Nat
<1> DEFINE K == (m + 1)..n
<1>1. n - m \in Nat /\ Cardinality(K) = n - m
  <2>1. m + 1 \in Int /\ n \in Int
    OBVIOUS
  <2>2. Cardinality(K) = IF m + 1 > n THEN 0 ELSE n - (m + 1) + 1
    BY <2>1, FS_Interval
  <2> HIDE DEF K
  <2> QED
    BY <2>2
<1>2. ASSUME NEW i \in K
      PROVE  Cardinality({j \in K : j <= i}) = i - m
  <2>1. {j \in K : j <= i} = (m + 1)..i /\ i \in Int
    OBVIOUS
  <2>2. Cardinality((m + 1)..i) = i - m
    BY <2>1, FS_Interval
  <2> QED
    BY <2>1, <2>2
<1>3. ASSUME NEW k \in 1..(n - m)
      PROVE  (CHOOSE i \in K : Cardinality({j \in K : j <= i}) = k) = k + m
  <2>1. k + m \in K /\ \A i \in K : i - m = k <=> i = k + m
    BY <1>1
  <2>2. \A i \in K : Cardinality({j \in K : j <= i}) = k <=> i = k + m
    BY <1>2, <2>1
  <2> HIDE DEF K
  <2>3. \E i \in K : Cardinality({j \in K : j <= i}) = k
    BY <2>1, <2>2
  <2> QED
    BY <2>2, <2>3
<1>4. Kept(s, K) = [k \in 1..(n - m) |-> s[k + m]]
  <2> HIDE DEF K
  <2>1. Kept(s, K) = [k \in 1..(n - m) |->
                        s[CHOOSE i \in K : Cardinality({j \in K : j <= i}) = k]]
    BY <1>1 DEF Kept
  <2> QED
    BY <1>3, <2>1
<1> QED
  BY <1>1, <1>4

\* What a capture takes of a reply: the records above the mark, which end it.
LEMMA NewRecordsFacts ==
    ASSUME NEW p, reply[p] \in Seq(Records), mark \in Int,
           NEW b \in Int, NumberedFrom(reply[p], b)
    PROVE  \E m \in 0..Len(reply[p]) :
             /\ Len(reply[p]) \in Nat
             /\ m = 0 \/ b + m <= mark
             /\ m = Len(reply[p]) \/ mark <= b + m
             /\ NewRecords(p) = [k \in 1..(Len(reply[p]) - m) |-> reply[p][k + m]]
             /\ NewRecords(p) \in Seq(Records)
             /\ Len(NewRecords(p)) = Len(reply[p]) - m
             /\ NewPlaces(p) = {} <=> m = Len(reply[p])
             /\ NewPlaces(p) # {} => Newest(p) = b + Len(reply[p])
<1> DEFINE n == Len(reply[p])
           m == IF mark <= b THEN 0 ELSE IF mark >= b + n THEN n ELSE mark - b
<1>1. n \in Nat /\ DOMAIN reply[p] = 1..n
  OBVIOUS
<1>2. /\ m \in 0..n /\ m \in Nat /\ n - m \in Nat
      /\ m = 0 \/ b + m <= mark
      /\ m = n \/ mark <= b + m
      /\ \A i \in 1..n : b + i > mark <=> i > m
  BY <1>1
<1> HIDE DEF m
<1>3. NewPlaces(p) = (m + 1)..n
  <2>1. \A i \in 1..n : reply[p][i].id = b + i
    BY <1>1 DEF NumberedFrom
  <2>2. NewPlaces(p) = {i \in 1..n : b + i > mark}
    BY <1>1, <2>1 DEF NewPlaces
  <2> QED
    BY <1>1, <1>2, <2>2
<1>4. NewRecords(p) = [k \in 1..(n - m) |-> reply[p][k + m]]
  <2>1. m <= n
    BY <1>1, <1>2
  <2>2. NewRecords(p) = Kept(reply[p], (m + 1)..n)
    BY <1>3 DEF NewRecords
  <2> QED
    BY <1>1, <1>2, <2>1, <2>2, KeptEnd
<1>5. /\ NewRecords(p) \in Seq(Records) /\ Len(NewRecords(p)) = n - m
  <2>1. \A k \in 1..(n - m) : reply[p][k + m] \in Records
    BY <1>1, <1>2
  <2>2. PICK c \in Nat : c = n - m
    BY <1>2
  <2>3. /\ NewRecords(p) = [k \in 1..c |-> reply[p][k + m]]
        /\ \A k \in 1..c : reply[p][k + m] \in Records
    BY <1>4, <2>1, <2>2
  <2>4. NewRecords(p) \in Seq(Records) /\ Len(NewRecords(p)) = c
    BY <2>3
  <2> QED
    BY <2>2, <2>4
<1>6. NewPlaces(p) = {} <=> m = n
  <2>1. m # n => n \in (m + 1)..n
    BY <1>1, <1>2
  <2>2. m = n => (m + 1)..n = {}
    BY <1>1, <1>2
  <2> QED
    BY <1>3, <2>1, <2>2
<1>7. ASSUME NewPlaces(p) # {} PROVE Newest(p) = b + n
  <2>1. n \in NewPlaces(p) /\ reply[p][n].id = b + n
    <3>1. n \in (m + 1)..n /\ n \in 1..n
      BY <1>1, <1>2, <1>6, <1>7
    <3> QED
      BY <1>1, <1>3, <3>1 DEF NumberedFrom
  <2>2. \A i \in NewPlaces(p) : reply[p][i].id \in Int /\ reply[p][i].id <= b + n
    BY <1>1, <1>2, <1>3 DEF NumberedFrom
  <2> DEFINE Ids == {reply[p][i].id : i \in NewPlaces(p)}
  <2>3. b + n \in Ids /\ \A x \in Ids : x \in Int /\ x <= b + n
    BY <2>1, <2>2
  <2>4. Newest(p) = Max(Ids)
    BY DEF Newest
  <2> HIDE DEF Ids
  <2>5. Max(Ids) \in Ids /\ \A x \in Ids : x <= Max(Ids)
    BY <2>3 DEF Max
  <2> QED
    BY <1>1, <2>3, <2>4, <2>5
<1> QED
  BY <1>1, <1>2, <1>4, <1>5, <1>6, <1>7

\* What follows on what was emitted keeps it in order, and loses nothing of it.
LEMMA FollowsOn ==
    ASSUME NEW e \in Seq(Records), NEW d \in Seq(Records), NEW m \in Int, NEW new \in Int,
           NEW x \in Int, InOrderTo(e, m), NumberedFrom(d, x),
           d = <<>> => new = m,
           d # <<>> => m <= x /\ new = x + Len(d)
    PROVE  /\ e \o d \in Seq(Records) /\ InOrderTo(e \o d, new) /\ m <= new
           /\ \A j \in DOMAIN e : \E i \in DOMAIN (e \o d) : (e \o d)[i] = e[j]
           /\ \A j \in DOMAIN d : \E i \in DOMAIN (e \o d) : (e \o d)[i] = d[j]
<1> DEFINE f == e \o d
           a == Len(e)
           c == Len(d)
<1>1. a \in Nat /\ c \in Nat /\ DOMAIN e = 1..a /\ DOMAIN d = 1..c
  OBVIOUS
<1>2. f \in Seq(Records) /\ Len(f) = a + c /\ DOMAIN f = 1..(a + c)
  BY ConcatProperties
<1>3. \A i \in 1..a : f[i] = e[i]
  BY <1>1, ConcatProperties
<1>4. \A i \in 1..c : a + i \in 1..(a + c) /\ f[a + i] = d[i]
  <2> TAKE i \in 1..c
  <2>1. a + i \in 1..(a + c) /\ ~(a + i <= a) /\ a + i - a = i
    BY <1>1
  <2> QED
    BY <1>1, <2>1, ConcatProperties
<1>5. ASSUME NEW j \in 1..(a + c), j \notin 1..a
      PROVE  \E i \in 1..c : j = a + i
  <2>1. j - a \in 1..c /\ j = a + (j - a)
    BY <1>1, <1>5
  <2> QED
    BY <2>1
<1>6. \A i \in 1..c : d[i].id = x + i
  BY <1>1 DEF NumberedFrom
<1>7. \A i \in 1..a : e[i].id \in Int /\ e[i].id <= m
  <2>1. \A i \in 1..a : e[i] \in Records
    BY <1>1
  <2> QED
    BY <1>1, <2>1 DEF InOrderTo, Records
<1>8. c = 0 <=> d = <<>>
  BY <1>1
<1>9. m <= new
  BY <1>1, <1>8
<1> HIDE DEF f, a, c
<1>10. ASSUME NEW i \in 1..(a + c)
       PROVE  f[i].id \in Int /\ f[i].id <= new
  <2>1. CASE i \in 1..a
    <3>1. f[i].id = e[i].id /\ e[i].id \in Int /\ e[i].id <= m
      BY <1>3, <1>7, <2>1
    <3> QED
      BY <1>9, <3>1
  <2>2. CASE i \notin 1..a
    <3>1. PICK k \in 1..c : i = a + k
      BY <1>5, <2>2
    <3>2. f[i].id = x + k
      BY <1>4, <1>6, <3>1
    <3>3. d # <<>> /\ c \in Nat /\ k \in Int /\ k <= c
      BY <1>1, <1>8, <3>1
    <3>4. new = x + c
      BY <3>3 DEF c
    <3> QED
      BY <3>2, <3>3, <3>4
  <2> QED
    BY <2>1, <2>2
<1>11. ASSUME NEW i \in 1..(a + c), NEW j \in 1..(a + c), i < j
       PROVE  f[i].id < f[j].id
  <2>1. CASE j \in 1..a
    <3>1. i \in 1..a
      BY <1>1, <1>11, <2>1
    <3>2. e[i].id < e[j].id
      BY <1>1, <1>11, <2>1, <3>1 DEF InOrderTo
    <3> QED
      BY <1>3, <2>1, <3>1, <3>2
  <2>2. CASE j \notin 1..a
    <3>1. PICK k \in 1..c : j = a + k
      BY <1>5, <2>2
    <3>2. f[j].id = x + k
      BY <1>4, <1>6, <3>1
    <3>0. d # <<>> /\ k \in Int /\ 1 <= k
      BY <1>1, <1>8, <3>1
    <3>3. CASE i \in 1..a
      <4>1. f[i].id = e[i].id /\ e[i].id \in Int /\ e[i].id <= m /\ m <= x
        BY <1>3, <1>7, <3>0, <3>3
      <4> QED
        BY <3>0, <3>2, <4>1
    <3>4. CASE i \notin 1..a
      <4>1. PICK l \in 1..c : i = a + l
        BY <1>5, <3>4
      <4>2. f[i].id = x + l
        BY <1>4, <1>6, <4>1
      <4> QED
        BY <1>1, <1>11, <3>1, <3>2, <4>1, <4>2
    <3> QED
      BY <3>3, <3>4
  <2> QED
    BY <2>1, <2>2
<1>12. f # <<>> => new = Last(f).id
  <2>1. Last(f) = f[a + c]
    BY <1>2 DEF Last
  <2>2. CASE c = 0
    <3>1. Last(f) = f[a] /\ Last(e) = e[a] /\ new = m
      BY <1>1, <1>8, <2>1, <2>2 DEF Last, a
    <3>2. f # <<>> => a \in 1..a /\ e # <<>>
      BY <1>1, <1>2, <2>2 DEF a
    <3> QED
      BY <1>3, <3>1, <3>2 DEF InOrderTo
  <2>3. CASE c # 0
    <3>1. c \in 1..c /\ d # <<>>
      BY <1>1, <1>8, <2>3
    <3>2. f[a + c].id = x + c
      BY <1>4, <1>6, <3>1
    <3> QED
      BY <2>1, <3>1, <3>2 DEF c
  <2> QED
    BY <2>2, <2>3
<1>13. InOrderTo(f, new)
  BY <1>2, <1>10, <1>11, <1>12 DEF InOrderTo
<1>14. \A j \in DOMAIN e : \E i \in DOMAIN f : f[i] = e[j]
  <2> TAKE j \in DOMAIN e
  <2>1. j \in 1..(a + c) /\ f[j] = e[j]
    BY <1>1, <1>3
  <2> QED
    BY <1>2, <2>1
<1>15. \A j \in DOMAIN d : \E i \in DOMAIN f : f[i] = d[j]
  BY <1>1, <1>2, <1>4
<1> QED
  BY <1>2, <1>9, <1>13, <1>14, <1>15 DEF f

\* A new record is above the mark and behind every reply.
LEMMA RecordKeepsSensorInv ==
    ASSUME SensorInv, TypeInv', NEW s \in Starts, NEW failed \in BOOLEAN, Record(s, failed),
           UNCHANGED sensorVars
    PROVE  SensorInv'
<1>0. TypeInv /\ LogIsWindow /\ UNCHANGED <<reply, mark, emitted>>
  BY DEF SensorInv, sensorVars
<1>1. PICK d \in {0, 1} :
        /\ Len(log) = Len(log') - 1 + d
        /\ \A i \in 1..(Len(log') - 1) : i + d \in DOMAIN log /\ log'[i] = log[i + d]
  BY <1>0, RecordFacts
<1>2. /\ nextId' = nextId + 1 /\ nextId \in Nat /\ LogIsWindow' /\ Len(log) \in Nat
      /\ Len(log') \in Nat \ {0} /\ log' \in Seq(Records)
  <2>1. nextId \in Nat /\ log \in Seq(Records)
    BY <1>0 DEF TypeInv
  <2> QED
    BY <1>0, <2>1, RecordFacts
<1>3. DOMAIN log' = 1..Len(log')
  <2>1. \A q \in Seq(Records) : DOMAIN q = 1..Len(q)
    OBVIOUS
  <2> QED
    BY <1>2, <2>1
<1>4. PICK len \in Nat \ {0} : len = Len(log')
  BY <1>2
<1>5. ASSUME NEW i \in DOMAIN log', log'[i].id <= nextId
      PROVE  \E j \in DOMAIN log : log'[i] = log[j]
  <2>1. CASE i = len
    <3>1. log'[i].id = nextId + 1 - len + len
      BY <1>2, <1>4, <2>1 DEF LogIsWindow
    <3> QED
      BY <1>2, <1>5, <3>1
  <2>2. CASE i # len
    <3>1. i \in 1..(len - 1)
      BY <1>3, <1>4, <2>2
    <3> QED
      BY <1>1, <1>4, <3>1
  <2> QED
    BY <2>1, <2>2
<1>6. NothingJumpedOver'
  <2> SUFFICES ASSUME NEW i \in DOMAIN log', log'[i].id <= mark
               PROVE  \E j \in DOMAIN emitted : emitted[j] = log'[i]
    BY <1>0 DEF NothingJumpedOver
  <2>1. log'[i].id <= nextId
    <3>1. log'[i] \in Records /\ mark \in Int /\ mark <= nextId
      BY <1>2 DEF SensorInv
    <3>2. log'[i].id \in Nat
      BY <3>1 DEF Records
    <3> QED
      BY <1>2, <3>1, <3>2
  <2>2. PICK j \in DOMAIN log : log'[i] = log[j]
    BY <1>5, <2>1
  <2> QED
    BY <2>2 DEF SensorInv, NothingJumpedOver
<1>7. ASSUME NEW r, Answer(r, log, nextId) PROVE Answer(r, log', nextId')
  <2>1. /\ r \in Seq(Records)
        /\ \A i \in DOMAIN r, j \in DOMAIN log : r[i].id = log[j].id => r[i] = log[j]
    BY <1>7 DEF Answer
  <2>2. PICK b \in Int : NumberedFrom(r, b) /\ b + Len(r) <= nextId /\ b <= nextId - Len(log)
    BY <1>7 DEF Answer
  <2>3. Len(r) \in Nat /\ DOMAIN r = 1..Len(r)
    BY <2>1
  <2>4. b + Len(r) <= nextId + 1 /\ b <= nextId + 1 - len
    <3>1. Len(log) = len - 1 \/ Len(log) = len
      BY <1>1, <1>4
    <3> QED
      BY <1>2, <1>4, <2>2, <2>3, <3>1
  <2>5. ASSUME NEW i \in DOMAIN r, NEW j \in DOMAIN log', r[i].id = log'[j].id
        PROVE  r[i] = log'[j]
    <3>1. r[i].id = b + i
      BY <2>2 DEF NumberedFrom
    <3>2. b + i <= nextId
      <4>1. i \in Int /\ i <= Len(r) /\ nextId \in Int
        BY <1>2, <2>3
      <4> QED
        BY <2>2, <2>3, <4>1
    <3>3. PICK k \in DOMAIN log : log'[j] = log[k]
      BY <1>5, <2>5, <3>1, <3>2
    <3> QED
      BY <2>1, <2>5, <3>3
  <2>6. \E y \in Int : NumberedFrom(r, y) /\ y + Len(r) <= nextId' /\ y <= nextId' - Len(log')
    BY <1>2, <1>4, <2>2, <2>4
  <2> QED
    BY <2>1, <2>5, <2>6 DEF Answer
<1>8. \A p \in Pollers : reply'[p] = NoReply \/ Answer(reply'[p], log', nextId')
  BY <1>0, <1>7 DEF SensorInv
<1>9. mark <= nextId + 1
  BY <1>2 DEF SensorInv
<1> QED
  BY <1>0, <1>2, <1>6, <1>8, <1>9 DEF SensorInv, NoReply

\* The conductor answers with its log.
LEMMA StatusKeepsSensorInv ==
    ASSUME SensorInv, NEW p \in Pollers, StatusAnswers(p)
    PROVE  SensorInv'
<1>1. /\ reply' = [reply EXCEPT ![p] = log] /\ UNCHANGED <<mark, emitted>>
      /\ UNCHANGED vars
  BY DEF StatusAnswers
<1>2. UNCHANGED <<nextId, log>> /\ TypeInv' /\ LogIsWindow'
  BY <1>1 DEF SensorInv, TypeInv, LogIsWindow, vars, logVars, runVars, askVars
<1>3. log \in Seq(Records) /\ nextId \in Nat
  BY DEF SensorInv, TypeInv
<1>4. PICK len \in Nat : len = Len(log) /\ DOMAIN log = 1..len
  BY <1>3
<1>5. NumberedFrom(log, nextId - len)
  BY <1>4 DEF SensorInv, LogIsWindow, NumberedFrom
<1>6. Answer(log, log, nextId)
  <2>1. /\ nextId - len \in Int /\ nextId - len + Len(log) <= nextId
        /\ nextId - len <= nextId - Len(log)
    BY <1>3, <1>4
  <2>2. ASSUME NEW i \in DOMAIN log, NEW j \in DOMAIN log, log[i].id = log[j].id
        PROVE  i = j
    <3>1. PICK b \in Int : b = nextId - len
      BY <1>3, <1>4
    <3>2. log[i].id = b + i /\ log[j].id = b + j /\ i \in Int /\ j \in Int
      BY <1>4, <1>5, <3>1 DEF NumberedFrom
    <3>3. b + i = b + j
      BY <2>2, <3>2
    <3>4. \A c, k, l \in Int : c + k = c + l => k = l
      OBVIOUS
    <3> QED
      BY <3>2, <3>3, <3>4
  <2> QED
    BY <1>3, <1>5, <2>1, <2>2 DEF Answer
<1>7. /\ DOMAIN reply' = Pollers
      /\ \A q \in Pollers : reply'[q] = NoReply \/ Answer(reply'[q], log, nextId)
  BY <1>1, <1>6 DEF SensorInv
<1> QED
  BY <1>1, <1>2, <1>7 DEF SensorInv, NothingJumpedOver, NoReply

\* A capture goes on where the last one ended, up to the newest record of its reply.
LEMMA CaptureKeepsSensorInv ==
    ASSUME SensorInv, NEW p \in Pollers, Capture(p)
    PROVE  SensorInv'
<1>1. /\ reply' = [reply EXCEPT ![p] = NoReply] /\ UNCHANGED vars
      /\ emitted' = emitted \o NewRecords(p)
      /\ mark' = IF NewPlaces(p) = {} THEN mark ELSE Newest(p)
  BY DEF Capture
<1>2. UNCHANGED <<nextId, log>> /\ TypeInv' /\ LogIsWindow'
  BY <1>1 DEF SensorInv, TypeInv, LogIsWindow, vars, logVars, runVars, askVars
<1>3. PICK r : r = reply[p]
  OBVIOUS
<1>4. Answer(r, log, nextId) /\ r \in Seq(Records)
  BY <1>3 DEF SensorInv, Capture, Answer
<1>5. PICK n \in Nat : n = Len(r) /\ DOMAIN r = 1..n
  BY <1>4
<1>6. PICK b \in Int : NumberedFrom(r, b) /\ b + n <= nextId /\ b <= nextId - Len(log)
  BY <1>4, <1>5 DEF Answer
<1>7. /\ mark \in Int /\ mark <= nextId /\ nextId \in Nat
      /\ emitted \in Seq(Records) /\ InOrderTo(emitted, mark)
  BY DEF SensorInv, TypeInv
<1>8. PICK m \in 0..n :
        /\ m = 0 \/ b + m <= mark
        /\ m = n \/ mark <= b + m
        /\ NewRecords(p) = [k \in 1..(n - m) |-> r[k + m]]
        /\ NewRecords(p) \in Seq(Records)
        /\ Len(NewRecords(p)) = n - m
        /\ NewPlaces(p) = {} <=> m = n
        /\ NewPlaces(p) # {} => Newest(p) = b + n
  BY <1>3, <1>4, <1>5, <1>6, <1>7, NewRecordsFacts
<1>9. PICK d \in Seq(Records) :
        /\ d = NewRecords(p) /\ Len(d) = n - m /\ DOMAIN d = 1..(n - m)
        /\ \A k \in 1..(n - m) : d[k] = r[k + m]
  BY <1>8
<1>10. PICK x \in Int : x = b + m
  OBVIOUS
<1>11. NumberedFrom(d, x)
  <2> SUFFICES ASSUME NEW k \in 1..(n - m) PROVE d[k].id = x + k
    BY <1>9 DEF NumberedFrom
  <2>1. k + m \in 1..n
    OBVIOUS
  <2>2. d[k] = r[k + m] /\ r[k + m].id = b + (k + m)
    BY <1>5, <1>6, <1>9, <2>1 DEF NumberedFrom
  <2> QED
    BY <1>10, <2>2
<1>12. d = <<>> <=> m = n
  <2>1. d = <<>> <=> Len(d) = 0
    OBVIOUS
  <2> QED
    BY <1>9, <2>1
<1>13. PICK new \in Int :
         /\ new = mark' /\ new <= nextId
         /\ m = n => new = mark
         /\ m # n => new = b + n
  <2>1. CASE m = n
    <3>1. mark' = mark
      BY <1>1, <1>8, <2>1
    <3> QED
      BY <1>7, <2>1, <3>1
  <2>2. CASE m # n
    <3>1. mark' = b + n /\ b + n \in Int
      BY <1>1, <1>8, <2>2
    <3> QED
      BY <1>6, <2>2, <3>1
  <2> QED
    BY <2>1, <2>2
<1>14. /\ emitted \o d \in Seq(Records) /\ InOrderTo(emitted \o d, new)
       /\ \A j \in DOMAIN emitted : \E i \in DOMAIN (emitted \o d) : (emitted \o d)[i] = emitted[j]
       /\ \A j \in DOMAIN d : \E i \in DOMAIN (emitted \o d) : (emitted \o d)[i] = d[j]
  <2>1. d = <<>> => new = mark
    BY <1>12, <1>13
  <2>2. d # <<>> => mark <= x /\ new = x + Len(d)
    BY <1>5, <1>8, <1>9, <1>10, <1>12, <1>13
  <2>3. emitted \in Seq(Records) /\ InOrderTo(emitted, mark) /\ mark \in Int
    BY <1>7
  <2> QED
    BY <1>11, <2>1, <2>2, <2>3, FollowsOn, Zenon
<1>15. emitted' = emitted \o d
  BY <1>1, <1>9
<1>16. NothingJumpedOver'
  <2> SUFFICES ASSUME NEW i \in DOMAIN log, log[i].id <= new
               PROVE  \E j \in DOMAIN (emitted \o d) : (emitted \o d)[j] = log[i]
    BY <1>2, <1>13, <1>15 DEF NothingJumpedOver
  <2>1. PICK len \in Nat : len = Len(log) /\ DOMAIN log = 1..len
    BY DEF SensorInv, TypeInv
  <2>2. log[i].id = nextId - len + i /\ log[i].id \in Int
    BY <1>7, <2>1 DEF SensorInv, LogIsWindow
  <2>3. CASE log[i].id <= mark
    BY <1>14, <2>3 DEF SensorInv, NothingJumpedOver
  <2>4. CASE ~(log[i].id <= mark)
    <3>1. m # n /\ new = b + n /\ (m = 0 \/ b + m <= mark)
      BY <1>8, <1>13, <2>4
    <3>2. PICK k \in Int : log[i].id = b + k
      <4>1. log[i].id - b \in Int /\ log[i].id = b + (log[i].id - b)
        BY <2>2
      <4> QED
        BY <4>1
    <3>3. b < log[i].id
      <4>1. i \in Int /\ i >= 1 /\ b <= nextId - len
        BY <1>6, <2>1
      <4> QED
        BY <1>7, <2>2, <4>1
    <3>4. k - m \in 1..(n - m) /\ k \in 1..n /\ k - m + m = k
      <4>1. b < b + k /\ b + k <= b + n
        BY <2>2, <3>1, <3>2, <3>3
      <4>2. m = 0 \/ m < k
        BY <1>7, <2>2, <2>4, <3>1, <3>2
      <4> QED
        BY <4>1, <4>2
    <3>5. r[k] = log[i]
      BY <1>4, <1>5, <1>6, <3>2, <3>4 DEF Answer, NumberedFrom
    <3>6. k - m \in DOMAIN d /\ d[k - m] = log[i]
      BY <1>9, <3>4, <3>5
    <3> QED
      BY <1>14, <3>6
  <2> QED
    BY <2>3, <2>4
<1>17. /\ DOMAIN reply' = Pollers
       /\ \A q \in Pollers : reply'[q] = NoReply \/ Answer(reply'[q], log, nextId)
  BY <1>1 DEF SensorInv
<1> QED
  BY <1>2, <1>13, <1>14, <1>15, <1>16, <1>17 DEF SensorInv, NoReply

\* Each loop record is emitted once and in order, and none is jumped over, however many
\* captures overlap, whichever reply comes first, and however starts race (the mark of
\* get_readings, the window of _record_loop).
THEOREM CapturesStayComplete == SensorSpec => []CapturesAreComplete
<1>1. SensorInit => SensorInv
  <2> SUFFICES ASSUME SensorInit PROVE SensorInv
    OBVIOUS
  <2>1. AloneInv /\ log = <<>> /\ nextId = 0
    BY InitAloneInv DEF SensorInit, Init, AloneInv
  <2>2. /\ reply = [p \in Pollers |-> NoReply] /\ mark = -1 /\ emitted = <<>>
    BY DEF SensorInit
  <2> QED
    BY <2>1, <2>2 DEF SensorInv, AloneInv, Truth, InOrderTo, NothingJumpedOver
<1>2. SensorInv /\ [SensorNext]_<<vars, sensorVars>> => SensorInv'
  <2> SUFFICES ASSUME SensorInv, [SensorNext]_<<vars, sensorVars>> PROVE SensorInv'
    OBVIOUS
  <2>1. CASE [Next]_vars /\ UNCHANGED sensorVars
    <3>1. /\ TypeInv' /\ LogIsWindow'
          /\ \/ UNCHANGED <<nextId, log>>
             \/ \E s \in Starts, failed \in BOOLEAN : Record(s, failed)
      BY <2>1, LogKept DEF SensorInv
    <3>2. CASE UNCHANGED <<nextId, log>>
      BY <2>1, <3>1, <3>2
         DEF SensorInv, NothingJumpedOver, sensorVars, NoReply
    <3> QED
      BY <2>1, <3>1, <3>2, RecordKeepsSensorInv
  <2>2. ASSUME NEW p \in Pollers, LiveView(p) PROVE SensorInv'
    <3>1. /\ reply' = [reply EXCEPT ![p] = NoReply] /\ UNCHANGED <<mark, emitted>>
          /\ UNCHANGED vars
      BY <2>2 DEF LiveView
    <3>2. UNCHANGED <<nextId, log>> /\ TypeInv' /\ LogIsWindow'
      BY <3>1 DEF SensorInv, TypeInv, LogIsWindow, vars, logVars, runVars, askVars
    <3>3. /\ DOMAIN reply' = Pollers
          /\ \A q \in Pollers : reply'[q] = NoReply \/ Answer(reply'[q], log, nextId)
      BY <3>1 DEF SensorInv
    <3> QED
      BY <3>1, <3>2, <3>3 DEF SensorInv, NothingJumpedOver, NoReply
  <2> QED
    BY <2>1, <2>2, StatusKeepsSensorInv, CaptureKeepsSensorInv DEF SensorNext, Reading
<1>3. SensorInv => CapturesAreComplete
  BY DEF SensorInv, CapturesAreComplete, EmittedOnceInOrder, InOrderTo
<1> QED
  BY <1>1, <1>2, <1>3, PTL DEF SensorSpec
=============================================================================
