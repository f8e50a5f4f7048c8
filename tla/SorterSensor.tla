----------------------------- MODULE SorterSensor -----------------------------
(***************************************************************************)
(* The sorter-sensor (src/isaac_module/models/sorter_sensor.py) beside the *)
(* conductor: every reading asks the conductor for its status, and a       *)
(* reading for data capture emits the loop records above the mark and      *)
(* moves the mark.  Status answers in one step of the conductor, but the   *)
(* reply travels: readings may overlap and their replies may overtake each *)
(* other.                                                                  *)
(***************************************************************************)
EXTENDS Conductor, Filter

CONSTANTS
    Pollers,    \* the callers of get_readings; each asks again and again
    Capturing   \* those that ask on behalf of data management

ASSUME SensorAssumption == Capturing \subseteq Pollers

VARIABLES
    reply,      \* the records in the reply each poller waits for, or NoReply
    mark,       \* _last_emitted_record_id
    emitted     \* the records emitted for capture, in that order (history)

sensorVars == <<reply, mark, emitted>>

NoReply == <<NoRun>>

SensorInit ==
    /\ Init
    /\ reply = [p \in Pollers |-> NoReply]
    /\ mark = -1
    /\ emitted = <<>>

-----------------------------------------------------------------------------
\* The conductor answers the status command of a reading.
StatusAnswers(p) ==
    /\ reply[p] = NoReply
    /\ reply' = [reply EXCEPT ![p] = log]
    /\ UNCHANGED <<vars, mark, emitted>>

\* Where the records above the mark are in the reply, and what they are.
NewPlaces(p)  == {i \in DOMAIN reply[p] : reply[p][i].id > mark}
NewRecords(p) == Kept(reply[p], NewPlaces(p))

Newest(p) == Max({reply[p][i].id : i \in NewPlaces(p)})

\* Seeded fault: a live view moves the mark as well.
LiveViewConsumes(p) ==
    /\ reply[p] # NoReply
    /\ p \notin Capturing
    /\ mark' = IF NewPlaces(p) = {} THEN mark ELSE Newest(p)
    /\ reply' = [reply EXCEPT ![p] = NoReply]
    /\ UNCHANGED <<vars, emitted>>

\* get_readings for any other caller: a snapshot, the mark stays.
LiveView(p) ==
    /\ reply[p] # NoReply
    /\ p \notin Capturing
    /\ reply' = [reply EXCEPT ![p] = NoReply]
    /\ UNCHANGED <<vars, mark, emitted>>

\* Seeded fault: of several new records only the newest is emitted.
CaptureTakesNewest(p) ==
    /\ reply[p] # NoReply
    /\ p \in Capturing
    /\ reply' = [reply EXCEPT ![p] = NoReply]
    /\ IF NewPlaces(p) = {}
         THEN UNCHANGED <<mark, emitted>>
         ELSE /\ emitted' = Append(emitted, Last(NewRecords(p)))
              /\ mark' = Newest(p)
    /\ UNCHANGED vars

\* get_readings for data capture: the new records, or NoCaptureToStoreError.
Capture(p) ==
    /\ reply[p] # NoReply
    /\ p \in Capturing
    /\ reply' = [reply EXCEPT ![p] = NoReply]
    /\ emitted' = emitted \o NewRecords(p)
    /\ mark' = IF NewPlaces(p) = {} THEN mark ELSE Newest(p)
    /\ UNCHANGED vars

Reading(p) == StatusAnswers(p) \/ LiveView(p) \/ Capture(p)

SensorNext ==
    \/ Next /\ UNCHANGED sensorVars
    \/ \E p \in Pollers : Reading(p)

SensorSpec == SensorInit /\ [][SensorNext]_<<vars, sensorVars>>

\* The data manager captures periodically, and replies arrive.
SensorFairSpec ==
    /\ SensorSpec
    /\ \A p \in Capturing : WF_<<vars, sensorVars>>(Reading(p))

-----------------------------------------------------------------------------
\* Each loop record is emitted at most once and in the order the loops ended,
\* however many captures overlap and whichever reply comes first.
EmittedOnceInOrder ==
    /\ \A i, j \in DOMAIN emitted : i < j => emitted[i].id < emitted[j].id
    /\ emitted # <<>> => mark = Last(emitted).id

\* No record is jumped over: what the log still holds at or below the mark was
\* emitted, whatever live views and late replies came between.
NothingJumpedOver == \A i \in DOMAIN log :
    log[i].id <= mark => \E j \in DOMAIN emitted : emitted[j] = log[i]

\* Captures take every record once, in order, and none is jumped over.
CapturesAreComplete == EmittedOnceInOrder /\ NothingJumpedOver

\* With captures coming periodically a record is emitted, unless the window
\* has moved past it first.
RecordsAreEmitted == \A id \in 1..MaxRecords :
    nextId >= id ~>
        \/ \E i \in DOMAIN emitted : emitted[i].id = id
        \/ \A i \in DOMAIN log : log[i].id > id
=============================================================================
