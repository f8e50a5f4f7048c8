----------------------------- MODULE MCGrippers ------------------------------
(* The arm carries one of the two grippers, Jaw with two calls or Vacuum; the *)
(* other is not in the scene.  An object stops the jaw at one of two angles,  *)
(* and may give way from the first to the second.  Two boxes may come under   *)
(* the cups; no step tells them apart, so b2 is never the first.              *)
EXTENDS Jaw, Vacuum

CONSTANTS b1, b2

OnTheWay == {1, 2}

VARIABLE carries

GripperVars == <<carries, jawVars, vars>>

GripperInit ==
    /\ carries \in {"jaw", "vacuum"}
    /\ JawInit /\ Init
    /\ carries = "jaw" => under = NoBox
    /\ carries = "vacuum" =>
          /\ block = None /\ \A c \in Callers : op[c] = "open"
          /\ under \in {b1, NoBox}

GripperNext ==
    \/ carries = "jaw" /\ JawNext /\ UNCHANGED <<carries, vars>>
    \/ carries = "vacuum" /\ Next /\ UNCHANGED <<carries, jawVars>>

\* The fairness of JawFairSpec and of FairSpec; of the gripper that is not
\* there no step is enabled.
GripperSpec ==
    /\ GripperInit /\ [][GripperNext]_GripperVars
    /\ \A c \in Callers : WF_jawVars(Serves(c)) /\ WF_jawVars(Expires(c))
    /\ WF_vars(RunTask) /\ WF_vars(PhysicsStep)
=============================================================================
