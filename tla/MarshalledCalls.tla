--------------------------- MODULE MarshalledCalls ---------------------------
(***************************************************************************)
(* What SimManager.run promises, without a queue, a gate or a boot: a call *)
(* is refused without effect, or its task is submitted; tasks run one at a *)
(* time; the caller is answered with what its task did, or gives up.  A    *)
(* caller that gives up on a task that has not started takes it back, so   *)
(* no task starts whose caller is gone.                                    *)
(***************************************************************************)
CONSTANT Calls

VARIABLES
    task,       \* what became of each call's task
    answer      \* what each caller was told

vars == <<task, answer>>

Tasks   == {"none", "submitted", "running", "done", "withdrawn"}
Init ==
    /\ task = [c \in Calls |-> "none"]
    /\ answer = [c \in Calls |-> "open"]

Idle == \A c \in Calls : task[c] # "running"

Refuse(c) ==
    /\ answer[c] = "open" /\ task[c] = "none"
    /\ answer' = [answer EXCEPT ![c] = "refused"]
    /\ UNCHANGED task

Submit(c) ==
    /\ answer[c] = "open" /\ task[c] = "none"
    /\ task' = [task EXCEPT ![c] = "submitted"]
    /\ UNCHANGED answer

Start(c) ==
    /\ answer[c] = "open" /\ task[c] = "submitted"
    /\ Idle
    /\ task' = [task EXCEPT ![c] = "running"]
    /\ UNCHANGED answer

Finish(c) ==
    /\ task[c] = "running"
    /\ task' = [task EXCEPT ![c] = "done"]
    /\ UNCHANGED answer

Answer(c) ==
    /\ answer[c] = "open" /\ task[c] = "done"
    /\ answer' = [answer EXCEPT ![c] = "kept"]
    /\ UNCHANGED task

GiveUp(c) ==
    /\ answer[c] = "open" /\ task[c] # "none"
    /\ answer' = [answer EXCEPT ![c] = "timeout"]
    /\ task' = [task EXCEPT ![c] = IF @ = "submitted" THEN "withdrawn" ELSE @]

\* A call a running task makes itself is part of that task.
Nested(c) ==
    /\ answer[c] = "open" /\ task[c] = "none"
    /\ ~Idle
    /\ task' = [task EXCEPT ![c] = "done"]
    /\ answer' = [answer EXCEPT ![c] = "kept"]

Next == \E c \in Calls :
    \/ Refuse(c) \/ Submit(c) \/ Start(c) \/ Finish(c)
    \/ Answer(c) \/ GiveUp(c) \/ Nested(c)

Spec == Init /\ [][Next]_vars
=============================================================================
