------------------------------- MODULE SortJob -------------------------------
(***************************************************************************)
(* What the conductor promises about its background run, without loops,    *)
(* passes or records: one run sorts at a time, a start that meets a busy   *)
(* conductor changes nothing, and a run that is asked to stop never        *)
(* becomes busy again before it has ended.                                 *)
(***************************************************************************)
CONSTANT Starts

VARIABLES
    phase,      \* "ready", "busy" or "stopping"
    sorters     \* the runs that may move blocks

vars == <<phase, sorters>>

Init == phase = "ready" /\ sorters = {}

Begin(s) ==
    /\ phase = "ready"
    /\ sorters = {}
    /\ phase' = "busy"
    /\ sorters' = {s}

AskStop ==
    /\ phase = "busy"
    /\ phase' = "stopping"
    /\ UNCHANGED sorters

End(s) ==
    /\ sorters = {s}
    /\ phase' = "ready"
    /\ sorters' = {}

Next == AskStop \/ \E s \in Starts : Begin(s) \/ End(s)

Spec == Init /\ [][Next]_vars
=============================================================================
