-------------------------------- MODULE MCPick --------------------------------
(* Pick, and the loop around it, with three blocks, two of one colour. *)
EXTENDS Pick, TLC

CONSTANTS b1, b2, b3, red, blue

\* Both detectors fire on blue, as the yellow one and the orange one do.
BothOnBlue == red :> {red} @@ blue :> {red, blue}

TwoColors == b1 :> red @@ b2 :> red @@ b3 :> blue
=============================================================================
