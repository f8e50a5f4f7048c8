----------------------------- MODULE MCRegistry -----------------------------
EXTENDS Registry, TLC

\* One arm, which both grippers ride.
CONSTANTS arm, jaw, cup
MCArmOf == (jaw :> arm) @@ (cup :> arm)
=============================================================================
