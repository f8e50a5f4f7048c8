------------------------------- MODULE MCArm -------------------------------
EXTENDS Arm

CONSTANTS m1, m2

\* A waypoint far enough for two more to be put before it, or a near one for a
\* move that another may overlap; and one that is out of reach.
SomePaths == m1 :> {<<0, 3>>, <<2>>} @@ m2 :> {<<1>>, <<4>>}
=============================================================================
