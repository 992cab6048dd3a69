------------------------------ MODULE MCFogOfWar ------------------------------
\* One group of each coalition in two neighbouring sectors; the scenario places
\* the red one only.  Olympus and the stream may each fail, and the stream may
\* repeat a record after it reconnects.
EXTENDS FogOfWar, TLC

CONSTANTS rg, bg, s1, s2

MCSideOf == rg :> "red" @@ bg :> "blue"
MCHome   == rg :> s1 @@ bg :> None
MCDrift  == s1 :> s2 @@ s2 :> s1

MCSnapshots == {<<>>, rg :> s1 @@ bg :> s2}

Sees(c, g, side, s) == [group |-> g, seer |-> c, side |-> side, sector |-> s]

RedSeesBlue == Sees("red", bg, "blue", s1)
BlueSeesRed == Sees("blue", rg, None, s2)

MCOrders == {[group |-> rg, sector |-> s2]}

MCStreams == {<<>>, <<RedSeesBlue>>, <<RedSeesBlue, RedSeesBlue>>, <<BlueSeesRed>>}
===============================================================================
