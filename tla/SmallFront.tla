------------------------------ MODULE SmallFront -------------------------------
(***************************************************************************)
(* A scenario small enough for TLC: three sectors in a line, the last one    *)
(* closed to the coalition; a control point in each of the first two; two    *)
(* mobile groups, a battery that cannot move and a group of the other side;  *)
(* two reserves, one of which is also allowed into a sector that is not on   *)
(* the map.                                                                  *)
(***************************************************************************)
EXTENDS Integers

FrontSectors    == {"west", "mid", "east"}
FrontNeighbours == [west |-> {"mid"}, mid |-> {"west", "east"}, east |-> {"mid"}]
FrontPoints     == {"depot", "bridge"}
FrontZones      == {"ridge"}
FrontSite       == [depot |-> "west", bridge |-> "mid", ridge |-> "mid"]
FrontNoDeploy   == {"east"}
FrontUnits      == {"armor", "scouts", "battery", "foe", "lost", "fresh1", "fresh2"}
FrontForeign    == {"foe"}
FrontImmobile   == {"battery"}
FrontSpent      == {"lost"}
FrontReserves   == {"res1", "res2"}
FrontCost       == [res1 |-> 2, res2 |-> 3]
FrontAllowed    == [res1 |-> {"west", "mid", "nowhere"}, res2 |-> {"west", "east"}]
FrontFires      == {"res2"}
FrontDeployedAs == [res1 |-> "fresh1", res2 |-> "fresh2"]
===============================================================================
