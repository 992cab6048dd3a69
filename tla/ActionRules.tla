------------------------------ MODULE ActionRules ------------------------------
(***************************************************************************)
(* The rules ActionValidator applies to one action of a commander, for one   *)
(* coalition of one scenario, and the declarative form of its verdict on a   *)
(* batch.                                                                    *)
(*                                                                           *)
(* An action is a record whose "type" is an action_type of the catalogue, or *)
(* "malformed" for everything _parse_request refuses (an unknown type, a     *)
(* missing or ill-typed field, another coalition's name).  An entity id that *)
(* is in none of the tables is an unknown entity.  A destination stands for  *)
(* the pair (destination_type, destination_id): it is in the table that its  *)
(* type names or in none.                                                    *)
(*                                                                           *)
(* A view is what _build_context reads: the budget, the reserves that can    *)
(* still be deployed, the active-group rows and their places, the sectors of *)
(* the world-group rows, the groups whose world row shows the other side,    *)
(* and the status of the control points as the coalition sees it.            *)
(***************************************************************************)
EXTENDS Integers, SequencesExt

CONSTANTS
  Sectors,        \* sectors of the scenario
  Neighbours,     \* the adjacent sectors of a sector
  Points,         \* control points
  Zones,          \* named zones
  Site,           \* the sector a control point or zone lies in
  NoDeploy,       \* sectors of the no_deploy_zone restrictions on the coalition
  Units,          \* ids of active groups, also of those yet to be deployed
  Foreign,        \* groups and reserves of the other coalition
  Immobile,       \* groups that cannot move
  Spent,          \* groups destroyed, withdrawn or unavailable
  Reserves,       \* reserve groups
  Cost,           \* the cost of a reserve
  AllowedSectors, \* where a reserve may be deployed
  FiresReserves,  \* reserves whose type can take the role "fires"
  DeployedAs,     \* the id of the active group a reserve becomes
  None            \* no value

Places == Sectors \cup Points
Fleet  == {DeployedAs[r] : r \in Reserves}

ASSUME ScenarioAssumption ==
  /\ Neighbours \in [Sectors -> SUBSET Sectors]
  /\ Site \in [Points \cup Zones -> Sectors]
  /\ Sectors \cap (Points \cup Zones) = {}
  /\ Cost \in [Reserves -> Nat \ {0}]
  /\ DOMAIN AllowedSectors = Reserves
  /\ DeployedAs \in [Reserves -> Units]
  /\ \A r, s \in Reserves : DeployedAs[r] = DeployedAs[s] => r = s
  /\ Fleet \cap (Immobile \cup Spent) = {}
  /\ \A r \in Reserves : DeployedAs[r] \in Foreign <=> r \in Foreign
  /\ None \notin Places

SectorOf(place) == IF place \in Sectors THEN place ELSE Site[place]

\* _resolve_destination of the engine: a zone stands for its sector, a control
\* point is kept.
PlaceOf(to) == IF to \in Zones THEN Site[to] ELSE to

\* The groups an action gives orders to.
Movements == {"reposition", "withdraw"}
Commanded(a) ==
  CASE a.type \in Movements \cup {"posture"} -> {a.group}
    [] a.type = "reinforce" -> ToSet(a.groups)
    [] a.type = "hold" -> IF a.scope = "group" THEN {a.at} ELSE {}
    [] OTHER -> {}

\* group_ids without its duplicates, in order of first occurrence.
Normalised(a) ==
  IF a.type # "reinforce" THEN a
  ELSE [a EXCEPT !.groups =
          FoldLeft(LAMBDA kept, g :
                     IF g \in ToSet(kept) THEN kept ELSE Append(kept, g),
                   <<>>, a.groups)]

-------------------------------------------------------------------------------
(* The stages of _validate_one, in the order in which they are tried. *)

Owned(u, v) == u \in v.rows \ (Foreign \cup v.hostile)

CoalitionStage(a, v) ==
  /\ a.type = "deploy" => a.reserve \in Reserves \ Foreign
  /\ a.type = "reinforce" =>
       a.point \in Points /\ v.shown[a.point] \in {"friendly", "contested"}
  /\ \A u \in Commanded(a) : Owned(u, v)

\* A move is checked from the sector of the world row, or of the active row if
\* that has none; a group that is nowhere reaches every sector.
Reaches(u, sector, v) ==
  LET from == IF v.world[u] # None THEN v.world[u]
              ELSE IF v.place[u] # None THEN SectorOf(v.place[u]) ELSE None
  IN  from = None \/ from = sector \/ sector \in Neighbours[from]

MutScenarioStageTrustsTheAllowance(a, v) ==
  /\ a.type = "priority" => a.sector \in Sectors
  /\ a.type = "hold" /\ a.scope = "sector" => a.at \in Sectors
  /\ a.type = "deploy" =>
       /\ a.sector \in AllowedSectors[a.reserve] \ NoDeploy
       /\ a.role = "fires" => a.reserve \in FiresReserves
  /\ a.type \in Movements =>
       /\ a.to \in Places \cup Zones
       /\ Reaches(a.group, SectorOf(a.to), v)
       /\ SectorOf(a.to) \notin NoDeploy
  /\ a.type = "reinforce" =>
       \A u \in Commanded(a) : Reaches(u, Site[a.point], v)

ScenarioStage(a, v) ==
  /\ a.type = "priority" => a.sector \in Sectors
  /\ a.type = "hold" /\ a.scope = "sector" => a.at \in Sectors
  /\ a.type = "deploy" =>
       /\ a.sector \in Sectors
       /\ a.sector \in AllowedSectors[a.reserve] \ NoDeploy
       /\ a.role = "fires" => a.reserve \in FiresReserves
  /\ a.type \in Movements =>
       /\ a.to \in Places \cup Zones
       /\ Reaches(a.group, SectorOf(a.to), v)
       /\ SectorOf(a.to) \notin NoDeploy
  /\ a.type = "reinforce" =>
       \A u \in Commanded(a) : Reaches(u, Site[a.point], v)

ResourceStage(a, v) ==
  /\ a.type = "deploy" => a.reserve \in v.reserves /\ v.budget >= Cost[a.reserve]
  /\ a.type \in Movements \cup {"posture", "reinforce"} =>
       Commanded(a) \cap Spent = {}

ReadinessStage(a, v) ==
  /\ a.type \in Movements => a.group \notin Immobile
  /\ a.type = "reinforce" =>
       \A u \in Commanded(a) \cap Immobile : v.place[u] = a.point

Passes(a, v) ==
  /\ a.type # "malformed"
  /\ CoalitionStage(a, v)
  /\ ScenarioStage(a, v)
  /\ ResourceStage(a, v)
  /\ ReadinessStage(a, v)

-------------------------------------------------------------------------------
(* What a batch may not hold, whatever the order of its actions. *)

Moved(a) == IF a.type \in Movements THEN {a.group} ELSE {}

Clash(a, b) ==
  \/ /\ a.type = "deploy" /\ b.type = "deploy"
     /\ a.reserve = b.reserve
  \/ /\ a.type = "priority" /\ b.type = "priority"
     /\ a.sector = b.sector /\ a.level # b.level
  \/ /\ {a.type, b.type} \subseteq Movements \cup {"reinforce", "posture"}
     /\ \/ Moved(a) \cap Commanded(b) # {}
        \/ Moved(b) \cap Commanded(a) # {}
  \/ /\ a.type = "reinforce" /\ b.type = "reinforce"
     /\ Commanded(a) \cap Commanded(b) # {}

\* The actions of batch b, by position, that the validator accepts on view v:
\* those that pass on their own and clash with no accepted action before them.
IsAccepted(S, b, v) ==
  S = {i \in DOMAIN b : /\ Passes(b[i], v)
                        /\ \A j \in S : j < i => ~Clash(b[j], b[i])}

\* The look-ups of _build_execution_plan that raise when an entity is missing.
Buildable(a, v) ==
  /\ a.type = "deploy" => a.reserve \in Reserves /\ a.sector \in Sectors
  /\ a.type \in Movements => a.to \in Places \cup Zones
  /\ a.type = "reinforce" => a.point \in Points
  /\ a.type \in Movements \cup {"posture", "reinforce"} => Commanded(a) \subseteq v.rows
===============================================================================
