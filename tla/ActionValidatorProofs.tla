-------------------------- MODULE ActionValidatorProofs ------------------------
(***************************************************************************)
(* Proofs about the validation of a batch, for any scenario, any context and *)
(* batches of any length.                                                    *)
(*                                                                           *)
(* The inductive invariant says that the four tables of claims hold exactly  *)
(* what the accepted actions so far claim.                                   *)
(***************************************************************************)
EXTENDS ActionValidator, WellFoundedInduction, TLAPS

\* The groups an action gives orders to, by its type.
LEMMA CommandedTable ==
  ASSUME NEW a
  PROVE  /\ a.type \in {"reposition", "withdraw", "posture"} => Commanded(a) = {a.group}
         /\ a.type = "reinforce" => Commanded(a) = ToSet(a.groups)
         /\ a.type \notin {"reposition", "withdraw", "posture", "reinforce", "hold"}
              => Commanded(a) = {}
BY Zenon DEF Commanded, Movements

\* The four kinds of conflict are symmetric.
LEMMA ClashIsSymmetric ==
  ASSUME NEW a, NEW b
  PROVE  Clash(a, b) <=> Clash(b, a)
BY DEF Clash

\* An action that passes all stages names only what the engine will find, and
\* gives orders only to groups of the coalition.
LEMMA PassingIsBuildable ==
  ASSUME NEW a, NEW v, Passes(a, v)
  PROVE  Buildable(a, v) /\ \A u \in Commanded(a) : Owned(u, v)
<1>1. \A u \in Commanded(a) : Owned(u, v) /\ u \in v.rows
  BY DEF Passes, CoalitionStage, Owned
<1>2. a.type = "deploy" => a.reserve \in Reserves /\ a.sector \in Sectors
  BY DEF Passes, CoalitionStage, ScenarioStage
<1>3. a.type \in Movements => a.to \in Places \cup Zones
  BY DEF Passes, ScenarioStage
<1>4. a.type = "reinforce" => a.point \in Points
  BY DEF Passes, CoalitionStage
<1> QED
  BY <1>1, <1>2, <1>3, <1>4 DEF Buildable

\* The statuses the walk has not reached are those of the first pass.
FirstPass ==
  \A i \in DOMAIN batch :
    /\ phase = "judge" /\ i < pos => status[i] = Judged(batch[i], view)
    /\ phase # "judge" /\ i >= pos => status[i] = Judged(batch[i], view)

\* Every accepted action passes the stages; every rejected one fails them or
\* clashes with an accepted action before it.
Grounded ==
  phase # "judge" =>
    \A i \in DOMAIN batch :
      /\ status[i] # "rejected" => Passes(batch[i], view)
      /\ (i < pos /\ status[i] = "rejected") =>
           \/ ~Passes(batch[i], view)
           \/ \E j \in Standing : j < i /\ Clash(batch[j], batch[i])

\* The accepted actions so far of the given types.
StandingOf(types) == {i \in Standing : batch[i].type \in types}

Claiming == Movements \cup {"reinforce"}

\* The verdict is returned when every action has been walked over.
WalkEnds == phase = "done" => \A i \in DOMAIN batch : i < pos

ReservesExact ==
  seenReserves = {batch[i].reserve : i \in StandingOf({"deploy"})}

PrioritiesExact ==
  /\ \A i \in StandingOf({"priority"}) : priorities[batch[i].sector] = batch[i].level
  /\ \A s \in Sectors : priorities[s] # None =>
       \E i \in StandingOf({"priority"}) : batch[i].sector = s

MovementsExact ==
  /\ \A i \in StandingOf(Claiming) : \A u \in Commanded(batch[i]) :
       movementClaims[u] = batch[i].type
  /\ \A u \in Units : movementClaims[u] # None =>
       \E i \in StandingOf(Claiming) :
         u \in Commanded(batch[i]) /\ batch[i].type = movementClaims[u]

PosturesExact ==
  postureClaims = {batch[i].group : i \in StandingOf({"posture"})}

ValidatorInv ==
  /\ TypeOK
  /\ view \in Views /\ batch \in Batches
  /\ FirstPass
  /\ Grounded
  /\ WalkEnds
  /\ ReservesExact
  /\ PrioritiesExact
  /\ MovementsExact
  /\ PosturesExact
  /\ AcceptedAreCoherent

-------------------------------------------------------------------------------
\* A batch is a sequence of actions of the menu.
LEMMA BatchesAreSequences ==
  ASSUME NEW b \in Batches
  PROVE  /\ b \in Seq(Menu)
         /\ Len(b) \in Nat /\ DOMAIN b = 1..Len(b)
         /\ \A i \in DOMAIN b : b[i] \in Menu
<1>1. PICK n \in 0..MaxBatch : b \in [1..n -> Menu]
  BY DEF Batches
<1>2. n \in Nat
  BY <1>1, ValidatorAssumption
<1>3. b \in Seq(Menu)
  BY <1>1, <1>2
<1> QED
  BY <1>3

\* The first pass accepts, wholly or in part, what passes the stages.
LEMMA JudgedAccepts ==
  ASSUME NEW a, NEW v
  PROVE  /\ Judged(a, v) \in Statuses
         /\ Judged(a, v) # "rejected" <=> Passes(a, v)
BY DEF Judged, Statuses

\* The entities of a passing action are in the domains of the tables of claims.
LEMMA PassingIsInDomain ==
  ASSUME NEW a, NEW v \in Views, Passes(a, v)
  PROVE  /\ a.type = "deploy" => a.reserve \in Reserves
         /\ a.type = "priority" => a.sector \in Sectors
         /\ Commanded(a) \subseteq Units
<1>1. \A u \in Commanded(a) : u \in v.rows
  BY DEF Passes, CoalitionStage, Owned
<1>2. v.rows \subseteq Units
  BY ValidatorAssumption
<1> QED
  BY <1>1, <1>2 DEF Passes, CoalitionStage, ScenarioStage

\* Before the walk no action stands and nothing is claimed.
LEMMA InitIsExact == Init => ValidatorInv
<1> SUFFICES ASSUME Init PROVE ValidatorInv
  OBVIOUS
<1>1. /\ Len(batch) \in Nat /\ DOMAIN batch = 1..Len(batch)
      /\ batch \in Batches
  BY BatchesAreSequences DEF Init
<1>2. Standing = {}
  BY DEF Init, Standing, Walked
<1>3. TypeOK
  BY <1>1 DEF Init, TypeOK, Statuses
<1>4. FirstPass /\ Grounded
  BY <1>1 DEF Init, FirstPass, Grounded
<1>5. ReservesExact /\ PrioritiesExact /\ MovementsExact /\ PosturesExact
  BY <1>2
     DEF Init, ReservesExact, PrioritiesExact, MovementsExact, PosturesExact, StandingOf
<1> QED
  BY <1>1, <1>2, <1>3, <1>4, <1>5 DEF Init, ValidatorInv, AcceptedAreCoherent, WalkEnds

-------------------------------------------------------------------------------
(* The walk over the batch. *)

\* The action at hand has its verdict from the first pass.
LEMMA AtHand ==
  ASSUME ValidatorInv, phase = "claim", pos \in DOMAIN batch
  PROVE  /\ pos \in Nat
         /\ pos \notin Standing
         /\ Standing = {i \in DOMAIN batch : i < pos /\ status[i] # "rejected"}
         /\ DOMAIN batch = 1..Len(batch) /\ Len(batch) \in Nat
         /\ status[pos] # "rejected" <=> Passes(batch[pos], view)
         /\ \A i \in Standing : Passes(batch[i], view)
<1>1. DOMAIN batch = 1..Len(batch) /\ Len(batch) \in Nat
  BY BatchesAreSequences DEF ValidatorInv
<1>2. status[pos] = Judged(batch[pos], view)
  BY <1>1 DEF ValidatorInv, FirstPass
<1>3. Standing = {i \in DOMAIN batch : i < pos /\ status[i] # "rejected"}
  BY DEF Standing, Walked
<1>4. \A i \in Standing : Passes(batch[i], view)
  BY <1>3 DEF ValidatorInv, Grounded
<1> QED
  BY <1>1, <1>2, <1>3, <1>4, JudgedAccepts

\* What accepting the action at hand does to the verdicts.
LEMMA Accepting ==
  ASSUME ValidatorInv, phase = "claim", pos \in DOMAIN batch, status[pos] # "rejected",
         pos' = pos + 1, UNCHANGED <<view, batch, phase, status>>,
         \A j \in Standing : ~Clash(batch[j], batch[pos])
  PROVE  /\ FirstPass' /\ Grounded' /\ AcceptedAreCoherent'
         /\ pos' \in 1 .. Len(batch') + 1
         /\ \A types : StandingOf(types)' =
              StandingOf(types) \cup (IF batch[pos].type \in types THEN {pos} ELSE {})
<1>1. Standing' = Standing \cup {pos}
  BY AtHand DEF Standing, Walked
<1>2. FirstPass'
  BY AtHand DEF ValidatorInv, FirstPass
<1>3. Grounded'
  <2> SUFFICES ASSUME NEW i \in DOMAIN batch
               PROVE  /\ status[i] # "rejected" => Passes(batch[i], view)
                      /\ (i < pos + 1 /\ status[i] = "rejected") =>
                           \/ ~Passes(batch[i], view)
                           \/ \E j \in Standing' : j < i /\ Clash(batch[j], batch[i])
    BY DEF Grounded
  <2>1. i < pos + 1 /\ status[i] = "rejected" => i < pos
    BY AtHand
  <2> QED
    BY <1>1, <2>1 DEF ValidatorInv, Grounded
<1>4. AcceptedAreCoherent'
  BY <1>1, ClashIsSymmetric DEF ValidatorInv, AcceptedAreCoherent
<1>5. pos' \in 1 .. Len(batch') + 1
  BY AtHand
<1>6. \A types : StandingOf(types)' =
        StandingOf(types) \cup (IF batch[pos].type \in types THEN {pos} ELSE {})
  BY <1>1 DEF StandingOf
<1> QED
  BY <1>2, <1>3, <1>4, <1>5, <1>6

\* What rejecting the action at hand, or leaving it rejected, does to them.
LEMMA Rejecting ==
  ASSUME ValidatorInv, phase = "claim", pos \in DOMAIN batch,
         pos' = pos + 1, UNCHANGED <<view, batch, phase>>,
         status' = [status EXCEPT ![pos] = "rejected"],
         \/ ~Passes(batch[pos], view)
         \/ \E j \in Standing : Clash(batch[j], batch[pos])
  PROVE  /\ FirstPass' /\ Grounded' /\ AcceptedAreCoherent'
         /\ pos' \in 1 .. Len(batch') + 1
         /\ status' \in [DOMAIN batch' -> Statuses]
         /\ \A types : StandingOf(types)' = StandingOf(types)
<1>0. status \in [DOMAIN batch -> Statuses]
  BY DEF ValidatorInv, TypeOK
<1>1. Standing' = Standing
  BY <1>0, AtHand DEF Standing, Walked
<1>2. FirstPass'
  BY <1>0, AtHand DEF ValidatorInv, FirstPass
<1>3. Grounded'
  <2> SUFFICES ASSUME NEW i \in DOMAIN batch
               PROVE  /\ status'[i] # "rejected" => Passes(batch[i], view)
                      /\ (i < pos + 1 /\ status'[i] = "rejected") =>
                           \/ ~Passes(batch[i], view)
                           \/ \E j \in Standing' : j < i /\ Clash(batch[j], batch[i])
    BY DEF Grounded
  <2>1. i < pos + 1 /\ i # pos => i < pos
    BY AtHand
  <2>2. \A j \in Standing : j < pos
    BY AtHand
  <2> QED
    BY <1>0, <1>1, <2>1, <2>2 DEF ValidatorInv, Grounded
<1>4. AcceptedAreCoherent'
  BY <1>1 DEF ValidatorInv, AcceptedAreCoherent
<1>5. pos' \in 1 .. Len(batch') + 1
  BY AtHand
<1>6. status' \in [DOMAIN batch' -> Statuses]
  BY <1>0 DEF Statuses
<1>7. \A types : StandingOf(types)' = StandingOf(types)
  BY <1>1 DEF StandingOf
<1> QED
  BY <1>2, <1>3, <1>4, <1>5, <1>6, <1>7

\* The claims are exact after a step that leaves them and the accepted actions as
\* they are.
LEMMA ClaimsStay ==
  ASSUME ValidatorInv, UNCHANGED <<batch, claims>>,
         \A types : StandingOf(types)' = StandingOf(types)
  PROVE  ReservesExact' /\ PrioritiesExact' /\ MovementsExact' /\ PosturesExact'
BY DEF ValidatorInv, ReservesExact, PrioritiesExact, MovementsExact, PosturesExact, claims

\* A rejection keeps the invariant.
LEMMA RejectingIsExact ==
  ASSUME ValidatorInv, phase = "claim", pos \in DOMAIN batch,
         pos' = pos + 1, UNCHANGED <<input, phase, claims>>,
         status' = [status EXCEPT ![pos] = "rejected"],
         \/ ~Passes(batch[pos], view)
         \/ \E j \in Standing : Clash(batch[j], batch[pos])
  PROVE  ValidatorInv'
<1>1. UNCHANGED <<view, batch, phase>>
  BY DEF input
<1>2. ReservesExact' /\ PrioritiesExact' /\ MovementsExact' /\ PosturesExact'
  BY <1>1, Rejecting, ClaimsStay
<1>3. TypeOK'
  BY <1>1, Rejecting DEF ValidatorInv, TypeOK, claims
<1> QED
  BY <1>1, <1>2, <1>3, Rejecting DEF ValidatorInv, WalkEnds

-------------------------------------------------------------------------------
(* The branches of the walk. *)

\* The facts common to the branches: the action at hand, and who stands.
LEMMA BranchFacts ==
  ASSUME ValidatorInv, NEW types, At(types)
  PROVE  /\ phase = "claim" /\ pos \in DOMAIN batch /\ status[pos] # "rejected"
         /\ batch[pos].type \in types /\ pos' = pos + 1
         /\ UNCHANGED <<input, phase>> /\ UNCHANGED <<view, batch, phase>>
         /\ Passes(batch[pos], view) /\ batch[pos] \in Menu
         /\ view \in Views
         /\ \A i \in Standing : Passes(batch[i], view)
BY AtHand, BatchesAreSequences DEF At, input, ValidatorInv

\* The reserve of an accepted deployment is claimed.
LEMMA ReserveBranch ==
  ASSUME ValidatorInv, ClaimReserve
  PROVE  ValidatorInv'
<1> DEFINE a == batch[pos]
<1>1. At({"deploy"})
  BY DEF ClaimReserve
<1>2. CASE a.reserve \in seenReserves
  <2>1. \E j \in Standing : Clash(batch[j], a)
    BY <1>1, <1>2, BranchFacts DEF ValidatorInv, ReservesExact, StandingOf, Clash
  <2> QED
    BY <1>1, <1>2, <2>1, BranchFacts, RejectingIsExact DEF ClaimReserve, Rejected
<1>3. CASE a.reserve \notin seenReserves
  <2>1. /\ seenReserves' = seenReserves \cup {a.reserve}
        /\ UNCHANGED <<status, priorities, movementClaims, postureClaims>>
    BY <1>3 DEF ClaimReserve
  <2>2. \A j \in Standing : ~Clash(batch[j], a)
    BY <1>1, <1>3, BranchFacts DEF ValidatorInv, ReservesExact, StandingOf, Clash, Movements
  <2>3. /\ StandingOf({"deploy"})' = StandingOf({"deploy"}) \cup {pos}
        /\ StandingOf({"priority"})' = StandingOf({"priority"})
        /\ StandingOf(Claiming)' = StandingOf(Claiming)
        /\ StandingOf({"posture"})' = StandingOf({"posture"})
    <3>1. \A types : StandingOf(types)' =
            StandingOf(types) \cup (IF a.type \in types THEN {pos} ELSE {})
      BY <1>1, <2>1, <2>2, BranchFacts, Accepting
    <3>2. a.type = "deploy"
      BY <1>1, BranchFacts
    <3> QED
      BY <3>1, <3>2 DEF Claiming, Movements
  <2>4. ReservesExact' /\ PrioritiesExact' /\ MovementsExact' /\ PosturesExact'
    BY <1>1, <2>1, <2>3, BranchFacts
       DEF ValidatorInv, ReservesExact, PrioritiesExact, MovementsExact, PosturesExact
  <2>5. a.reserve \in Reserves
    BY <1>1, BranchFacts, PassingIsInDomain
  <2>6. TypeOK'
    BY <1>1, <2>1, <2>2, <2>5, BranchFacts, Accepting DEF ValidatorInv, TypeOK
  <2> QED
    BY <1>1, <2>1, <2>2, <2>4, <2>6, BranchFacts, Accepting DEF ValidatorInv, WalkEnds
<1> QED
  BY <1>2, <1>3

\* The level of an accepted sector priority is claimed.
LEMMA PriorityBranch ==
  ASSUME ValidatorInv, ClaimPriority
  PROVE  ValidatorInv'
<1> DEFINE a == batch[pos]
<1>1. At({"priority"})
  BY DEF ClaimPriority
<1>2. a.sector \in Sectors /\ a.level \in Levels /\ a.level # None
  BY <1>1, BranchFacts, PassingIsInDomain, ValidatorAssumption
<1>3. CASE priorities[a.sector] \notin {None, a.level}
  <2>1. \E j \in Standing : Clash(batch[j], a)
    <3>1. PICK j \in StandingOf({"priority"}) : batch[j].sector = a.sector
      BY <1>2, <1>3 DEF ValidatorInv, PrioritiesExact
    <3>2. batch[j].level # a.level
      BY <1>3, <3>1 DEF ValidatorInv, PrioritiesExact
    <3> QED
      BY <1>1, <3>1, <3>2, BranchFacts DEF StandingOf, Clash
  <2> QED
    BY <1>1, <1>3, <2>1, BranchFacts, RejectingIsExact DEF ClaimPriority, Rejected
<1>4. CASE priorities[a.sector] \in {None, a.level}
  <2>1. /\ priorities' = [priorities EXCEPT ![a.sector] = a.level]
        /\ UNCHANGED <<status, seenReserves, movementClaims, postureClaims>>
    BY <1>4 DEF ClaimPriority
  <2>2. priorities \in [Sectors -> Levels \cup {None}]
    BY DEF ValidatorInv, TypeOK
  <2>3. \A j \in Standing : ~Clash(batch[j], a)
    <3>1. ASSUME NEW j \in Standing, batch[j].type = "priority", batch[j].sector = a.sector
          PROVE  batch[j].level = a.level
      <4>1. priorities[a.sector] = batch[j].level
        BY <3>1 DEF ValidatorInv, PrioritiesExact, StandingOf
      <4>2. batch[j].level # None
        BY <3>1, BatchesAreSequences, ValidatorAssumption DEF ValidatorInv, Standing, Walked
      <4> QED
        BY <1>4, <4>1, <4>2
    <3> QED
      BY <1>1, <3>1, BranchFacts DEF Clash, Movements
  <2>4. /\ StandingOf({"deploy"})' = StandingOf({"deploy"})
        /\ StandingOf({"priority"})' = StandingOf({"priority"}) \cup {pos}
        /\ StandingOf(Claiming)' = StandingOf(Claiming)
        /\ StandingOf({"posture"})' = StandingOf({"posture"})
    <3>1. \A types : StandingOf(types)' =
            StandingOf(types) \cup (IF a.type \in types THEN {pos} ELSE {})
      BY <1>1, <2>1, <2>3, BranchFacts, Accepting
    <3>2. a.type = "priority"
      BY <1>1, BranchFacts
    <3> QED
      BY <3>1, <3>2 DEF Claiming, Movements
  <2>5. PrioritiesExact'
    <3>1. \A j \in StandingOf({"priority"}) : batch[j].sector = a.sector => batch[j].level = a.level
      BY <1>1, <2>3, BranchFacts DEF StandingOf, Clash
    <3>2. \A j \in StandingOf({"priority"}) : batch[j].sector \in Sectors
      BY <1>1, BranchFacts, PassingIsInDomain DEF StandingOf
    <3> QED
      BY <1>1, <1>2, <2>1, <2>2, <2>4, <3>1, <3>2, BranchFacts DEF ValidatorInv, PrioritiesExact
  <2>6. ReservesExact' /\ MovementsExact' /\ PosturesExact'
    BY <1>1, <2>1, <2>4, BranchFacts
       DEF ValidatorInv, ReservesExact, MovementsExact, PosturesExact
  <2>7. TypeOK'
    BY <1>1, <1>2, <2>1, <2>3, BranchFacts, Accepting DEF ValidatorInv, TypeOK
  <2> QED
    BY <1>1, <2>1, <2>3, <2>5, <2>6, <2>7, BranchFacts, Accepting DEF ValidatorInv, WalkEnds
<1> QED
  BY <1>3, <1>4

\* A posture change is claimed, unless a movement of the group stands.
LEMMA PostureBranch ==
  ASSUME ValidatorInv, ClaimPosture
  PROVE  ValidatorInv'
<1> DEFINE a == batch[pos]
           u == a.group
<1>1. At({"posture"})
  BY DEF ClaimPosture
<1>2. Commanded(a) = {u} /\ u \in Units /\ Moved(a) = {}
  BY <1>1, BranchFacts, CommandedTable, PassingIsInDomain DEF Moved, Movements
<1>3. CASE movementClaims[u] \in Movements
  <2>1. PICK j \in StandingOf(Claiming) :
          u \in Commanded(batch[j]) /\ batch[j].type = movementClaims[u]
    BY <1>2, <1>3, ValidatorAssumption DEF ValidatorInv, MovementsExact
  <2>2. Commanded(batch[j]) = {batch[j].group} /\ Moved(batch[j]) = {batch[j].group}
    BY <1>3, <2>1, CommandedTable DEF Moved, Movements
  <2>3. \E k \in Standing : Clash(batch[k], a)
    BY <1>1, <1>2, <1>3, <2>1, <2>2, BranchFacts DEF StandingOf, Clash
  <2> QED
    BY <1>1, <1>3, <2>3, BranchFacts, RejectingIsExact DEF ClaimPosture, Rejected
<1>4. CASE movementClaims[u] \notin Movements
  <2>1. /\ postureClaims' = postureClaims \cup {u}
        /\ UNCHANGED <<status, seenReserves, priorities, movementClaims>>
    BY <1>4 DEF ClaimPosture
  <2>2. \A j \in Standing : ~Clash(batch[j], a)
    <3>1. ASSUME NEW j \in Standing, batch[j].type \in Movements
          PROVE  u \notin Moved(batch[j])
      <4>1. Commanded(batch[j]) = {batch[j].group} /\ Moved(batch[j]) = {batch[j].group}
        BY <3>1, CommandedTable DEF Moved, Movements
      <4>2. movementClaims[batch[j].group] = batch[j].type
        BY <3>1, <4>1 DEF ValidatorInv, MovementsExact, StandingOf, Claiming
      <4> QED
        BY <1>4, <3>1, <4>1, <4>2
    <3>2. \A j \in Standing : batch[j].type \notin Movements => Moved(batch[j]) = {}
      BY DEF Moved
    <3> QED
      BY <1>1, <1>2, <3>1, <3>2, BranchFacts DEF Clash
  <2>3. /\ StandingOf({"deploy"})' = StandingOf({"deploy"})
        /\ StandingOf({"priority"})' = StandingOf({"priority"})
        /\ StandingOf(Claiming)' = StandingOf(Claiming)
        /\ StandingOf({"posture"})' = StandingOf({"posture"}) \cup {pos}
    <3>1. \A types : StandingOf(types)' =
            StandingOf(types) \cup (IF a.type \in types THEN {pos} ELSE {})
      BY <1>1, <2>1, <2>2, BranchFacts, Accepting
    <3>2. a.type = "posture"
      BY <1>1, BranchFacts
    <3> QED
      BY <3>1, <3>2 DEF Claiming, Movements
  <2>4. ReservesExact' /\ PrioritiesExact' /\ MovementsExact' /\ PosturesExact'
    BY <1>1, <2>1, <2>3, BranchFacts
       DEF ValidatorInv, ReservesExact, PrioritiesExact, MovementsExact, PosturesExact
  <2>5. TypeOK'
    BY <1>1, <1>2, <2>1, <2>2, BranchFacts, Accepting DEF ValidatorInv, TypeOK
  <2> QED
    BY <1>1, <2>1, <2>2, <2>4, <2>5, BranchFacts, Accepting DEF ValidatorInv, WalkEnds
<1> QED
  BY <1>3, <1>4

\* A movement claims its group, unless another claim on the group stands.
LEMMA MovementBranch ==
  ASSUME ValidatorInv, ClaimMovement
  PROVE  ValidatorInv'
<1> DEFINE a == batch[pos]
           u == a.group
<1>1. At(Movements)
  BY DEF ClaimMovement
<1>2. Commanded(a) = {u} /\ u \in Units /\ Moved(a) = {u} /\ a.type \in Movements
  BY <1>1, BranchFacts, CommandedTable, PassingIsInDomain DEF Moved, Movements
<1>3. CASE u \in postureClaims
  <2>1. PICK j \in StandingOf({"posture"}) : batch[j].group = u
    BY <1>3 DEF ValidatorInv, PosturesExact
  <2>2. Commanded(batch[j]) = {u} /\ batch[j].type = "posture"
    BY <2>1, CommandedTable DEF StandingOf
  <2>3. \E k \in Standing : Clash(batch[k], a)
    BY <1>2, <2>1, <2>2 DEF StandingOf, Clash
  <2> QED
    BY <1>1, <1>3, <2>3, BranchFacts, RejectingIsExact DEF ClaimMovement, Rejected
<1>4. CASE movementClaims[u] # None
  <2>1. PICK j \in StandingOf(Claiming) : u \in Commanded(batch[j])
    BY <1>2, <1>4 DEF ValidatorInv, MovementsExact
  <2>2. \E k \in Standing : Clash(batch[k], a)
    BY <1>2, <2>1 DEF StandingOf, Clash, Claiming
  <2> QED
    BY <1>1, <1>4, <2>2, BranchFacts, RejectingIsExact DEF ClaimMovement, Rejected
<1>5. CASE u \notin postureClaims /\ movementClaims[u] = None
  <2>1. /\ movementClaims' = [movementClaims EXCEPT ![u] = a.type]
        /\ UNCHANGED <<status, seenReserves, priorities, postureClaims>>
    BY <1>5 DEF ClaimMovement
  <2>2. movementClaims \in [Units -> Claiming \cup {None}]
    BY DEF ValidatorInv, TypeOK, Claiming
  <2>3. \A j \in StandingOf(Claiming) : u \notin Commanded(batch[j])
    <3>1. \A j \in StandingOf(Claiming) : batch[j].type # None
      BY ValidatorAssumption DEF StandingOf, Claiming
    <3> QED
      BY <1>5, <3>1 DEF ValidatorInv, MovementsExact
  <2>4. \A j \in Standing : ~Clash(batch[j], a)
    <3>1. ASSUME NEW j \in Standing, batch[j].type = "posture"
          PROVE  u \notin Commanded(batch[j])
      BY <1>5, <3>1, CommandedTable DEF ValidatorInv, PosturesExact, StandingOf
    <3>2. ASSUME NEW j \in Standing, batch[j].type \in Claiming
          PROVE  u \notin Commanded(batch[j])
      BY <2>3, <3>2 DEF StandingOf
    <3>3. \A j \in Standing : u \in Moved(batch[j]) => u \in Commanded(batch[j])
      BY CommandedTable DEF Moved, Movements
    <3> QED
      BY <1>2, <3>1, <3>2, <3>3 DEF Clash, Claiming, Movements
  <2>5. /\ StandingOf({"deploy"})' = StandingOf({"deploy"})
        /\ StandingOf({"priority"})' = StandingOf({"priority"})
        /\ StandingOf(Claiming)' = StandingOf(Claiming) \cup {pos}
        /\ StandingOf({"posture"})' = StandingOf({"posture"})
    <3>1. \A types : StandingOf(types)' =
            StandingOf(types) \cup (IF a.type \in types THEN {pos} ELSE {})
      BY <1>1, <2>1, <2>4, BranchFacts, Accepting
    <3> QED
      BY <1>2, <3>1 DEF Claiming, Movements
  <2>6. MovementsExact'
    <3>1. \A w \in Units : movementClaims'[w] = IF w = u THEN a.type ELSE movementClaims[w]
      BY <1>2, <2>1, <2>2
    <3>2. \A j \in StandingOf(Claiming) : Commanded(batch[j]) \subseteq Units
      BY <1>1, BranchFacts, PassingIsInDomain DEF StandingOf
    <3>3. batch' = batch
      BY <1>1, BranchFacts
    <3>4. ASSUME NEW j \in StandingOf(Claiming)', NEW w \in Commanded(batch[j])
          PROVE  movementClaims'[w] = batch[j].type
      <4>1. CASE j = pos
        BY <1>2, <3>1, <3>4, <4>1
      <4>2. CASE j \in StandingOf(Claiming)
        BY <2>3, <3>1, <3>2, <3>4, <4>2 DEF ValidatorInv, MovementsExact
      <4> QED
        BY <2>5, <4>1, <4>2
    <3>5. ASSUME NEW w \in Units, movementClaims'[w] # None
          PROVE  \E j \in StandingOf(Claiming)' :
                   w \in Commanded(batch[j]) /\ batch[j].type = movementClaims'[w]
      BY <1>2, <2>5, <3>1, <3>5 DEF ValidatorInv, MovementsExact
    <3> QED
      BY <3>3, <3>4, <3>5 DEF MovementsExact
  <2>7. ReservesExact' /\ PrioritiesExact' /\ PosturesExact'
    BY <1>1, <2>1, <2>5, BranchFacts
       DEF ValidatorInv, ReservesExact, PrioritiesExact, PosturesExact
  <2>8. TypeOK'
    BY <1>1, <1>2, <2>1, <2>4, BranchFacts, Accepting DEF ValidatorInv, TypeOK
  <2> QED
    BY <1>1, <2>1, <2>4, <2>6, <2>7, <2>8, BranchFacts, Accepting DEF ValidatorInv, WalkEnds
<1> QED
  BY <1>3, <1>4, <1>5

\* A reinforcement claims all of its groups, unless one of them is claimed.
LEMMA ReinforcementBranch ==
  ASSUME ValidatorInv, ClaimReinforcement
  PROVE  ValidatorInv'
<1> DEFINE a == batch[pos]
           G == ToSet(a.groups)
<1>1. At({"reinforce"})
  BY DEF ClaimReinforcement
<1>2. Commanded(a) = G /\ G \subseteq Units /\ Moved(a) = {} /\ a.type = "reinforce"
  BY <1>1, BranchFacts, CommandedTable, PassingIsInDomain DEF Moved, Movements
<1>3. CASE \E u \in G : movementClaims[u] # None
  <2>1. PICK u \in G : movementClaims[u] # None
    BY <1>3
  <2>2. PICK j \in StandingOf(Claiming) :
          u \in Commanded(batch[j]) /\ batch[j].type = movementClaims[u]
    BY <1>2, <2>1 DEF ValidatorInv, MovementsExact
  <2>3. batch[j].type \in Movements => Moved(batch[j]) = Commanded(batch[j])
    BY CommandedTable DEF Moved, Movements
  <2>4. batch[j].type \in Claiming /\ j \in Standing
    BY <2>2 DEF StandingOf
  <2>5. Clash(batch[j], a)
    BY <1>2, <2>1, <2>2, <2>3, <2>4 DEF Clash, Claiming
  <2> QED
    BY <1>1, <1>3, <2>4, <2>5, BranchFacts, RejectingIsExact DEF ClaimReinforcement, Rejected
<1>4. CASE ~\E u \in G : movementClaims[u] # None
  <2>1. /\ movementClaims' = [u \in Units |-> IF u \in G THEN "reinforce" ELSE movementClaims[u]]
        /\ UNCHANGED <<status, seenReserves, priorities, postureClaims>>
    BY <1>4 DEF ClaimReinforcement
  <2>2. movementClaims \in [Units -> Claiming \cup {None}]
    BY DEF ValidatorInv, TypeOK, Claiming
  <2>3. \A j \in StandingOf(Claiming) : Commanded(batch[j]) \cap G = {}
    <3>1. \A j \in StandingOf(Claiming) : batch[j].type # None
      BY ValidatorAssumption DEF StandingOf, Claiming
    <3> QED
      BY <1>4, <3>1 DEF ValidatorInv, MovementsExact
  <2>4. \A j \in Standing : ~Clash(batch[j], a)
    <3>1. \A j \in Standing : batch[j].type \in Claiming => Commanded(batch[j]) \cap G = {}
      BY <2>3 DEF StandingOf
    <3>2. \A j \in Standing : batch[j].type \in Movements =>
            Moved(batch[j]) = Commanded(batch[j])
      BY CommandedTable DEF Moved, Movements
    <3>3. \A j \in Standing : batch[j].type \notin Movements => Moved(batch[j]) = {}
      BY DEF Moved
    <3> QED
      BY <1>2, <3>1, <3>2, <3>3 DEF Clash, Claiming
  <2>5. /\ StandingOf({"deploy"})' = StandingOf({"deploy"})
        /\ StandingOf({"priority"})' = StandingOf({"priority"})
        /\ StandingOf(Claiming)' = StandingOf(Claiming) \cup {pos}
        /\ StandingOf({"posture"})' = StandingOf({"posture"})
    <3>1. \A types : StandingOf(types)' =
            StandingOf(types) \cup (IF a.type \in types THEN {pos} ELSE {})
      BY <1>1, <2>1, <2>4, BranchFacts, Accepting
    <3> QED
      BY <1>2, <3>1 DEF Claiming, Movements
  <2>6. MovementsExact'
    <3>2. \A j \in StandingOf(Claiming) : Commanded(batch[j]) \subseteq Units
      BY <1>1, BranchFacts, PassingIsInDomain DEF StandingOf
    <3>3. batch' = batch
      BY <1>1, BranchFacts
    <3>4. ASSUME NEW j \in StandingOf(Claiming)', NEW w \in Commanded(batch[j])
          PROVE  movementClaims'[w] = batch[j].type
      <4>1. CASE j = pos
        BY <1>2, <2>1, <3>4, <4>1
      <4>2. CASE j \in StandingOf(Claiming)
        BY <2>1, <2>3, <3>2, <3>4, <4>2 DEF ValidatorInv, MovementsExact
      <4> QED
        BY <2>5, <4>1, <4>2
    <3>5. ASSUME NEW w \in Units, movementClaims'[w] # None
          PROVE  \E j \in StandingOf(Claiming)' :
                   w \in Commanded(batch[j]) /\ batch[j].type = movementClaims'[w]
      BY <1>2, <2>1, <2>5, <3>5 DEF ValidatorInv, MovementsExact
    <3> QED
      BY <3>3, <3>4, <3>5 DEF MovementsExact
  <2>7. ReservesExact' /\ PrioritiesExact' /\ PosturesExact'
    BY <1>1, <2>1, <2>5, BranchFacts
       DEF ValidatorInv, ReservesExact, PrioritiesExact, PosturesExact
  <2>8. movementClaims' \in [Units -> Claiming \cup {None}]
    BY <2>1, <2>2 DEF Claiming
  <2>9. TypeOK'
    BY <1>1, <2>1, <2>4, <2>8, BranchFacts, Accepting DEF ValidatorInv, TypeOK, Claiming
  <2> QED
    BY <1>1, <2>1, <2>4, <2>6, <2>7, <2>9, BranchFacts, Accepting DEF ValidatorInv, WalkEnds
<1> QED
  BY <1>3, <1>4

\* A hold clashes with nothing and claims nothing.
LEMMA HoldBranch ==
  ASSUME ValidatorInv, Hold
  PROVE  ValidatorInv'
<1> DEFINE a == batch[pos]
<1>1. At({"hold"}) /\ UNCHANGED <<status, claims>>
  BY DEF Hold
<1>2. a.type = "hold"
  BY <1>1, BranchFacts
<1>3. \A j \in Standing : ~Clash(batch[j], a)
  BY <1>2 DEF Clash, Movements
<1>4. \A types : StandingOf(types)' =
        StandingOf(types) \cup (IF a.type \in types THEN {pos} ELSE {})
  BY <1>1, <1>3, BranchFacts, Accepting
<1>5. /\ StandingOf({"deploy"})' = StandingOf({"deploy"})
      /\ StandingOf({"priority"})' = StandingOf({"priority"})
      /\ StandingOf(Claiming)' = StandingOf(Claiming)
      /\ StandingOf({"posture"})' = StandingOf({"posture"})
  BY <1>2, <1>4 DEF Claiming, Movements
<1>6. ReservesExact' /\ PrioritiesExact' /\ MovementsExact' /\ PosturesExact'
  BY <1>1, <1>5, BranchFacts
     DEF ValidatorInv, ReservesExact, PrioritiesExact, MovementsExact, PosturesExact, claims
<1>7. TypeOK'
  BY <1>1, <1>3, BranchFacts, Accepting DEF ValidatorInv, TypeOK, claims
<1> QED
  BY <1>1, <1>3, <1>6, <1>7, BranchFacts, Accepting DEF ValidatorInv, WalkEnds

\* What the first pass rejected stays rejected.
LEMMA SkipBranch ==
  ASSUME ValidatorInv, SkipRejected
  PROVE  ValidatorInv'
<1>1. /\ phase = "claim" /\ pos \in DOMAIN batch /\ status[pos] = "rejected"
      /\ pos' = pos + 1 /\ UNCHANGED <<input, phase, claims>> /\ status' = status
  BY DEF SkipRejected
<1>2. status' = [status EXCEPT ![pos] = "rejected"]
  BY <1>1 DEF ValidatorInv, TypeOK
<1>3. ~Passes(batch[pos], view)
  BY <1>1, AtHand
<1> QED
  BY <1>1, <1>2, <1>3, RejectingIsExact

-------------------------------------------------------------------------------
(* The other steps. *)

\* While the first pass runs no action stands.
LEMMA JudgingStep ==
  ASSUME ValidatorInv, Judge
  PROVE  ValidatorInv'
<1>1. /\ phase = "judge" /\ pos \in DOMAIN batch /\ pos' = pos + 1
      /\ status' = [status EXCEPT ![pos] = Judged(batch[pos], view)]
      /\ phase' = phase /\ UNCHANGED <<view, batch>> /\ UNCHANGED claims
  BY DEF Judge, input
<1>2. DOMAIN batch = 1..Len(batch) /\ Len(batch) \in Nat
  BY BatchesAreSequences DEF ValidatorInv
<1>3. status \in [DOMAIN batch -> Statuses]
  BY DEF ValidatorInv, TypeOK
<1>4. Standing = {} /\ Standing' = {}
  BY <1>1 DEF Standing, Walked
<1>5. TypeOK'
  BY <1>1, <1>2, <1>3, JudgedAccepts DEF ValidatorInv, TypeOK, claims
<1>6. FirstPass' /\ Grounded'
  BY <1>1, <1>2, <1>3 DEF ValidatorInv, FirstPass, Grounded
<1>7. \A types : StandingOf(types)' = StandingOf(types)
  BY <1>4 DEF StandingOf
<1>8. ReservesExact' /\ PrioritiesExact' /\ MovementsExact' /\ PosturesExact'
  BY <1>1, <1>7, ClaimsStay
<1>9. AcceptedAreCoherent'
  BY <1>4 DEF AcceptedAreCoherent
<1> QED
  BY <1>1, <1>5, <1>6, <1>8, <1>9 DEF ValidatorInv, WalkEnds

\* The walk starts with every action judged.
LEMMA EndJudgingStep ==
  ASSUME ValidatorInv, EndJudging
  PROVE  ValidatorInv'
<1>1. /\ phase = "judge" /\ pos \notin DOMAIN batch /\ pos' = 1 /\ phase' = "claim"
      /\ UNCHANGED <<view, batch>> /\ status' = status /\ UNCHANGED claims
  BY DEF EndJudging, input
<1>2. DOMAIN batch = 1..Len(batch) /\ Len(batch) \in Nat /\ pos \in 1 .. Len(batch) + 1
  BY BatchesAreSequences DEF ValidatorInv, TypeOK
<1>3. Standing = {} /\ Standing' = {}
  BY <1>1, <1>2 DEF Standing, Walked
<1>4. TypeOK'
  BY <1>1, <1>2 DEF ValidatorInv, TypeOK, claims
<1>5. \A i \in DOMAIN batch : status[i] = Judged(batch[i], view)
  BY <1>1, <1>2 DEF ValidatorInv, FirstPass
<1>6. FirstPass' /\ Grounded'
  BY <1>1, <1>2, <1>5, JudgedAccepts DEF FirstPass, Grounded
<1>7. \A types : StandingOf(types)' = StandingOf(types)
  BY <1>3 DEF StandingOf
<1>8. ReservesExact' /\ PrioritiesExact' /\ MovementsExact' /\ PosturesExact'
  BY <1>1, <1>7, ClaimsStay
<1>9. AcceptedAreCoherent'
  BY <1>3 DEF AcceptedAreCoherent
<1> QED
  BY <1>1, <1>4, <1>6, <1>8, <1>9 DEF ValidatorInv, WalkEnds

\* Returning the verdict changes nothing else.
LEMMA ReturnStep ==
  ASSUME ValidatorInv, Return
  PROVE  ValidatorInv'
<1>1. /\ phase = "claim" /\ phase' = "done" /\ UNCHANGED <<view, batch, pos, status>>
      /\ UNCHANGED claims
  BY DEF Return, input
<1>6. WalkEnds'
  <2>1. pos \notin DOMAIN batch
    BY DEF Return
  <2>2. DOMAIN batch = 1..Len(batch) /\ Len(batch) \in Nat /\ pos \in 1 .. Len(batch) + 1
    BY BatchesAreSequences DEF ValidatorInv, TypeOK
  <2> QED
    BY <1>1, <2>1, <2>2 DEF WalkEnds
<1>2. Standing' = Standing
  BY <1>1 DEF Standing, Walked
<1>3. TypeOK' /\ FirstPass' /\ Grounded' /\ AcceptedAreCoherent'
  BY <1>1, <1>2
     DEF ValidatorInv, TypeOK, claims, FirstPass, Grounded, AcceptedAreCoherent
<1>4. \A types : StandingOf(types)' = StandingOf(types)
  BY <1>1, <1>2 DEF StandingOf
<1>5. ReservesExact' /\ PrioritiesExact' /\ MovementsExact' /\ PosturesExact'
  BY <1>1, <1>4, ClaimsStay
<1> QED
  BY <1>1, <1>3, <1>5, <1>6 DEF ValidatorInv

-------------------------------------------------------------------------------
(* The declarative verdict itself. *)

Below == {ss \in Nat \X Nat : ss[1] < ss[2]}

\* What may be accepted of the first k actions.
IsAcceptedUpTo(S, k, b, v) ==
  S = {i \in 1..k : Passes(b[i], v) /\ \A j \in S : j < i => ~Clash(b[j], b[i])}

\* A verdict on the first actions of a batch extends to one more action.
LEMMA VerdictsExtend ==
  ASSUME NEW b, NEW v, NEW k \in Nat, NEW S, IsAcceptedUpTo(S, k, b, v)
  PROVE  \E T : IsAcceptedUpTo(T, k + 1, b, v)
<1> DEFINE taken == Passes(b[k + 1], v) /\ \A j \in S : ~Clash(b[j], b[k + 1])
           T == IF taken THEN S \cup {k + 1} ELSE S
<1>1. S \subseteq 1..k
  BY DEF IsAcceptedUpTo
<1>2. \A i \in 1..k : \A j \in T : j < i => j \in S
  BY <1>1
<1>3. \A i \in 1..k : i \in T <=> i \in S
  OBVIOUS
<1>4. \A j \in S : j < k + 1
  BY <1>1
<1>5. (k + 1) \in T <=> taken
  BY <1>1
<1>6. ASSUME NEW i \in 1..(k + 1)
      PROVE  i \in T <=> Passes(b[i], v) /\ \A j \in T : j < i => ~Clash(b[j], b[i])
  <2>1. CASE i \in 1..k
    <3>1. i \in S <=> Passes(b[i], v) /\ \A j \in S : j < i => ~Clash(b[j], b[i])
      BY <2>1 DEF IsAcceptedUpTo
    <3> QED
      BY <1>2, <1>3, <2>1, <3>1
  <2>2. CASE i = k + 1
    <3>1. \A j \in T : j < k + 1 <=> j \in S
      BY <1>1, <1>4
    <3> QED
      BY <1>4, <1>5, <2>2, <3>1
  <2> QED
    BY <2>1, <2>2
<1>7. T \subseteq 1..(k + 1)
  BY <1>1
<1> HIDE DEF T
<1>8. IsAcceptedUpTo(T, k + 1, b, v)
  BY <1>6, <1>7, Zenon DEF IsAcceptedUpTo
<1> QED
  BY <1>8

\* Every batch has a verdict in every context, and only one: the verdict that the
\* validator computes and Execution takes as a whole is a function of the two,
\* whatever the length of the batch.
THEOREM EveryBatchHasOneVerdict ==
  ASSUME NEW b \in Batches, NEW v
  PROVE  \E S \in SUBSET DOMAIN b :
           /\ IsAccepted(S, b, v)
           /\ \A T : IsAccepted(T, b, v) => T = S
<1> DEFINE n == Len(b)
<1>0. n \in Nat /\ DOMAIN b = 1..n
  BY BatchesAreSequences
<1> HIDE DEF n
<1>1. IsWellFoundedOn(Below, Nat)
  BY NatLessThanWellFounded DEF OpToRel, Below
<1>2. \E S : IsAcceptedUpTo(S, n, b, v)
  <2> DEFINE Without == {k \in Nat : ~\E S : IsAcceptedUpTo(S, k, b, v)}
  <2> SUFFICES ASSUME Without # {} PROVE FALSE
    BY <1>0
  <2>1. PICK k \in Without : \A l \in Without : ~(<<l, k>> \in Below)
    <3> Without \subseteq Nat
      OBVIOUS
    <3> HIDE DEF Without
    <3> QED
      BY <1>1, WFMin
  <2>2. k # 0
    <3>1. IsAcceptedUpTo({}, 0, b, v)
      BY DEF IsAcceptedUpTo
    <3> QED
      BY <3>1
  <2>3. k - 1 \in Nat /\ <<k - 1, k>> \in Below /\ (k - 1) + 1 = k
    BY <2>2 DEF Below
  <2>4. PICK S : IsAcceptedUpTo(S, k - 1, b, v)
    BY <2>1, <2>3
  <2>5. \E T : IsAcceptedUpTo(T, (k - 1) + 1, b, v)
    BY <2>3, <2>4, VerdictsExtend
  <2> QED
    BY <2>1, <2>3, <2>5
<1>3. PICK S : IsAccepted(S, b, v)
  BY <1>0, <1>2 DEF IsAccepted, IsAcceptedUpTo
<1>4. ASSUME NEW T, IsAccepted(T, b, v) PROVE T = S
  <2> DEFINE Apart == {i \in 1..n : ~(i \in S <=> i \in T)}
  <2>1. S \subseteq 1..n /\ T \subseteq 1..n
    BY <1>0, <1>3, <1>4 DEF IsAccepted
  <2>2. ASSUME Apart # {} PROVE FALSE
    <3>1. PICK i \in Apart : \A j \in Apart : ~(<<j, i>> \in Below)
      <4> Apart \subseteq Nat
        BY <1>0
      <4> HIDE DEF Apart
      <4> QED
        BY <1>1, <2>2, WFMin
    <3>2. \A j \in 1..n : j < i => (j \in S <=> j \in T)
      <4> SUFFICES ASSUME NEW j \in 1..n, j < i PROVE j \in S <=> j \in T
        OBVIOUS
      <4>1. i \in Nat /\ j \in Nat
        BY <1>0
      <4>2. <<j, i>> \in Below
        BY <4>1 DEF Below
      <4>3. j \notin Apart
        BY <3>1, <4>2
      <4> QED
        BY <4>3
    <3>3. i \in S <=> Passes(b[i], v) /\ \A j \in S : j < i => ~Clash(b[j], b[i])
      BY <1>0, <1>3 DEF IsAccepted
    <3>4. i \in T <=> Passes(b[i], v) /\ \A j \in T : j < i => ~Clash(b[j], b[i])
      BY <1>0, <1>4 DEF IsAccepted
    <3>5. i \in S <=> i \in T
      BY <2>1, <3>2, <3>3, <3>4
    <3> QED
      BY <3>1, <3>5
  <2> QED
    BY <2>1, <2>2
<1>5. S \in SUBSET DOMAIN b
  BY <1>3 DEF IsAccepted
<1> QED
  BY <1>3, <1>4, <1>5

-------------------------------------------------------------------------------
(* The theorems. *)

\* The claims are exact, and the verdicts they lead to are grounded and coherent.
THEOREM ValidatorIsExact == Spec => []ValidatorInv
<1>1. Init => ValidatorInv
  BY InitIsExact
<1>2. ValidatorInv /\ [Next]_vars => ValidatorInv'
  <2> SUFFICES ASSUME ValidatorInv, [Next]_vars PROVE ValidatorInv'
    OBVIOUS
  <2>1. CASE Judge \/ EndJudging \/ Return
    BY <2>1, JudgingStep, EndJudgingStep, ReturnStep
  <2>2. CASE Claim
    BY <2>2, ReserveBranch, PriorityBranch, MovementBranch, ReinforcementBranch,
       PostureBranch, HoldBranch, SkipBranch DEF Claim
  <2>3. CASE UNCHANGED vars
    BY <2>3
       DEF vars, ValidatorInv, TypeOK, WalkEnds, FirstPass, Grounded, ReservesExact,
           PrioritiesExact, MovementsExact, PosturesExact, AcceptedAreCoherent,
           StandingOf, Standing, Walked
  <2> QED
    BY <2>1, <2>2, <2>3 DEF Next, Done
<1> QED
  BY <1>1, <1>2, PTL DEF Spec

\* The types of the variables.
THEOREM ValidatorTypes == Spec => []TypeOK
BY ValidatorIsExact, PTL DEF ValidatorInv

\* No two accepted actions of a batch clash.
THEOREM AcceptedAreAlwaysCoherent == Spec => []AcceptedAreCoherent
BY ValidatorIsExact, PTL DEF ValidatorInv

\* When the walk has ended, what stands is the declarative verdict.
LEMMA VerdictIsExact ==
  ASSUME ValidatorInv, phase = "done"
  PROVE  IsAccepted(Standing, batch, view)
<1>1. Standing \subseteq DOMAIN batch
  BY DEF Standing, Walked
<1>2. ASSUME NEW i \in Standing
      PROVE  /\ Passes(batch[i], view)
             /\ \A j \in Standing : j < i => ~Clash(batch[j], batch[i])
  <2>1. Passes(batch[i], view)
    BY <1>2 DEF ValidatorInv, Grounded, Standing, Walked
  <2>2. DOMAIN batch \subseteq Nat
    BY BatchesAreSequences DEF ValidatorInv
  <2>3. ASSUME NEW j \in Standing, j < i PROVE ~Clash(batch[j], batch[i])
    <3>1. j # i
      BY <1>1, <1>2, <2>2, <2>3
    <3> QED
      BY <1>2, <2>3, <3>1 DEF ValidatorInv, AcceptedAreCoherent
  <2> QED
    BY <2>1, <2>3
<1>3. ASSUME NEW i \in DOMAIN batch, i \notin Standing, Passes(batch[i], view)
      PROVE  \E j \in Standing : j < i /\ Clash(batch[j], batch[i])
  <2>1. i < pos
    BY <1>3 DEF ValidatorInv, WalkEnds
  <2> QED
    BY <1>3, <2>1 DEF ValidatorInv, Grounded, Standing, Walked
<1> QED
  BY <1>1, <1>2, <1>3 DEF IsAccepted

\* The two passes compute the declarative verdict on every batch.
THEOREM VerdictIsAlwaysAccepted == Spec => []VerdictIsAccepted
<1>1. ValidatorInv => VerdictIsAccepted
  BY VerdictIsExact DEF VerdictIsAccepted
<1> QED
  BY <1>1, ValidatorIsExact, PTL

\* validate_payload implements the one step in which Execution has a verdict
\* computed: it answers once, and then changes nothing any more.
THEOREM ValidatorImplementsOneVerdict == Spec => ImplementsOneVerdict
<1> DEFINE answers == IF phase = "done" THEN {Standing} ELSE {}
<1>1. Init => Verdict!OneInit
  BY DEF Init, Verdict!OneInit
<1>2. VerdictIsAccepted' /\ [Next]_vars
        => [Verdict!Answer]_<<view, batch, answers>>
  <2> SUFFICES ASSUME VerdictIsAccepted', [Next]_vars
               PROVE  Verdict!Answer \/ UNCHANGED <<view, batch, answers>>
    OBVIOUS
  <2>1. CASE Judge \/ EndJudging \/ Claim
    <3>1. UNCHANGED <<view, batch>> /\ phase # "done" /\ phase' # "done"
      BY <2>1 DEF Judge, EndJudging, Claim, ClaimReserve, ClaimPriority, ClaimMovement,
         ClaimReinforcement, ClaimPosture, Hold, SkipRejected, At, input
    <3> QED
      BY <3>1
  <2>2. CASE Return
    <3>1. UNCHANGED <<view, batch>> /\ phase # "done" /\ phase' = "done"
      BY <2>2 DEF Return, input
    <3>2. IsAccepted(Standing, batch, view)'
      BY <3>1 DEF VerdictIsAccepted
    <3>3. Standing' \in SUBSET DOMAIN batch
      BY <3>1 DEF Standing, Walked
    <3>4. IsAccepted(Standing', batch, view)
      BY <3>1, <3>2 DEF IsAccepted
    <3> QED
      BY <3>1, <3>3, <3>4 DEF Verdict!Answer
  <2>3. CASE Done \/ UNCHANGED vars
    <3>1. UNCHANGED <<view, batch, phase, pos, status>>
      BY <2>3 DEF Done, vars
    <3> QED
      BY <3>1 DEF Standing, Walked
  <2> QED
    BY <2>1, <2>2, <2>3 DEF Next
<1> QED
  BY <1>1, <1>2, VerdictIsAlwaysAccepted, PTL DEF Spec, ImplementsOneVerdict, Verdict!OneSpec

\* The engine finds what accepted actions name, and they give orders only to
\* groups of the coalition.
THEOREM AcceptedAreAlwaysBuildable == Spec => []AcceptedAreBuildable
<1>1. ValidatorInv => AcceptedAreBuildable
  BY PassingIsBuildable DEF ValidatorInv, Grounded, Standing, Walked, AcceptedAreBuildable
<1> QED
  BY <1>1, ValidatorIsExact, PTL
===============================================================================
