---------------------------- MODULE ActionValidator ----------------------------
(***************************************************************************)
(* ActionValidator.validate_payload on one batch: every action is first      *)
(* judged on its own against the context, then _apply_conflicts walks over   *)
(* the batch with four tables of claims and rejects what clashes with an     *)
(* earlier accepted action.                                                  *)
(***************************************************************************)
EXTENDS ActionRules

CONSTANTS
  Views,     \* contexts the validator may read
  Menu,      \* actions a commander may submit
  Levels,    \* sector priorities
  MaxBatch   \* bound on the length of a batch

VARIABLES
  view,           \* the context of this call
  batch,          \* the actions of the payload
  phase,          \* "judge", "claim" or "done"
  pos,            \* index of the action at hand
  status,         \* ValidationStatus of each action
  seenReserves,   \* seen_reserves: reserves an accepted action commits
  priorities,     \* sector_priorities: level an accepted action gives a sector
  movementClaims, \* movement_claims: kind of action that claims to move a group
  postureClaims   \* posture_claims: groups with an accepted posture change

vars == <<view, batch, phase, pos, status,
          seenReserves, priorities, movementClaims, postureClaims>>
input  == <<view, batch>>
claims == <<seenReserves, priorities, movementClaims, postureClaims>>

Batches == UNION {[1..n -> Menu] : n \in 0..MaxBatch}

ASSUME ValidatorAssumption ==
  /\ MaxBatch \in Nat
  /\ None \notin Levels \cup Movements \cup {"reinforce"}
  /\ \A v \in Views : v.rows \subseteq Units
  /\ \A a \in Menu : a.type = "priority" => a.level \in Levels

Init ==
  /\ view \in Views
  /\ batch \in Batches
  /\ phase = "judge"
  /\ pos = 1
  /\ status = [i \in DOMAIN batch |-> "rejected"]
  /\ seenReserves = {}
  /\ priorities = [s \in Sectors |-> None]
  /\ movementClaims = [u \in Units |-> None]
  /\ postureClaims = {}

-------------------------------------------------------------------------------
(* The first pass. *)

\* Duplicate ids in a reinforcement are removed with a warning, which makes the
\* acceptance partial.
Judged(a, v) ==
  IF ~Passes(a, v) THEN "rejected"
  ELSE IF Normalised(a) # a THEN "partially_accepted" ELSE "accepted"

Judge ==
  /\ phase = "judge"
  /\ pos \in DOMAIN batch
  /\ status' = [status EXCEPT ![pos] = Judged(batch[pos], view)]
  /\ pos' = pos + 1
  /\ UNCHANGED <<input, phase, claims>>

EndJudging ==
  /\ phase = "judge"
  /\ pos \notin DOMAIN batch
  /\ phase' = "claim"
  /\ pos' = 1
  /\ UNCHANGED <<input, status, claims>>

-------------------------------------------------------------------------------
(* The second pass, _apply_conflicts: one action per branch of its loop. *)

At(types) ==
  /\ phase = "claim"
  /\ pos \in DOMAIN batch
  /\ status[pos] # "rejected"
  /\ batch[pos].type \in types
  /\ pos' = pos + 1
  /\ UNCHANGED <<input, phase>>

Rejected ==
  /\ status' = [status EXCEPT ![pos] = "rejected"]
  /\ UNCHANGED claims

ClaimReserve ==
  /\ At({"deploy"})
  /\ LET r == batch[pos].reserve IN
     IF r \in seenReserves THEN Rejected
     ELSE /\ seenReserves' = seenReserves \cup {r}
          /\ UNCHANGED <<status, priorities, movementClaims, postureClaims>>

ClaimPriority ==
  /\ At({"priority"})
  /\ LET a == batch[pos] IN
     IF priorities[a.sector] \notin {None, a.level} THEN Rejected
     ELSE /\ priorities' = [priorities EXCEPT ![a.sector] = a.level]
          /\ UNCHANGED <<status, seenReserves, movementClaims, postureClaims>>

MutClaimMovementIgnoresPostures ==
  /\ At(Movements)
  /\ LET a == batch[pos] IN
     IF movementClaims[a.group] # None THEN Rejected
     ELSE /\ movementClaims' = [movementClaims EXCEPT ![a.group] = a.type]
          /\ UNCHANGED <<status, seenReserves, priorities, postureClaims>>

MutClaimMovementStoresTheGroup ==
  /\ At(Movements)
  /\ LET a == batch[pos] IN
     IF a.group \in postureClaims \/ movementClaims[a.group] # None THEN Rejected
     ELSE /\ movementClaims' = [movementClaims EXCEPT ![a.group] = a.group]
          /\ UNCHANGED <<status, seenReserves, priorities, postureClaims>>

ClaimMovement ==
  /\ At(Movements)
  /\ LET a == batch[pos] IN
     IF a.group \in postureClaims \/ movementClaims[a.group] # None THEN Rejected
     ELSE /\ movementClaims' = [movementClaims EXCEPT ![a.group] = a.type]
          /\ UNCHANGED <<status, seenReserves, priorities, postureClaims>>

\* A reinforcement that claims its groups one by one, and so keeps the claims it
\* made before it met the conflict.
MutClaimReinforcementKeepsClaims ==
  /\ At({"reinforce"})
  /\ LET groups == ToSet(batch[pos].groups) IN
     /\ movementClaims' = [u \in Units |->
          IF u \in groups /\ movementClaims[u] = None THEN "reinforce" ELSE movementClaims[u]]
     /\ status' = IF \E u \in groups : movementClaims[u] # None
                  THEN [status EXCEPT ![pos] = "rejected"] ELSE status
     /\ UNCHANGED <<seenReserves, priorities, postureClaims>>

ClaimReinforcement ==
  /\ At({"reinforce"})
  /\ LET groups == ToSet(batch[pos].groups) IN
     IF \E u \in groups : movementClaims[u] # None THEN Rejected
     ELSE /\ movementClaims' = [u \in Units |->
                IF u \in groups THEN "reinforce" ELSE movementClaims[u]]
          /\ UNCHANGED <<status, seenReserves, priorities, postureClaims>>

ClaimPosture ==
  /\ At({"posture"})
  /\ LET u == batch[pos].group IN
     IF movementClaims[u] \in Movements THEN Rejected
     ELSE /\ postureClaims' = postureClaims \cup {u}
          /\ UNCHANGED <<status, seenReserves, priorities, movementClaims>>

Hold == At({"hold"}) /\ UNCHANGED <<status, claims>>

SkipRejected ==
  /\ phase = "claim"
  /\ pos \in DOMAIN batch
  /\ status[pos] = "rejected"
  /\ pos' = pos + 1
  /\ UNCHANGED <<input, phase, status, claims>>

Return ==
  /\ phase = "claim"
  /\ pos \notin DOMAIN batch
  /\ phase' = "done"
  /\ UNCHANGED <<input, pos, status, claims>>

Claim ==
  \/ ClaimReserve
  \/ ClaimPriority
  \/ ClaimMovement
  \/ ClaimReinforcement
  \/ ClaimPosture
  \/ Hold
  \/ SkipRejected

Done == phase = "done" /\ UNCHANGED vars

Next == Judge \/ EndJudging \/ Claim \/ Return \/ Done

Spec == Init /\ [][Next]_vars
-------------------------------------------------------------------------------
(* Properties. *)

Statuses == {"accepted", "partially_accepted", "rejected"}

\* The actions on which the walk has pronounced, and accepted.
Walked == IF phase = "judge" THEN {} ELSE {i \in DOMAIN batch : i < pos}
Standing == {i \in Walked : status[i] # "rejected"}

\* The types of the variables.
TypeOK ==
  /\ phase \in {"judge", "claim", "done"}
  /\ pos \in 1 .. Len(batch) + 1
  /\ status \in [DOMAIN batch -> Statuses]
  /\ seenReserves \subseteq Reserves
  /\ priorities \in [Sectors -> Levels \cup {None}]
  /\ movementClaims \in [Units -> Movements \cup {"reinforce", None}]
  /\ postureClaims \subseteq Units

\* No two accepted actions of a batch clash, in whichever order they came: the
\* four tables of claims catch every pair that _apply_conflicts means to refuse.
AcceptedAreCoherent ==
  \A i, j \in Standing : i # j => ~Clash(batch[i], batch[j])

\* The two passes compute the declarative verdict: nothing more is rejected than
\* what fails a stage or clashes with an accepted action before it.
VerdictIsAccepted ==
  phase = "done" => IsAccepted(Standing, batch, view)

\* Seen from its caller, the validator answers in one step: the loops, the tables and
\* the claims that are withdrawn by a later rejection never show.
Verdict == INSTANCE OneVerdict
  WITH Contexts <- Views, Payloads <- Batches, IsVerdict <- IsAccepted,
       context <- view, payload <- batch,
       answers <- IF phase = "done" THEN {Standing} ELSE {}

\* validate_payload implements the one step in which Execution has a verdict computed:
\* it answers once, with a declarative verdict on the payload and the context it was
\* called with, and then changes nothing any more.
ImplementsOneVerdict == Verdict!OneSpec

\* The engine finds every entity that an accepted action names, so no accepted
\* batch aborts on a look-up, and it orders about only groups that both the
\* active row and the world row give to the coalition.
AcceptedAreBuildable ==
  phase = "done" =>
    \A i \in Standing : /\ Buildable(batch[i], view)
                        /\ \A u \in Commanded(batch[i]) : Owned(u, view)

\* The budget pays for what the batch commits (ACTION-SPEC, resource validation:
\* "Budget or allowance is sufficient").
Committed == {batch[i].reserve : i \in {j \in Standing : batch[j].type = "deploy"}}
BudgetPaysForTheBatch ==
  phase = "done" =>
    view.budget >= FoldSet(LAMBDA r, sum : sum + Cost[r], 0, Committed)
===============================================================================
