--------------------------- MODULE FairnessFindings ---------------------------
(***************************************************************************)
(* What EvaluationService makes of the evidence of a run: the findings that   *)
(* accuse an action of knowing too much, the score and the rating they give,  *)
(* the tuning notes, and the metrics of a decision cycle.                     *)
(*                                                                            *)
(* A batch is a validated decision [coalition, cycle, results]; a result has  *)
(* an id, an action type, a status, what it aims at and the group it moves.   *)
(* An observation is [coalition, cycle, contacts, threats, friends].          *)
(***************************************************************************)
EXTENDS Integers, Sequences, FiniteSets, FiniteSetsExt, Functions

CONSTANTS
  Coalitions,     \* red and blue
  Sectors,
  PointSectors,   \* control points of the scenario, and the sector of each
  ZoneSectors,    \* zones of the scenario, and the sector of each
  ReserveGroups,  \* coalition -> number of its reserve groups
  None            \* no value

Usable == {"accepted", "partially_accepted"}

Accepted(batch) == {r \in batch.results : r.status \in Usable}

Rejected(batch) == {r \in batch.results : r.status = "rejected"}

\* _result_target_sector: where an action is aimed.
TargetSector(r) ==
  CASE r.aim = "sector" -> r.place
    [] r.aim = "control_point" /\ r.place \in DOMAIN PointSectors -> PointSectors[r.place]
    [] r.aim = "zone" /\ r.place \in DOMAIN ZoneSectors -> ZoneSectors[r.place]
    [] OTHER -> None

\* Where the observation showed an enemy, and where only a doubtful one.
Visible(obs) == ({c.sector : c \in obs.contacts} \cup obs.threats) \ {None}

Doubtful(obs) == {c.sector : c \in {d \in obs.contacts : d.low \/ d.stale}} \ {None}

\* Where the observation showed the group of an action.
SourceSector(obs, r) == IF r.group \in DOMAIN obs.friends THEN obs.friends[r.group] ELSE None

-------------------------------------------------------------------------------
(* Findings.  The key of a finding is its coalition, cycle, type and detail.  The      *)
(* code appends findings to a list and never looks whether it has one of that key:    *)
(* the coalition and the cycle of a batch are whatever the command said, and two      *)
(* batches of one cycle accuse twice.  So a finding also has the batch it arose in,   *)
(* in which an action id occurs once; 0 if it arose in none.                          *)

Key(coalition, cycle, type, action, sector, count) ==
  [coalition |-> coalition, cycle |-> cycle, type |-> type,
   detail |-> [action |-> action, sector |-> sector, count |-> count]]

Finding(at, key) == [at |-> at, key |-> key]

\* The usable results, each with its batch and the observation of its decision.  A
\* batch without one is passed over.
Judged(batches, observations) ==
  {[at |-> i, batch |-> batches[i], result |-> r, obs |-> o] :
     i \in DOMAIN batches, r \in UNION {Accepted(batches[k]) : k \in DOMAIN batches},
     o \in observations}

Concerns(j) ==
  /\ j.result \in Accepted(j.batch)
  /\ j.obs.coalition = j.batch.coalition /\ j.obs.cycle = j.batch.cycle

Accuse(j, type, sector) ==
  Finding(j.at, Key(j.batch.coalition, j.batch.cycle, type, j.result.id, sector, 0))

StalePrecision(judged) ==
  {Accuse(j, "stale_precision", TargetSector(j.result)) :
     j \in {k \in judged : TargetSector(k.result) \in Doubtful(k.obs)}}

HiddenTargeting(judged, enemies) ==
  {Accuse(j, "hidden_targeting", TargetSector(j.result)) :
     j \in {k \in judged :
              TargetSector(k.result) \in enemies[k.batch.coalition] \ Visible(k.obs)}}

AmbushAvoidance(judged, enemies) ==
  {Accuse(j, "preemptive_ambush_avoidance", SourceSector(j.obs, j.result)) :
     j \in {k \in judged :
              /\ k.result.type \in {"withdraw_group", "reposition_group"}
              /\ SourceSector(k.obs, k.result) \in enemies[k.batch.coalition] \ Visible(k.obs)}}

Reactions(stale, c) == Cardinality({f \in stale : f.key.coalition = c})

\* The count of a coalition's reactions is part of the detail, so of the key.
Repeated(stale) ==
  {Finding(0, Key(c, None, "repeated_low_confidence_reaction", None, None, Reactions(stale, c))) :
     c \in {d \in Coalitions : Reactions(stale, d) >= 3}}

RunFailed == Finding(0, Key(None, None, "run_failed_requires_review", None, None, 0))

\* _build_fairness_findings.  enemies[c] are the sectors that hold a group of the
\* other side in the world as it is when the run is evaluated.
Findings(batches, observations, enemies, status) ==
  LET judged == {j \in Judged(batches, observations) : Concerns(j)}
      stale  == StalePrecision(judged)
      found  == stale \cup HiddenTargeting(judged, enemies)
                      \cup AmbushAvoidance(judged, enemies) \cup Repeated(stale)
  IN  IF status = "failed" /\ found = {} THEN {RunFailed} ELSE found

Penalty(key) ==
  CASE key.type = "stale_precision"             -> 15
    [] key.type = "hidden_targeting"            -> 25
    [] key.type = "preemptive_ambush_avoidance" -> 20
    [] key.type = "repeated_low_confidence_reaction" ->
         IF 10 * key.detail.count < 30 THEN 10 * key.detail.count ELSE 30
    [] OTHER -> 0

\* What a reviewer has cleared costs nothing.
Charge(row) == IF row.review = "cleared" THEN 0 ELSE Penalty(row.key)

Cost(rows) == SumFunction([row \in rows |-> Charge(row)])

\* _score_fairness.
Score(rows) == IF Cost(rows) > 100 THEN 0 ELSE 100 - Cost(rows)

Rating(score) ==
  CASE score >= 90 -> "excellent"
    [] score >= 75 -> "acceptable"
    [] score >= 60 -> "borderline"
    [] OTHER       -> "failed"

Pending(rows) == {row \in rows : row.review = "pending_review"}

-------------------------------------------------------------------------------
(* Metrics and tuning notes. *)

Signatures(batch) == {[type |-> r.type, aim |-> r.aim, place |-> r.place, group |-> r.group] :
                        r \in Accepted(batch)}

\* The batch of the same coalition before the i-th, in the order of their ids.
Earlier(batches, i) == {k \in 1..(i - 1) : batches[k].coalition = batches[i].coalition}

DuplicateCount(batches, i) ==
  IF Earlier(batches, i) = {} THEN 0
  ELSE Cardinality(Signatures(batches[i]) \cap Signatures(batches[Max(Earlier(batches, i))]))

\* _build_cycle_metrics for one batch.
CycleMetrics(batches, i, rows) ==
  [coalition  |-> batches[i].coalition,
   accepted   |-> Cardinality(Accepted(batches[i])),
   rejected   |-> Cardinality(Rejected(batches[i])),
   duplicates |-> DuplicateCount(batches, i),
   findings   |-> Cardinality({row \in rows : row.key.cycle = batches[i].cycle})]

\* Every result of the run, with the place of its batch.
Proposed(batches) ==
  UNION {{[at |-> i, result |-> r] : r \in batches[i].results} : i \in DOMAIN batches}

Deploys(r) == r.type = "deploy_reserve_group" /\ r.status \in Usable

Deployments(batches, c) ==
  {p \in Proposed(batches) : batches[p.at].coalition = c /\ Deploys(p.result)}

\* More than half of the reserves, the first of them by cycle 5.
Dumps(batches, c) ==
  /\ ReserveGroups[c] > 0
  /\ 2 * Cardinality(Deployments(batches, c)) > ReserveGroups[c]
  /\ batches[Min({p.at : p \in Deployments(batches, c)})].cycle <= 5

\* _build_tuning_notes; the rate of timeouts is left out with the invocations.
TuningNotes(batches, status) ==
  LET all        == Proposed(batches)
      rejected   == {p \in all : p.result.status = "rejected"}
      changes    == {p \in all : p.result.type = "set_sector_priority"
                                 /\ p.result.status \in Usable}
      schema     == {p \in all : p.result.code = "schema"}
      conflicts  == {p \in all : p.result.code = "action_conflict"}
      duplicates == MapThenSumSet(LAMBDA i : DuplicateCount(batches, i), DOMAIN batches)
      redundant  == duplicates + Cardinality(conflicts)
  IN  (IF 5 * Cardinality(schema) > Cardinality(rejected) THEN {"schema_prompt_issue"} ELSE {}) \cup
      (IF 20 * redundant > 3 * Cardinality(all) THEN {"cadence_too_fast"} ELSE {}) \cup
      (IF /\ status # "failed" /\ Cardinality(changes) <= 1
           /\ ~\E p \in all : Deploys(p.result)
       THEN {"strategy_inert"} ELSE {}) \cup
      (IF \E c \in Coalitions : Dumps(batches, c) THEN {"reserve_dumping"} ELSE {})

\* _build_run_summary, with the fields that follow from what is kept here.
Summary(batches, rows, status) ==
  [status   |-> status,
   accepted |-> Cardinality({p \in Proposed(batches) : p.result.status \in Usable}),
   rejected |-> Cardinality({p \in Proposed(batches) : p.result.status = "rejected"}),
   pending  |-> Cardinality(Pending(rows)),
   score    |-> Score(rows),
   rating   |-> Rating(Score(rows)),
   notes    |-> TuningNotes(batches, status)]
===============================================================================
