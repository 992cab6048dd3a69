---------------------------- MODULE FairnessReview ----------------------------
(***************************************************************************)
(* The evaluation of a run and the review of its findings, by concurrent      *)
(* commands, while the run may still go on.  An evaluation reads its evidence *)
(* table by table over separate connections, replaces the rows of             *)
(* fairness_findings, carrying over the verdicts it has read, and then writes *)
(* the metrics and the summary; a review stores a verdict by the id of a row  *)
(* and evaluates the run again.  Nothing is locked, and a command may die at  *)
(* any step.                                                                  *)
(***************************************************************************)
EXTENDS FairnessFindings

CONSTANTS
  Sessions,     \* concurrent commands
  Decisions,    \* what the run may decide: [obs, batch] of one coalition and cycle
  Begun,        \* the decisions made before the first command
  Worlds,       \* the worlds of the run in their order; of each, for a coalition the
                \* sectors that hold a group of the other side
  MaxMoves,     \* bound on what the run adds to its evidence in a behaviour
  MaxRequests   \* bound on the commands of a behaviour

ASSUME ReviewAssumption ==
  /\ IsFiniteSet(Coalitions) /\ IsFiniteSet(Decisions)
  /\ \A d \in Decisions : /\ IsFiniteSet(d.batch.results)
                          /\ d.batch.cycle = d.obs.cycle
  /\ Begun \in Seq(Decisions)
  /\ \A i, j \in DOMAIN Begun :
       /\ Begun[i].obs.coalition = Begun[j].obs.coalition
       /\ Begun[i].obs.cycle = Begun[j].obs.cycle
       => Begun[i].obs = Begun[j].obs
  /\ Worlds \in Seq([Coalitions -> SUBSET Sectors]) /\ Worlds # <<>>
  /\ MaxMoves \in Nat /\ MaxRequests \in Nat

VARIABLES
  status,        \* status of the run
  observations,  \* table observations
  batches,       \* table action_validation_batches, by id
  world,         \* the world state, as an index of Worlds
  findings,      \* table fairness_findings: rows [id, key, review]
  lastId,        \* the AUTOINCREMENT counter of the table
  metrics,       \* table evaluation_cycle_metrics: cycle -> row, or None
  summary,       \* the row of the run in evaluation_run_summaries, or None
  moves,         \* what the run has added so far
  pc,            \* the step a session's command has reached
  asked,         \* the row a reviewer gives a verdict on, and the verdict
  seen,          \* what a session has read, and what it has written
  requests,      \* commands made so far
  given,         \* history: the verdicts reviewers gave, with the key they gave them on
  standing,      \* history: the latest of them on the row of a key that counts, unless an
                 \* evaluation might not know it
  overtaken,     \* history: the keys so reviewed since a session read the findings
  calm,          \* history: the sessions whose evaluation nothing has disturbed
  settled        \* history: nothing has changed since an undisturbed evaluation

run     == <<status, observations, batches, world, moves>>
results == <<findings, lastId, metrics, summary>>
history == <<given, standing, overtaken, calm, settled>>
vars    == <<status, observations, batches, world, moves, findings, lastId, metrics, summary,
             pc, asked, seen, requests, given, standing, overtaken, calm, settled>>

Verdicts == {"cleared", "confirmed_leakage"}
Reviews  == Verdicts \cup {"pending_review"}

Cycles == {d.obs.cycle : d \in Decisions}

Steps == {"idle", "update", "run", "observations", "batches", "world", "findings",
          "replace", "metrics", "summary"}

Nothing == [status |-> None, observations |-> {}, batches |-> <<>>, enemies |-> None,
            existing |-> {}, persisted |-> {}]

ReviewInit ==
  /\ status = "running"
  /\ observations = {Begun[i].obs : i \in DOMAIN Begun}
  /\ batches = [i \in DOMAIN Begun |-> Begun[i].batch]
  /\ world = 1 /\ moves = 0
  /\ findings = {} /\ lastId = 0 /\ summary = None
  /\ metrics = [c \in Cycles |-> None]
  /\ pc = [s \in Sessions |-> "idle"]
  /\ asked = [s \in Sessions |-> None]
  /\ seen = [s \in Sessions |-> Nothing]
  /\ requests = 0
  /\ given = {} /\ standing = {}
  /\ overtaken = [s \in Sessions |-> {}]
  /\ calm = {} /\ settled = FALSE

-------------------------------------------------------------------------------
(* The run, as evaluations see it. *)

Disturbed == calm' = {} /\ settled' = FALSE

RunMoves ==
  /\ Disturbed
  /\ UNCHANGED <<results, pc, asked, seen, requests, given, standing, overtaken>>

EvidenceMoves ==
  /\ moves < MaxMoves
  /\ moves' = moves + 1
  /\ RunMoves

\* A driver or build-observation saves an observation, in the one row of its coalition
\* and cycle.  A command names any cycle, and asks for no status of the run.
Observe(d) ==
  /\ observations' =
       {o \in observations : <<o.coalition, o.cycle>> # <<d.obs.coalition, d.obs.cycle>>}
         \cup {d.obs}
  /\ EvidenceMoves
  /\ UNCHANGED <<status, batches, world>>

\* A driver or validate-actions saves a batch: one more, also where the coalition and
\* the cycle have one.
Validate(d) ==
  /\ batches' = Append(batches, d.batch)
  /\ EvidenceMoves
  /\ UNCHANGED <<status, observations, world>>

\* The world moves on, also after the run.
Ingest ==
  /\ world < Len(Worlds)
  /\ world' = world + 1
  /\ EvidenceMoves
  /\ UNCHANGED <<status, observations, batches>>

Fail ==
  /\ status = "running"
  /\ status' = "failed"
  /\ RunMoves
  /\ UNCHANGED <<observations, batches, world, moves>>

-------------------------------------------------------------------------------
(* Commands. *)

Goto(s, step) == pc' = [pc EXCEPT ![s] = step]

Ends(s) ==
  /\ Goto(s, "idle")
  /\ asked' = [asked EXCEPT ![s] = None]
  /\ seen' = [seen EXCEPT ![s] = Nothing]
  /\ overtaken' = [overtaken EXCEPT ![s] = {}]

\* eval-run.
AskEvaluation(s) ==
  /\ pc[s] = "idle" /\ requests < MaxRequests
  /\ Goto(s, "run")
  /\ requests' = requests + 1
  /\ UNCHANGED <<run, results, asked, seen, history>>

\* A reviewer has looked at the queue, which lists what is pending and cannot be built
\* without a summary, and decides on a finding.
AskReview(s) ==
  /\ pc[s] = "idle" /\ requests < MaxRequests
  /\ summary # None
  /\ \E row \in Pending(findings), v \in Verdicts :
       asked' = [asked EXCEPT ![s] = [id |-> row.id, key |-> row.key, verdict |-> v]]
  /\ Goto(s, "update")
  /\ requests' = requests + 1
  /\ UNCHANGED <<run, results, seen, history>>

\* The last of some rows.
LastOf(rows) == CHOOSE row \in rows : \A other \in rows : other.id <= row.id

\* The row of a key that counts: a dictionary of the findings by key keeps the last.
Counts(row) == \A other \in findings : other.key = row.key => other.id <= row.id

Marked(rows, id, verdict) ==
  {IF row.id = id THEN [row EXCEPT !.review = verdict] ELSE row : row \in rows}

\* update_fairness_finding_review: by id, whichever row has it by now; it raises when
\* none has.
UpdateReview(s) ==
  /\ pc[s] = "update"
  /\ IF \E row \in findings : row.id = asked[s].id
     THEN LET v   == asked[s].verdict
              key == asked[s].key
          IN  /\ findings' = Marked(findings, asked[s].id, v)
              /\ given' = given \cup {[key |-> key, review |-> v]}
              /\ IF \E row \in findings : row.id = asked[s].id /\ Counts(row)
                 THEN /\ standing' = {p \in standing : p.key # key}
                                       \cup {[key |-> key, review |-> v]}
                      /\ overtaken' = [t \in Sessions |-> overtaken[t] \cup {key}]
                 ELSE UNCHANGED <<standing, overtaken>>
              /\ Disturbed
              /\ Goto(s, "run")
              /\ UNCHANGED <<asked, seen>>
     ELSE Ends(s) /\ UNCHANGED <<findings, given, standing, calm, settled>>
  /\ UNCHANGED <<run, lastId, metrics, summary, requests>>

-------------------------------------------------------------------------------
(* evaluate_run, one connection after the other. *)

Reads(s, step, next, read) ==
  /\ pc[s] = step
  /\ Goto(s, next)
  /\ seen' = [seen EXCEPT ![s] = read]
  /\ UNCHANGED <<run, results, asked, requests, given, standing, settled>>

ReadStatus(s) ==
  /\ Reads(s, "run", "observations", [seen[s] EXCEPT !.status = status])
  /\ calm' = calm \cup {s}
  /\ UNCHANGED overtaken

ReadObservations(s) ==
  /\ Reads(s, "observations", "batches", [seen[s] EXCEPT !.observations = observations])
  /\ UNCHANGED <<calm, overtaken>>

ReadBatches(s) ==
  /\ Reads(s, "batches", "world", [seen[s] EXCEPT !.batches = batches])
  /\ UNCHANGED <<calm, overtaken>>

ReadWorld(s) ==
  /\ Reads(s, "world", "findings", [seen[s] EXCEPT !.enemies = Worlds[world]])
  /\ UNCHANGED <<calm, overtaken>>

ReadFindings(s) ==
  /\ Reads(s, "findings", "replace", [seen[s] EXCEPT !.existing = findings])
  /\ overtaken' = [overtaken EXCEPT ![s] = {}]
  /\ UNCHANGED calm

Found(s) ==
  Findings(seen[s].batches, seen[s].observations, seen[s].enemies, seen[s].status)

MutCarriesWithoutDetail(old, key) ==
  old.key.coalition = key.coalition /\ old.key.cycle = key.cycle /\ old.key.type = key.type

\* _finding_key decides which finding is which.
Carries(old, key) == old.key = key

\* _reuse_or_create_finding: every finding of a key has the review of the row that
\* counts.
Carried(existing, key) ==
  IF \E old \in existing : Carries(old, key)
  THEN LastOf({old \in existing : Carries(old, key)}).review
  ELSE "pending_review"

MutFirstIdRestarts(last) == 1

MutFirstIdIsLast(last) == last

FirstId(last) == last + 1

Numbered(S) == CHOOSE n \in [S -> 1..Cardinality(S)] : \A f, g \in S : n[f] = n[g] => f = g

\* The ids of findings, numbered on batch by batch from the last id ever given; which of a
\* batch comes first makes no difference, as no two of them have the same key.
Id(found, f, last) ==
  FirstId(last) - 1 + Cardinality({g \in found : g.at < f.at})
    + Numbered({g \in found : g.at = f.at})[f]

\* The rows that are inserted.
Inserted(found, existing, last) ==
  {[id |-> Id(found, f, last), key |-> f.key, review |-> Carried(existing, f.key)] : f \in found}

\* What is still needed: the rest of what was read is dropped.
Persisted(s, rows) ==
  [status |-> seen[s].status, observations |-> {}, batches |-> seen[s].batches,
   enemies |-> None, existing |-> {}, persisted |-> rows]

MutReplaceAppends(s) ==
  /\ pc[s] = "replace"
  /\ LET found == Found(s)
         rows  == Inserted(found, seen[s].existing, lastId)
     IN  /\ findings' = findings \cup rows
         /\ lastId' = lastId + Cardinality(found)
         /\ seen' = [seen EXCEPT ![s] = Persisted(s, rows)]
         /\ standing' = {p \in standing : p.key \in {f.key : f \in found} \ overtaken[s]}
  /\ calm' = calm \cap {s} /\ settled' = FALSE
  /\ Goto(s, "metrics")
  /\ UNCHANGED <<run, metrics, summary, asked, requests, given, overtaken>>

\* replace_fairness_findings: the rows of the run are deleted and inserted anew in
\* one transaction.
Replace(s) ==
  /\ pc[s] = "replace"
  /\ LET found == Found(s)
         rows  == Inserted(found, seen[s].existing, lastId)
     IN  /\ findings' = rows
         /\ lastId' = lastId + Cardinality(found)
         /\ seen' = [seen EXCEPT ![s] = Persisted(s, rows)]
         /\ standing' = {p \in standing : p.key \in {f.key : f \in found} \ overtaken[s]}
  /\ calm' = calm \cap {s} /\ settled' = FALSE
  /\ Goto(s, "metrics")
  /\ UNCHANGED <<run, metrics, summary, asked, requests, given, overtaken>>

\* save_evaluation_cycle_metrics: the primary key is run and cycle, so of the
\* batches of a cycle the last leaves its row.
SaveMetrics(s) ==
  /\ pc[s] = "metrics"
  /\ LET read  == seen[s].batches
         of(c) == {i \in DOMAIN read : read[i].cycle = c}
     IN  metrics' = [c \in Cycles |->
                       IF of(c) = {} THEN metrics[c]
                       ELSE CycleMetrics(read, Max(of(c)), seen[s].persisted)]
  /\ calm' = calm \cap {s} /\ settled' = FALSE
  /\ Goto(s, "summary")
  /\ UNCHANGED <<run, findings, lastId, summary, asked, seen, requests, given, standing,
                 overtaken>>

SaveSummary(s) ==
  /\ pc[s] = "summary"
  /\ summary' = Summary(seen[s].batches, seen[s].persisted, seen[s].status)
  /\ settled' = (s \in calm)
  /\ calm' = calm \ {s}
  /\ Ends(s)
  /\ UNCHANGED <<run, findings, lastId, metrics, requests, given, standing>>

\* The command dies with its verdict stored but before it has evaluated, or between two
\* of its later writes: what it has written stays.  (At any other step it leaves what it
\* leaves at one of these, or what a command that was never started leaves.)
Killed(s) ==
  /\ (pc[s] = "run" /\ asked[s] # None) \/ pc[s] \in {"metrics", "summary"}
  /\ Ends(s)
  /\ calm' = calm \ {s}
  /\ UNCHANGED <<run, results, requests, given, standing, settled>>

Evaluate(s) ==
  \/ ReadStatus(s)
  \/ ReadObservations(s)
  \/ ReadBatches(s)
  \/ ReadWorld(s)
  \/ ReadFindings(s)
  \/ Replace(s)
  \/ SaveMetrics(s)
  \/ SaveSummary(s)

Finished ==
  /\ requests = MaxRequests
  /\ \A s \in Sessions : pc[s] = "idle"
  /\ UNCHANGED vars

ReviewNext ==
  \/ \E d \in Decisions : Observe(d) \/ Validate(d)
  \/ Ingest
  \/ Fail
  \/ \E s \in Sessions :
       AskEvaluation(s) \/ AskReview(s) \/ UpdateReview(s) \/ Evaluate(s) \/ Killed(s)
  \/ Finished

ReviewSpec == ReviewInit /\ [][ReviewNext]_vars
-------------------------------------------------------------------------------
(* Properties. *)

RowsOK(rows) ==
  /\ \A row \in rows : row.id \in 1..lastId /\ row.review \in Reviews
  /\ \A row, other \in rows : row.id = other.id => row = other

\* Every variable has its type; no two findings share an id, in the table or in what a
\* command has read of it, and no id exceeds the counter.
ReviewTypeOK ==
  /\ status \in {"running", "failed"}
  /\ observations \subseteq {d.obs : d \in Decisions}
  /\ batches \in Seq({d.batch : d \in Decisions})
  /\ world \in DOMAIN Worlds
  /\ lastId \in Nat
  /\ RowsOK(findings)
  /\ pc \in [Sessions -> Steps]
  /\ \A s \in Sessions : /\ RowsOK(seen[s].existing)
                         /\ RowsOK(seen[s].persisted)
                         /\ pc[s] = "update" => asked[s].id \in 1..lastId
  /\ calm \subseteq Sessions /\ settled \in BOOLEAN
  /\ requests \in 0..MaxRequests /\ moves \in 0..MaxMoves

\* A verdict is stored on the finding the reviewer looked at: however often the rows
\* are deleted and inserted anew in between, its id is gone or still means it.
ReviewsHitTheirFinding ==
  \A s \in Sessions : pc[s] = "update" =>
    \A row \in findings : row.id = asked[s].id => row.key = asked[s].key

\* A verdict given on the row of a key that counts stands: it is lost only in an
\* evaluation that no longer finds that key or had read the table before it was given,
\* whatever verdicts fall on the other rows of the key and however often all of them are
\* deleted and inserted anew.  No finding shows a verdict that nobody gave on its key.
VerdictsStand ==
  /\ \A p \in standing :
       \E row \in findings : Counts(row) /\ row.key = p.key /\ row.review = p.review
  /\ \A row \in findings :
       row.review # "pending_review" => [key |-> row.key, review |-> row.review] \in given

OfKey(S, key) == {row \in S : row.key = key}

\* After an evaluation that nothing disturbed the table holds a row for each finding of
\* the evidence, as many of a key as it has, all of them with one review; summary and
\* metrics agree with them, and a run that failed is in the review queue, whatever
\* commands were killed or overlapped before.
SettledIsTrue ==
  settled =>
    /\ LET found == Findings(batches, observations, Worlds[world], status)
       IN  \A key \in {row.key : row \in findings} \cup {f.key : f \in found} :
             Cardinality(OfKey(findings, key)) = Cardinality(OfKey(found, key))
    /\ \A row, other \in findings : row.key = other.key => row.review = other.review
    /\ summary = Summary(batches, findings, status)
    /\ status = "failed" => Pending(findings) # {} \/ summary.pending = 0
    /\ \A i \in DOMAIN batches :
         metrics[batches[i].cycle].findings =
           Cardinality({row \in findings : row.key.cycle = batches[i].cycle})

\* "reviewed["summary"].findings_pending_review < summary.findings_pending_review": what
\* a review returns has fewer findings to review than the summary before it.
ReviewsShortenTheQueue ==
  [][\A s \in Sessions :
       SaveSummary(s) /\ asked[s] # None => summary'.pending < summary.pending]_vars

\* The score of a run is a percentage, and no summary ever shows another one.
ScoresArePercentages ==
  /\ Score(findings) \in 0..100
  /\ summary # None => summary.score \in 0..100

\* A verdict moves the score the way it says: storing "cleared" never lowers the score
\* of the findings and storing "confirmed_leakage" never raises it, whatever other
\* commands have done since the reviewer looked.
VerdictsMoveTheScore ==
  [][\A s \in Sessions : UpdateReview(s) =>
       /\ asked[s].verdict = "cleared" => Score(findings') >= Score(findings)
       /\ asked[s].verdict = "confirmed_leakage" => Score(findings') <= Score(findings)]_vars
===============================================================================
