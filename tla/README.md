# Formal models of DCS Dungeon Master

DCS Dungeon Master lets two language models command the red and the blue coalition of a DCS
World mission. In every decision cycle the program ingests what the simulator reports, builds
one fogged observation per coalition, asks each coalition's model for a batch of actions, judges
the batch, carries it out on the simulator and records everything in an SQLite store. This
directory holds TLA+ models of the parts of it that are hard to test, the TLC runs that check
them on small instances, and TLAPS proofs of what holds for every instance. Paths below are
relative to `src/dcs_dungeon_master/` of the repository.

Parse a module with `tlasany M.tla`, check a run with `tlc -config X.cfg M.tla`, check the proofs
of a module with `tlapm M.tla`. `PROJECT.json` is the index: components, runs, which lines each
definition translates, hazards, mutants (one plausible bug per property, which the run must
notice), findings and theorems.

## 1. The system

| component | code | state it keeps | operations | what is hard |
|---|---|---|---|---|
| Run lifecycle | `operator_control`, `persistence/sqlite_store.py` 947-, CLI and loop heads | the row of `runs`: status, timestamps, terminal reason | start, pause, resume, stop, fail; the gate of a command; the head of a loop; failure handlers | no lock: check and write are on different connections; loops read the status only between cycles |
| World state and ingest | `world_state`, `integration/*` | `world_groups`, `evidence_records`, `world_state_snapshots` | `ingest_once`, `apply_integration_updates` | sources fail one by one, streams repeat records, the world is read, merged in memory and written back |
| Sensor fusion | `sensor_fusion` | `contact_tracks`, `fusion_updates` | `preview`, `save_fusion_update` | what a coalition may know; ageing; the row of a group is current although its sighting is old |
| Observation builder | `observation` | `observations` | `build_observation_pair`, `build_observation` | both sides must see one snapshot; several accesses to the store with anything in between |
| Model adapter and decision cycle | `model_adapter`, `LiveCommandLoopRunner` | `model_invocations`, `decision_cycles` | retries, failover, recording, classification of a cycle | backends that fail in every way, a driver that dies between two saves, two drivers on one cycle number, verdicts saved between the fetch of one and its execution |
| Action validation | `action_validation` | `action_validation_batches` (and, while it runs, four tables of claims) | `validate_payload` | many stages whose order matters, conflicts within a batch |
| Execution engine | `execution`, `integration/olympus.py` | `execution_batches`, standing orders, budget, reserves, active groups | `execute_validation_batch`, plan, send, apply | the simulator is outside the transaction; timeouts, partial success, stale verdicts, crashes |
| Evaluation | `evaluation` | `fairness_findings`, `evaluation_cycle_metrics`, `evaluation_run_summaries`; the runs of a matrix | `evaluate_run`, `review_finding`, comparison, matrix | findings are deleted and inserted anew while reviewers hold their ids; several may share a key; the evidence grows meanwhile |
| Audit | `audit` | none | leak search | none: it reads |
| Scenario registry and drafts | `scenario_state/registry.py`, `web_ui/scenario_drafts.py` | TOML files, `scenario_drafts` | create, update, rename, duplicate, revert, delete, save as a scenario; seeding a run | two files and a table that no transaction joins; files are cut before they are filled; whole rows are stored |
| Web UI, HTTP server | `web_ui/api.py`, `web_ui/server.py` | the routing of a run | passes commands on, resolves and patches a routing, one thread per request | its threads are the concurrent sessions of every module; a patch checks and stores on different connections |
| Persistence | `persistence/sqlite_store.py` | the database | one connection and one transaction per call | atomic only within one call |
| Configuration, wiring | `core/config.py`, `app.py`, `__main__.py` | none | `load_config`, the registry of a driver | three ways to name a backend must end in a backend that the driver has |
| Frontend | `frontend/` | none | | |

They meet in the database. A *driver* is the process of a loop or of a command that ingests,
observes, asks or executes; the web UI's threads and other CLI commands run beside it. Nothing in
the code keeps a second driver off a run. Every call of the store opens a connection of its own, so
**each access to the store is a step of the models**, and a process may die between any two.

What makes the parts correct, in one sentence each: a run's row tells its real history and nothing
but the table of transitions changes its status; commanders see only what their side sighted, as
old as it is; an accepted batch is consistent and can be built; reserves, budget, groups, standing
orders and simulator stay in step whatever fails; an invocation says what was asked and answered
and a cycle cites its own rows, which stay as they are; a pause takes effect, a cycle ends, an unconfirmed contact goes away; a started run
keeps its routing, and every backend it may ask exists; nothing that does not load is published, and a run is
seeded whole; a reviewer's verdict hits the row that was looked at and, on the
row of a key that counts, stands as long as its evidence.

## 2. The modules

Every module is one component; `MC...` modules only give its constants values.

**`RunLifecycle`** - one row of `runs` under operator commands, CLI loops and loops of the evaluation
matrix. A status write is three steps, `Decide` (`_transition`'s read and table), `Reread` (the read
that opens `update_run_status` and picks the timestamp column) and `Write` (an UPDATE that does not
look at what it replaces). A loop is `Launch`, `Gate` (`ensure_cycle_allowed`), `Top` (the head of
an iteration), the cycle, and `Handler` (the CLI's or the matrix's except block). `Killed` drops a
process between two steps. `stamps` is the set of columns that are not NULL.

**`ModelRouting`** - which backends a run may ask, as pure operators: the catalog and both forms of the
`[model_routing]` section (`Reference`, `ConfigRoute`, `ConfigLoads`), the routing that a request of the web UI asks for
(`Listed`, `Selected`, `RequestedRoute`), that of a matrix case, and the registry a driver builds (`Adapters`, `Chain`).
**`RoutedRun`** composes it with `RunLifecycle`: a patch is `CheckPatch` (status and resolution) and `StorePatch` (the
UPDATE), a loop of the command line reads the row in `LaunchRouted`, before its gate. The composition only adds
variables: it implements `RunLifecycle`'s specification, which is proved.

**`ActionRules`** - the stages of `_validate_one` as predicates on one action and a *view* (what the
validator reads), the declarative conflict `Clash`, the declarative verdict `IsAccepted`, and what
the engine's plan of an action looks up (`Buildable`). **`ActionValidator`** is `validate_payload`:
one step per action of the first pass, one per action of `_apply_conflicts` with its four tables.
**`OneVerdict`** is the abstract specification: one step that
answers with a verdict `IsAccepted` admits. The validator implements it (checked, and proved for every length of a
batch), and `IsAccepted` admits exactly one verdict on a batch in a view (proved), which is why `Execution` may use it as one
step. Every refusal of the parser and of the schema is the action type `malformed`. **`SmallFront`** is the scenario of the
runs, shared by validator and execution.

**`Execution`** - the engine of one coalition on its part of the store and the simulator, which is
reduced to where it was last told to have each group. `Judge` to `Open` make and fetch the verdict,
`Plan`, `SendAccepted`, `SendFails`, `Apply`, `Refresh` handle an action, `Finish`, `Abort` and
`Dies` end a batch. `Faults` selects: a refused command, one that times out after it took effect, a
locked database, a killed process. **`ReservePool`** is the abstract specification of what the engine does to
budget, reserves and groups: it buys one available reserve at its price and deploys it. `Execution` implements it under
the mapping of `Reserve` (funds to the budget, deployed to the reserves whose group is on the map), checked as a
property and proved for one driver.

**`FogOfWar`** - ingest, fusion and observation, with a clock. `Collect` and `SaveWorld` are
`ingest_once`; `Open`, `Preview`, `SaveFusion` and two `Observe` are `build_observation_pair`; `Move` is
what an execution does to a row of the world. A track is the evidence that backs it and what
`_build_track` derives from that evidence and from the row of the group.

**`DecisionCycle`** - a driver's turn for red, then for blue: `Answered`, `Retry`, `FailOver`, `GiveUp`
are one request each, `Judge` saves the verdict, `Note` the invocation. An execution is a step for each connection: `Fetch`
reads *the latest* verdict of the coalition, `Open` inserts a row that names it, `Start` and `Complete` or `Abort` write
the row over. Between any two another driver or `ValidateActions` (the command) may save a newer verdict, and a death
leaves the row as it is, pending or in flight. `Close` replaces the row of the cycle number. `heard` is a history
variable: the replies that really came in, against which the recorded invocation is compared. **`DecisionLedger`** is the
abstract specification of the rows, without the drivers: verdicts and invocations are only added and a verdict
is cited by one invocation; an answered invocation is executed once, with its own verdict or a later one about its coalition,
in a row that keeps both and moves only from pending to in flight to completed or aborted; a cycle cites completed
executions. `DecisionCycle` implements it for any number of drivers (checked, and proved).

**`ScenarioDefinitions`** - an authored scenario as sets of rows: what `load_scenario_definition_data` accepts, refuses and
lets through as a ValueError (`Outcome`), what is read back from a saved file (`SavedDefinition`, `SavedRegistry`), what a
run can be seeded from (`Seedable`). **`ScenarioStudio`** - requests of the web UI on drafts: `OpenDraft` reads the row,
`ReadIndex` and `ReadFile` the published scenario, `Store` upserts the whole row; `CheckFile` to `FillRegistry` are
`save_as_scenario`, where each `write_text` is a cut and a fill, and two fills that overlap may mix. `alone` is a history
variable: the saves that no other save has overlapped.

**`FairnessFindings`** - the findings, score, rating, metrics and tuning notes of `evaluation` as pure operators on batches and
observations. The code keeps findings in a list: here a finding is a key and the batch it arose in, so that two
batches of one cycle accuse twice. **`FairnessReview`** - `evaluate_run` and `review_finding` as concurrent commands beside a
run that goes on: `Observe` replaces the observation of its cycle, `Validate` adds one batch more, also where the
cycle has one, `Ingest` and `Fail` do what they say. `ReadStatus`, `ReadObservations`, `ReadBatches`, `ReadWorld`, `ReadFindings`,
`Replace`, `SaveMetrics`, `SaveSummary` are connections of `evaluate_run`, `AskReview` is a look at the queue, `UpdateReview` the
UPDATE by id. Of the rows that share a key the last one counts (`Counts`), because `existing_findings` keeps its review and
gives it to all of them. `given`, `standing`, `overtaken`, `calm` and `settled` are history variables: the verdicts given, those
on rows that count which still bind, and whether an evaluation has been disturbed.

**`FiniteSums`** states what the proofs need of sums over finite sets (what a budget has been spent on, what findings cost a
score). The `...Proofs` modules hold the theorems of the component they are named after.

How they fit together: `RunLifecycle`'s phase `cycle` is one round of `FogOfWar`'s driver
(ingest, pair) followed by `DecisionCycle` from `Begin` to `Close`; `Judge` of `DecisionCycle` is
`ActionValidator`; its `Fetch` to `Complete` is `Execution` from `Open` to `Finish`; `Move` of `FogOfWar` is `Apply`; the
routing a driver of `DecisionCycle` holds is what `RoutedRun`'s loop has read; a run starts from what `ScenarioStudio`'s
`SeedRun` inserts, and `FairnessReview` reads what `Judge` and `Observe` store. Each
module takes over from its neighbours the nondeterministic choice of everything they may do (any verdict
`IsAccepted` admits, any reply, either outcome of a batch). `Execution` EXTENDS `ActionRules`, so a change of a
rule reaches both.

## 3. The runs

| run | asks | distinct states |
|---|---|---|
| `MCRunLifecycle` | two operators, a CLI loop, a matrix loop, two commands and a patch of the routing: does the row stay consistent with its history, does a pause bring the loops to rest, is every backend there and the routing of a started run final? | 420,613 |
| `RunLifecycleTerminal` (violated) | are stopped and failed final? | |
| `MCActionValidator` | every batch of up to three actions out of seventeen, ten views: does the validator answer once, with the declared verdict, do the tables catch every clash and nothing else, can what is accepted be built? | 463,280 |
| `ActionBudget` (violated) | does the budget pay for an accepted batch? | |
| `MCExecution` | one driver, two batches, all faults: does the engine implement the reserve pool, do store and simulator stay in step, does a cycle end? | 23,790 |
| `ExecutionSkips` (violated) | does a skipped simulator write ask for what is already so? | |
| `MCFogOfWar` | one driver, failing and repeating sources, three ticks, one kill: no leak, one fusion for both, ageing only, contacts go away | 389,085 |
| `FogLastKnown` (violated) | was the "last known" sector seen? | |
| `MCDecisionCycle` | a live and a dry driver on the same cycle number, `validate-actions`, a backend with a fallback and one without, four kinds of reply, one death: are the records true, do they make up a ledger, is a failure recorded, does a cycle end? | 346,307 |
| `MCScenarioStudio` | two sessions, two scenario ids, two drafts, five requests, a kill at any step: is what is published playable, is a run seeded whole, is a save that nobody overlaps complete? | 496,029 |
| `MCFairnessReview` | two commands, three requests, two decisions about one cycle, a run that decides, fails and moves: do verdicts hit and stand, does an undisturbed evaluation tell the evidence? | 688,777 |
| `FairnessDuplicates` (violated) | does a review leave fewer findings to review? | |

**Bounds, and why they are enough.** An overtaken status write needs two writers, and every way of writing the
row occurs with two operators, a CLI loop and a matrix loop; two commands on top of what the loops write reach all
five statuses. Clashes are between pairs, and a third action shows what a rejected second one leaves in the
tables. The front has one specimen of whatever a rule tells apart: an immobile, a foreign and a spent
group, a closed sector, a reserve allowed into a sector off the map. Execution takes two verdicts, since
what can go wrong is between a batch and the next; the violated run needs three. The three windows of the fog
policy are 1, 2 and 3 ticks, so a track passes through all its ages within `MaxClock` = 3, and two ingests
tell a renewed from a repeated sighting. In a decision cycle red's primary
sends text twice, in vain, and its fallback answers or stays silent; blue's only backend answers or sends what kills the
driver. So every step of the asking is taken and both coalitions' answers are executed; a parse failure of the last backend
and a backend listed twice are left to the proofs. Two begun cycles are two drivers on one number or one after
the other, and `validate-actions` saves its verdict while there are fewer than `MaxJudged` = 2. The routing
has an enabled backend in and out of the catalog, a disabled one and a catalog entry of each kind. A draft
overtakes another with two sessions; the payloads hold one specimen of each outcome of the loader, one that loads but
cannot be seeded and one with a line break; five requests are a draft, an edit, a save, a second save and a run. The
decisions of the review make each kind of finding, the repeated reaction among them, and are about one cycle,
with one action id in common: two batches of the first stand at the start, one addition to the evidence (`MaxMoves`) gives
the cycle a third batch, another observation or another world, and the run may fail besides; three commands are an
evaluation, a review and one that overtakes either. The bounds named `Max...` in the modules only stop
new work (a command, a payload, an ingest with news, a tick, a cycle, a death); what has begun is never cut short. Symmetry is used only in runs without liveness properties.

**Fairness.** Weak fairness of the steps of a process that has begun something: the operating system runs
it, every request has a timeout and every retry a limit. `Dies`, `Killed`, commands, launches and new cycles
are never fair: nobody has to give them. `MCFogOfWar` asks for strong fairness of the ingest, because the
loop ingests in every cycle although a picture may be built by hand in between, and for the clock.
Deadlock is checked in every run: the only states without an ordinary step are the explicit `Finished`/`Done`.

**What the violated runs show** (quoted with the documents in PROJECT.json's findings): a pause or
resume checked before another session's stop and stored after it brings a stopped run back; two deployments are
each compared with the whole budget; a repeated movement is skipped as a duplicate of an order that a
later one has overtaken, so the store moves a group without the simulator; the last known
sector of a contact is read from the live row of the group; a verdict on the first of two findings with one
key is undone by the evaluation that belongs to the review itself.

## 4. The proofs

All proofs are for arbitrary constants under the named `ASSUME`s of the modules: types, plus what the inputs
really are (`FogAssumption`: the records of one poll agree about a group; `ExecutionAssumption`: a group that a
reserve becomes is not on the map at the start). Sets may be infinite, except the decisions of a reviewed run and, for
the theorems about the budget, the reserves (`IsFiniteSet(Reserves)`); bounds are any naturals. No order of
the fog windows is assumed. Each proof has its inductive invariant, the lemma that `Init` implies it
and each action preserves it, one step per action, and the property from it. A theorem about a *sole* driver or
process assumes `Drivers = {q}` for some `q`: that is how the program is meant to be run, and the code does not enforce it.

| module | inductive invariant | why the property alone is not inductive | results |
|---|---|---|---|
| `RunLifecycleProofs` | `LifecycleInv` | a write stores what was decided earlier, so one must know that every pending write was decided by the table on the status its writer saw (`WritersDecided`) and that nobody saw anything but `created` while the run is created (`CreatedIsAllThatWasSeen`) | types, `LeavingCreatedIsStamped`, `PausedAtTellsThePause`, `CyclesRunOnStartedRuns`, `OnlyOvertakenWritersBreakTheTable` |
| the same, one process | `SoleInv` = `LifecycleInv` and: what a writer has seen is what the row still holds | without it a write may be overtaken | terminal statuses *are* final (`TerminalIsFinal`); the reads and the UPDATE of a write are as good as one transaction (`WritesAreAtomic`) |
| the same, routing | `RoutingInv` | a chain is served because the routing that was read is one that was configured, requested or patched as a whole, so pending patches and registries are in the invariant | the composition implements `RunLifecycle`; types, `EveryChainIsServed`, `RoutingSettles`, for any catalog, section and requests |
| `ActionValidatorProofs` | `ValidatorInv` | a clash is found through a table, so each table must hold exactly what the standing actions commit | `ImplementsOneVerdict`, coherence, exactness (`VerdictIsAccepted`), buildability, for batches of any length; every batch has one verdict and only one; `Clash` is symmetric, what passes is buildable |
| `ExecutionProofs` | `ExecutionInv` | a plan is made of rows read before, and the verdict is older still | types, `ReservesBecomeGroups`, `PlansFindTheirGroups`, `BatchesSettleOnce`, `OneOrderPerEntity`, `NothingIsFree` (finite reserves), for any number of drivers and any faults |
| the same, one driver | further conjuncts on top of it: the verdict in hand is the newest and not in the log, the copy of the orders is the table, the simulator has every group of the sent commands where the plan wants it (`Obedient`), what is left of the batch can be paid (`DeploymentsAreAffordable`) | these properties hold for one driver only and speak of what it still has in its hands | `ImplementsReservePool`, from which `BooksBalance` (finite reserves); `ExecutedOnce`, `DuplicatesAreCurrent`, `OnlySkipsMoveUncommanded`, `PlacesAgree`; `Solvent` if no payload deploys two reserves |
| `FogOfWarProofs` | `FogInv` | a driver shows a fusion it made earlier, whose backing must still be evidence | types, `OnlySightedContacts` for any number of drivers |
| the same, one driver | `PairInv`, `AgeInv` = `FogInv` and: a stored track is backed by evidence that is still there, at the age of some earlier moment, and nothing is dated after the clock | a driver stores rows and tracks it computed from what it read steps before | `CitesItsFusion`, `SnapshotFairness`; `TracksOnlyAge` and `WorldNeverGoesBack` |
| `DecisionCycleProofs` | `DecisionInv` = types, `ToldInv` (a turn under way matches what it heard), `OwnInv` (verdicts and citations in hand are the driver's own) | rows are composed and written over from locals that were filled steps before, while others append to the same tables; what a driver has fetched is its answer or later, and its execution is where the driver has got to | types, `RecordsTellTheCalls`, `ExecutesAnAnswer`, `CyclesCiteTheirOwn`, `FailuresAreRecorded`, `ImplementsLedger`, for any number of live and dry drivers and of verdicts saved beside them, any routing, retries and replies |
| `ScenarioStudioProofs` | `StudioTypeOK`; for the rest what sessions hold in their hands | a registry that is filled was read before, when the file of each entry was there, and no step removes a file; a save that is alone finds file and registry as it left them | types, `ListedScenariosArePlayable`, `RunsAreWhole`, `AloneASaveIsComplete`, for any sessions and scenarios |
| `FairnessReviewProofs` | `ReviewTypeOK`; ids are never given twice; what a session carries over was in the table; what an undisturbed session has read is the evidence; every finding has a price (`ScoreInv`) | rows are numbered from the last id, batch by batch, and verdicts carried by what was read before; rows of a key are as many as its findings because the numbering is one to one; a penalty counts reactions, which must be finitely many | types, `ReviewsHitTheirFinding`, `VerdictsStand`, `SettledIsTrue`, `ScoresArePercentages`, `VerdictsMoveTheScore`, for any run and sessions |
| `FiniteSums` | | | a sum over a finite set is the same whichever element is taken out first, depends only on what is added, and is natural where that is |

The four refinements (`RoutedRun` of `RunLifecycle`, `ActionValidator` of `OneVerdict`, `Execution` of `ReservePool`,
`DecisionCycle` of `DecisionLedger`) are proved step by step: the initial state maps to an initial state and every step of the
detailed specification maps to a step of the abstract one or to a stutter. `BooksBalance` is then proved of `ReservePool`, where
it is one line per action, and carried over.

Only model-checked: liveness (`PauseDrainsTheLoops`, `CyclesEnd`, `UnconfirmedTracksAreArchived`,
`EveryCycleEnds`), which is out of the prover's reach together with ENABLED, as are induction over data and
RECURSIVE operators (the modules have none). Every invariant and every action property of a passing run is proved.

Proved, and checked by no run of its own: `ReservesBecomeGroups` and `BooksBalance` (for one driver `ImplementsReservePool`
contains them), `VerdictIsAccepted` and `ExecutesAnAnswer` (contained in `ImplementsOneVerdict` and `ImplementsLedger`),
`NothingIsFree`, `OneOrderPerEntity`, `BatchesSettleOnce`, `PlacesAgree`, `Solvent`, `WritesAreAtomic`, `ScoresArePercentages` and
`VerdictsMoveTheScore`. TLC finds none of them violated on the instances of the runs when they are added to
the configuration (`Solvent` with payloads of one deployment, `WritesAreAtomic` with one process).

With two drivers `ImplementsReservePool`, `BooksBalance`, `Solvent`, `PlacesAgree`, `ExecutedOnce`, `DuplicatesAreCurrent` and
`CitesItsFusion` do not hold: the code executes and cites "the latest" row, and writes whole rows it read before. No
document promises more. They are therefore stated, checked and proved for one driver. What remains with two is that
nothing is free: a deployment that two drivers execute may be charged twice, never less than once.

## 5. What is left out

- Wording, counters for reports, warnings, prompts, schemas, token usage: no property is about them.
- Control points, mission events and mission time in the ingest; the parts of an observation that are views of
  state modelled elsewhere (own forces, resources, deltas, narrative, attachments).
- Reads of the validator's context over five connections are one step; action ids are positions.
- The activity of a sector in an observation. It counts every record of the sector, those of units that the coalition has not
  sighted among them (`observation/__init__.py` 641-647), although OBSERVATION-SPEC.md:49 forbids hidden facts: this is
  read off the code, in which it is one expression.
- Knowledge levels of a track: every visible record of a unit confirms its type, so there is one value.
- Audit, status summaries, run comparison, replay export and the frontend only read.
- Of the evaluation: comparison, closeout status, case results and reports of the matrix, the averages of a summary and the rate
  of model timeouts. Of the studio: map references, the pydcs mapping and the hydration of answers.
- The sections of the configuration other than the routing, and the labels and sources of a routing.

Behaviour of the code that the models contain and no property asks for, since no document promises otherwise:

- An edit of a draft, a save, a rename and a revert store the whole row they read: of two that overlap the later undoes the
  earlier, or brings a deleted draft back (`web_ui/scenario_drafts.py` 70-85). A stored draft with an unknown coalition
  or posture makes every listing of drafts raise until it is deleted (233-238, `ConfigError` is all that is caught).
- A line break in a summary makes the scenario file and the registry unreadable (`scenario_state/registry.py` 358-371).
- `evaluation_cycle_metrics` has one row per run and cycle, so the second coalition's metrics replace the first's
  (`persistence/sqlite_store.py` 1923-1941). A repeated reaction has its count in its key, so its review is lost when the
  count grows. Findings of hidden knowledge are judged against the world at the time of the evaluation.
- A cycle that is validated twice is accused twice and lowers the score twice (`evaluation/__init__.py` 650-730).
- A verdict of `validate-actions` about a coalition is executed if it is the latest when a live driver fetches, for whatever
  cycle it was saved (`execution/__init__.py` 894), and its own answer then is not. An execution row of a driver that is killed stays
  pending or in flight.
- With a matrix loop the routing is that of the case: a patch of the row changes nothing the loop does.

## 6. Plan

Done, in this order: `RunLifecycle`; `ActionRules`/`ActionValidator`; `Execution`; `FogOfWar`; `DecisionCycle`; a proof
module for each; `ModelRouting`/`RoutedRun`; `ScenarioDefinitions`/`ScenarioStudio`; `FairnessFindings`/`FairnessReview`;
`ReservePool`, `OneVerdict` and `DecisionLedger` with their refinements; the books of the reserves and the score.

Next:

1. Proofs: an abstract specification of publishing a scenario (file and registry in one step) that a studio with one
   session implements; that a sole loop of `RunLifecycle` implements its table as a one-variable specification.
2. Observation deltas (`recent_changes`, cut to six) and control points in ingest, with the validator's fallback of a point's
   status against what the observation showed.
3. The matrix as a process over several runs, with its case results and its report.
4. Reads of the validator's context one by one; action ids and their primary key.
