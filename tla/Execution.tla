------------------------------- MODULE Execution -------------------------------
(***************************************************************************)
(* The live command loop of one coalition: the payload of a model is         *)
(* validated against the store, the verdict is saved, the latest verdict is  *)
(* fetched again and executed action by action, each with writes to the      *)
(* simulator followed by one transaction on the store.                       *)
(*                                                                           *)
(* Every access to the database is a connection of its own, so every such    *)
(* access is a step; a driver is the process of a loop.  Nothing keeps a     *)
(* second driver off the run, a driver may be killed between any two steps,  *)
(* and a simulator write may be refused or time out after it took effect.    *)
(***************************************************************************)
EXTENDS ActionRules

CONSTANTS
  Drivers,    \* processes that drive the run
  Batches,    \* payloads a model may return
  Home,       \* where the groups of the scenario start
  Shown,      \* the control points as the coalition sees them
  Budget0,    \* the coalition's budget
  MaxBatches, \* bound on the verdicts a behaviour saves
  Faults      \* the faults that may strike

VARIABLES
  \* the store
  budget,     \* coalition_state.budget_remaining
  reserves,   \* reserve groups still available
  groups,     \* active_groups: place and posture of a group
  world,      \* world_groups: place of a group
  orders,     \* active rows of execution_standing_orders
  verdicts,   \* action_validation_batches
  log,        \* execution_batches
  \* the simulator
  sim,        \* where it was last told to have a group
  \* locals of a driver
  pc,         \* the next thing it does
  draft,      \* the verdict it has computed
  mine,       \* the execution batch it works on
  at,         \* the action it is at
  known,      \* active_orders, as it last read them
  rows,       \* the active groups its plan was built from
  sent,       \* commands of the plan that the simulator accepted
  outcome,    \* ExecutionStatus of the action
  results     \* the statuses of the batch so far

store  == <<budget, reserves, groups, world, orders>>
locals == <<draft, mine, at, known, rows, sent, outcome, results>>
vars   == <<store, verdicts, log, sim, pc, locals>>

FaultKinds == {"refused", "lost", "locked", "killed"}

\* The values of GroupPosture, and a row of active_groups.
Postures == {"defensive", "reserve", "screening", "support", "fallback"}
Rows == [place : Places, posture : Postures]

\* A payload with its normalised parameters, and the positions in it of the
\* actions that are accepted.
Payloads == {[i \in DOMAIN b |-> Normalised(b[i])] : b \in Batches}
Verdicts == [batch : Payloads, ok : SUBSET Nat]

ASSUME ExecutionAssumption ==
  /\ Faults \subseteq FaultKinds
  /\ MaxBatches \in Nat
  /\ Budget0 \in Nat
  /\ Home \in [Units -> Places \cup {None}]
  /\ \A u \in Fleet : Home[u] = None
  /\ None \notin Rows
  /\ \A b \in Payloads :
       /\ DOMAIN b \subseteq Nat
       /\ \A i \in DOMAIN b :
            /\ b[i].type = "posture" => b[i].posture \in Postures
            /\ b[i].type = "reinforce" => b[i].groups \in Seq(ToSet(b[i].groups))

Row(place, posture) == [place |-> place, posture |-> posture]

Init ==
  /\ budget = Budget0
  /\ reserves = Reserves \ Foreign
  /\ groups = [u \in Units |-> IF Home[u] = None THEN None ELSE Row(Home[u], "defensive")]
  /\ world = Home
  /\ orders = {}
  /\ verdicts = <<>>
  /\ log = <<>>
  /\ sim = Home
  /\ pc = [d \in Drivers |-> "idle"]
  /\ draft = [d \in Drivers |-> None]
  /\ mine = [d \in Drivers |-> 0]
  /\ at = [d \in Drivers |-> 0]
  /\ known = [d \in Drivers |-> {}]
  /\ rows = [d \in Drivers |-> None]
  /\ sent = [d \in Drivers |-> 0]
  /\ outcome = [d \in Drivers |-> None]
  /\ results = [d \in Drivers |-> {}]

-------------------------------------------------------------------------------
(* Execution plans, as _build_execution_plan makes them of a normalised action. *)

\* The groups its simulator commands are about, in order.
Targets(a) ==
  CASE a.type = "deploy" -> <<DeployedAs[a.reserve]>>
    [] a.type \in Movements \cup {"posture"} -> <<a.group>>
    [] a.type = "reinforce" -> a.groups
    [] OTHER -> <<>>

\* Its standing orders.  A fingerprint covers the type, the entity and the
\* parameters, which is the action itself.
OrdersOf(a) ==
  {[entity |-> e, action |-> a] :
     e \in IF a.type = "priority" THEN {a.sector} ELSE ToSet(Targets(a))}

\* _is_duplicate_plan
Duplicate(a, active) == OrdersOf(a) # {} /\ OrdersOf(a) \subseteq active

\* The active-group row a plan writes, given the row it read.
Planned(a, row) ==
  CASE a.type = "deploy"     -> Row(a.sector, "defensive")
    [] a.type = "reposition" -> Row(PlaceOf(a.to), row.posture)
    [] a.type = "withdraw"   -> Row(PlaceOf(a.to), "fallback")
    [] a.type = "reinforce"  -> Row(a.point, row.posture)
    [] a.type = "posture"    -> Row(row.place, a.posture)

\* The verdict a driver executes, the action it is at, and the groups whose
\* command the simulator has accepted.
Work(d) == verdicts[log[mine[d]].verdict]
Act(d)  == Work(d).batch[at[d]]
Sent(d) == {Targets(Act(d))[i] : i \in 1..sent[d]}

\* _effective_state_updates and _effective_standing_orders: a partial success
\* counts only for the groups whose command was accepted.
MutEffectiveIsThePlan(d, a) == ToSet(Targets(a))

Effective(d, a) ==
  IF outcome[d] = "partially_succeeded" THEN Sent(d) ELSE ToSet(Targets(a))

\* The reserve an action commits.
MutCommitted(a) == {}

Committed(a) == IF a.type = "deploy" THEN {a.reserve} ELSE {}

\* _upsert_execution_standing_order replaces the order of the same action type
\* on the same entity.
Upsert(old, new) ==
  {o \in old : ~\E n \in new : n.entity = o.entity /\ n.action.type = o.action.type}
  \cup new

\* _classify_batch
Classify(statuses) ==
  CASE statuses \subseteq {"no_change"} -> "no_change"
    [] statuses = {"failed"} -> "failed"
    [] statuses \cap {"failed", "partially_succeeded"} # {} -> "partially_succeeded"
    [] OTHER -> "succeeded"
-------------------------------------------------------------------------------
(* From the model's payload to an execution batch. *)

Step(d, from, to) == pc[d] = from /\ pc' = [pc EXCEPT ![d] = to]

\* What _build_context reads (over several connections; one step here); the world
\* rows show no group on the other side.
MutView ==
  [budget   |-> budget,
   reserves |-> reserves,
   rows     |-> Units,
   place    |-> [u \in Units |-> IF groups[u] = None THEN None ELSE groups[u].place],
   world    |-> [u \in Units |-> IF world[u] = None THEN None ELSE SectorOf(world[u])],
   hostile  |-> {},
   shown    |-> Shown]

View ==
  [budget   |-> budget,
   reserves |-> reserves,
   rows     |-> {u \in Units : groups[u] # None},
   place    |-> [u \in Units |-> IF groups[u] = None THEN None ELSE groups[u].place],
   world    |-> [u \in Units |-> IF world[u] = None THEN None ELSE SectorOf(world[u])],
   hostile  |-> {},
   shown    |-> Shown]

\* validate_payload computes the verdict: which actions may be executed, and with
\* which normalised parameters.
Judge(d) ==
  /\ Step(d, "idle", "judged")
  /\ Len(verdicts) < MaxBatches
  /\ \E b \in Payloads : \E S \in SUBSET DOMAIN b :
       /\ IsAccepted(S, b, View)
       /\ draft' = [draft EXCEPT ![d] = [batch |-> b, ok |-> S]]
  /\ UNCHANGED <<store, verdicts, log, sim, mine, at, known, rows, sent, outcome, results>>

\* save_action_validation_batch
MutSaveKeepsDraft(d) ==
  /\ Step(d, "judged", "saved")
  /\ verdicts' = Append(verdicts, draft[d])
  /\ UNCHANGED <<store, log, sim, draft, mine, at, known, rows, sent, outcome, results>>

Save(d) ==
  /\ Step(d, "judged", "saved")
  /\ verdicts' = Append(verdicts, draft[d])
  /\ draft' = [draft EXCEPT ![d] = None]
  /\ UNCHANGED <<store, log, sim, mine, at, known, rows, sent, outcome, results>>

\* get_latest_action_validation_batch, whoever saved it, and
\* create_execution_batch.
Open(d) ==
  /\ Step(d, "saved", "pending")
  /\ log' = Append(log, [verdict |-> Len(verdicts), state |-> "pending",
                         status |-> "no_change"])
  /\ mine' = [mine EXCEPT ![d] = Len(log) + 1]
  /\ UNCHANGED <<store, verdicts, sim, draft, at, known, rows, sent, outcome, results>>

\* finalize_execution_batch
Settle(d, state, status) ==
  log' = [log EXCEPT ![mine[d]].state = state, ![mine[d]].status = status]

Start(d) ==
  /\ Step(d, "pending", "in_flight")
  /\ Settle(d, "in_flight", "no_change")
  /\ UNCHANGED <<store, verdicts, sim, locals>>

\* The standing orders are read once, and again after each change of them.
Snapshot(d) ==
  /\ Step(d, "in_flight", "next")
  /\ known' = [known EXCEPT ![d] = orders]
  /\ at' = [at EXCEPT ![d] = 1]
  /\ results' = [results EXCEPT ![d] = {}]
  /\ UNCHANGED <<store, verdicts, log, sim, draft, mine, rows, sent, outcome>>

-------------------------------------------------------------------------------
(* One action of the batch. *)

AtAction(d) == pc[d] = "next" /\ at[d] \in DOMAIN Work(d).batch

MutSkipRejectedStays(d) ==
  /\ AtAction(d)
  /\ at[d] \notin Work(d).ok
  /\ UNCHANGED vars

SkipRejected(d) ==
  /\ AtAction(d)
  /\ at[d] \notin Work(d).ok
  /\ at' = [at EXCEPT ![d] = @ + 1]
  /\ UNCHANGED <<store, verdicts, log, sim, pc, draft, mine, known, rows, sent, outcome, results>>

\* _build_execution_plan reads the groups; an active duplicate and a hold reach
\* the store without a simulator write, a sector priority succeeds without one.
Plan(d) ==
  /\ AtAction(d)
  /\ at[d] \in Work(d).ok
  /\ rows' = [rows EXCEPT ![d] = groups]
  /\ sent' = [sent EXCEPT ![d] = 0]
  /\ LET a == Act(d)
         skips == Duplicate(a, known[d]) \/ a.type = "hold"
     IN  /\ Step(d, "next", IF skips \/ Targets(a) = <<>> THEN "apply" ELSE "send")
         /\ outcome' = [outcome EXCEPT ![d] = IF skips THEN "no_change" ELSE "succeeded"]
  /\ UNCHANGED <<store, verdicts, log, sim, draft, mine, at, known, results>>

\* The simulator executes the command about the next target.
Obeyed(d) ==
  LET a == Act(d)
      u == Targets(a)[sent[d] + 1]
  IN  sim' = IF a.type = "posture" THEN sim
             ELSE [sim EXCEPT ![u] = Planned(a, rows[d][u]).place]

SendAccepted(d) ==
  /\ pc[d] = "send"
  /\ Obeyed(d)
  /\ sent' = [sent EXCEPT ![d] = @ + 1]
  /\ pc' = [pc EXCEPT ![d] = IF sent[d] + 1 = Len(Targets(Act(d))) THEN "apply" ELSE "send"]
  /\ UNCHANGED <<store, verdicts, log, draft, mine, at, known, rows, outcome, results>>

\* A command is refused, or every attempt at it times out although the simulator
\* obeyed: the remaining commands are not sent.
SendFails(d) ==
  /\ pc[d] = "send"
  /\ \/ "refused" \in Faults /\ UNCHANGED sim
     \/ "lost" \in Faults /\ Obeyed(d)
  /\ IF sent[d] = 0
     THEN /\ pc' = [pc EXCEPT ![d] = "next"]
          /\ at' = [at EXCEPT ![d] = @ + 1]
          /\ results' = [results EXCEPT ![d] = @ \cup {"failed"}]
          /\ UNCHANGED outcome
     ELSE /\ pc' = [pc EXCEPT ![d] = "apply"]
          /\ outcome' = [outcome EXCEPT ![d] = "partially_succeeded"]
          /\ UNCHANGED <<at, results>>
  /\ UNCHANGED <<store, verdicts, log, draft, mine, known, rows, sent>>

\* apply_execution_state_updates, one transaction.
Apply(d) ==
  LET a == Act(d)
      changed == IF a.type \in {"hold", "priority"} THEN {} ELSE Effective(d, a)
      new == {o \in OrdersOf(a) : a.type = "priority" \/ o.entity \in changed}
  IN  /\ Step(d, "apply", IF new = {} THEN "next" ELSE "refresh")
      /\ groups' = [u \in Units |-> IF u \in changed THEN Planned(a, rows[d][u]) ELSE groups[u]]
      /\ world' = [u \in Units |-> IF u \in changed /\ a.type # "posture"
                                   THEN Planned(a, rows[d][u]).place ELSE world[u]]
      /\ budget' = IF a.type = "deploy" THEN budget - Cost[a.reserve] ELSE budget
      /\ reserves' = reserves \ Committed(a)
      /\ orders' = Upsert(orders, new)
      /\ at' = [at EXCEPT ![d] = @ + 1]
      /\ results' = [results EXCEPT ![d] = @ \cup {outcome[d]}]
      /\ UNCHANGED <<verdicts, log, sim, draft, mine, known, rows, sent, outcome>>

\* The standing orders are read again.
MutRefreshKeepsTheCopy(d) ==
  /\ Step(d, "refresh", "next")
  /\ UNCHANGED <<store, verdicts, log, sim, locals>>

Refresh(d) ==
  /\ Step(d, "refresh", "next")
  /\ known' = [known EXCEPT ![d] = orders]
  /\ UNCHANGED <<store, verdicts, log, sim, draft, mine, at, rows, sent, outcome, results>>

\* After the last action.
Finish(d) ==
  /\ Step(d, "next", "idle")
  /\ at[d] \notin DOMAIN Work(d).batch
  /\ Settle(d, "completed", Classify(results[d]))
  /\ UNCHANGED <<store, verdicts, sim, locals>>

-------------------------------------------------------------------------------
(* Failures. *)

\* A database error inside the try block aborts the batch and ends the loop.
Abort(d) ==
  /\ "locked" \in Faults
  /\ pc[d] \in {"apply", "refresh"} \/ AtAction(d)
  /\ pc' = [pc EXCEPT ![d] = "idle"]
  /\ Settle(d, "aborted", "failed")
  /\ UNCHANGED <<store, verdicts, sim, locals>>

\* One outside of it, or on settling the batch, leaves the batch as it is, as does
\* the end of the process.  A loop that is started again begins with a new payload.
MutDiesAndResumes(d) ==
  /\ "killed" \in Faults /\ pc[d] \notin {"idle", "judged", "saved"}
  /\ pc' = [pc EXCEPT ![d] = "saved"]
  /\ draft' = [draft EXCEPT ![d] = None]
  /\ UNCHANGED <<store, verdicts, log, sim, mine, at, known, rows, sent, outcome, results>>

Dies(d) ==
  /\ pc[d] # "idle"
  /\ \/ "killed" \in Faults
     \/ "locked" \in Faults /\ pc[d] # "send"
  /\ pc' = [pc EXCEPT ![d] = "idle"]
  /\ draft' = [draft EXCEPT ![d] = None]
  /\ UNCHANGED <<store, verdicts, log, sim, mine, at, known, rows, sent, outcome, results>>

-------------------------------------------------------------------------------
Works(d) ==
  \/ Save(d)
  \/ Open(d)
  \/ Start(d)
  \/ Snapshot(d)
  \/ SkipRejected(d)
  \/ Plan(d)
  \/ SendAccepted(d)
  \/ SendFails(d)
  \/ Apply(d)
  \/ Refresh(d)
  \/ Finish(d)

Finished ==
  /\ Len(verdicts) >= MaxBatches
  /\ \A d \in Drivers : pc[d] = "idle"
  /\ UNCHANGED vars

Next ==
  \/ \E d \in Drivers : Judge(d) \/ Works(d) \/ Abort(d) \/ Dies(d)
  \/ Finished

\* A process that runs goes on: every simulator write is bounded by its timeout
\* and its number of attempts.  Nobody has to ask a model for a payload.
Fairness == \A d \in Drivers : WF_vars(Works(d))

Spec     == Init /\ [][Next]_vars
FairSpec == Spec /\ Fairness
-------------------------------------------------------------------------------
(* Properties. *)

ControlPoints ==
  {"idle", "judged", "saved", "pending", "in_flight", "next", "send", "apply", "refresh"}
Outcomes == {"succeeded", "partially_succeeded", "failed", "no_change"}
LifecycleStates == {"pending", "in_flight", "completed", "aborted"}

LogRows == [verdict : Nat, state : LifecycleStates, status : Outcomes]

Executing(d) == pc[d] \in {"pending", "in_flight", "next", "send", "apply", "refresh"}

\* The types of the variables.
TypeOK ==
  /\ budget \in Int
  /\ reserves \subseteq Reserves \ Foreign
  /\ groups \in [Units -> Rows \cup {None}]
  /\ world \in [Units -> Places \cup {None}]
  /\ sim \in [Units -> Places \cup {None}]
  /\ verdicts \in Seq(Verdicts)
  /\ log \in Seq(LogRows)
  /\ \A i \in DOMAIN log : log[i].verdict \in DOMAIN verdicts
  /\ pc \in [Drivers -> ControlPoints]
  /\ mine \in [Drivers -> Nat]
  /\ at \in [Drivers -> Nat]
  /\ sent \in [Drivers -> Nat]
  /\ rows \in [Drivers -> [Units -> Rows \cup {None}] \cup {None}]
  /\ outcome \in [Drivers -> Outcomes \cup {None}]
  /\ results \in [Drivers -> SUBSET Outcomes]
  /\ DOMAIN draft = Drivers /\ DOMAIN known = Drivers
  /\ \A d \in Drivers :
       /\ IF pc[d] = "judged" THEN draft[d] \in Verdicts ELSE draft[d] = None
       /\ pc[d] = "saved" => verdicts # <<>>
       /\ Executing(d) => mine[d] \in DOMAIN log
       /\ pc[d] \in {"send", "apply"} => at[d] \in Work(d).ok

\* A reserve leaves the pool exactly when the group it becomes enters the active
\* groups: no crash, failed write or second driver loses a reserve or creates a
\* group twice.
ReservesBecomeGroups ==
  \A r \in Reserves \ Foreign : r \notin reserves <=> groups[DeployedAs[r]] # None

\* The plan of an accepted action finds every group it gives orders to, however
\* much happens between the verdict and its execution.
PlansFindTheirGroups ==
  \A d \in Drivers : (pc[d] \in {"send", "apply"} /\ Act(d).type # "hold") =>
    \A u \in Commanded(Act(d)) : rows[d][u] # None

\* The reserves that are active groups.
Deployed == {r \in Reserves \ Foreign : groups[DeployedAs[r]] # None}

Reserve == INSTANCE ReservePool
  WITH Pool <- Reserves \ Foreign, Price <- Cost, Funds0 <- Budget0,
       funds <- budget, available <- reserves, deployed <- Deployed

\* Whatever is planned, sent, refused or killed, budget, reserves and groups change as
\* the reserve pool says: a reserve that is there is paid for once, and in the same step
\* becomes its group.  One driver.
ImplementsReservePool == Reserve!PoolSpec

\* What the groups that came out of the reserves cost.
Spend == SumFunctionOnSet(Cost, Deployed)

\* Every group that came out of the reserves has been paid for, whoever deployed it:
\* no crash between two steps and no second driver gets one for less than its price.
NothingIsFree == budget + Spend <= Budget0

\* The budget is what the deployed reserves have left of it, to the point: none was
\* paid for twice, or paid for and not deployed.  One driver.
BooksBalance == budget + Spend = Budget0

\* If no payload deploys two reserves, the budget pays for what is deployed: it is only
\* overdrawn by batches each of whose deployments was compared with all of it.  One driver.
Solvent == budget >= 0

\* An entity has one active order of a type, whoever gives it and however late.
OneOrderPerEntity ==
  \A o, p \in orders : (o.entity = p.entity /\ o.action.type = p.action.type) => o = p

\* The two tables that say where a group is agree as long as only the engine writes them,
\* although it writes a row that it read before it sent the commands, and although a
\* change of posture writes only one of them.  One driver.
PlacesAgree == \A u \in Units : groups[u] # None => world[u] = groups[u].place

\* A row of execution_batches is settled once: it goes from pending to in flight to
\* completed or aborted, keeps the verdict it executes, and no other driver and no
\* driver that is started again settles it a second time.
BatchMoves ==
  {<<"pending", "in_flight">>, <<"in_flight", "completed">>, <<"in_flight", "aborted">>}

BatchesSettleOnce ==
  [][\A i \in DOMAIN log :
       /\ i \in DOMAIN log'
       /\ log'[i].verdict = log[i].verdict
       /\ log'[i] # log[i] => <<log[i].state, log'[i].state>> \in BatchMoves]_log

\* No verdict is executed twice, whatever crashes the driver.  One driver.
ExecutedOnce ==
  \A i, j \in DOMAIN log : log[i].verdict = log[j].verdict => i = j

\* Duplicates are looked for among the orders that are active: the driver's copy
\* is current whenever it comes to an action.  One driver.
DuplicatesAreCurrent == \A d \in Drivers : AtAction(d) => known[d] = orders

PlaceIn(row) == IF row = None THEN None ELSE row.place

\* The store moves a group only to where the simulator has been told to have it,
\* unless the write was skipped as a duplicate.  One driver.
OnlySkipsMoveUncommanded ==
  [][\A u \in Units : PlaceIn(groups'[u]) # PlaceIn(groups[u]) =>
       \/ sim[u] = PlaceIn(groups'[u])
       \/ \E d \in Drivers : pc[d] = "apply" /\ outcome[d] = "no_change"]_vars

\* A skipped write asks for what is already so: the simulator was last told to
\* have the group where the action wants it (execution summary: "Equivalent
\* standing order already active; simulator write skipped.").
SkippedWritesAreInForce ==
  \A d \in Drivers :
    (pc[d] = "apply" /\ outcome[d] = "no_change" /\ Act(d).type \in Movements) =>
       sim[Act(d).group] = PlaceOf(Act(d).to)

\* A cycle that has begun ends: every action of a batch is passed, whether it is
\* executed, skipped or fails.
CyclesEnd == \A d \in Drivers : pc[d] # "idle" ~> pc[d] = "idle"
===============================================================================
