---------------------------- MODULE ExecutionProofs ----------------------------
(***************************************************************************)
(* Proofs about the live command loop, for any number of drivers, any        *)
(* scenario and any payloads.                                                *)
(*                                                                           *)
(* The inductive invariant says that what a verdict accepted stays           *)
(* executable: the groups it names have rows, and rows are never deleted.    *)
(***************************************************************************)
EXTENDS Execution, FiniteSums

\* The groups an action gives orders to, by its type.
LEMMA CommandedTable ==
  ASSUME NEW a
  PROVE  /\ a.type \in {"reposition", "withdraw", "posture"} => Commanded(a) = {a.group}
         /\ a.type = "reinforce" => Commanded(a) = ToSet(a.groups)
         /\ a.type \notin {"reposition", "withdraw", "posture", "reinforce", "hold"}
              => Commanded(a) = {}
BY Zenon DEF Commanded, Movements

Present(table) == {u \in Units : table[u] # None}

\* What the engine relies on when it executes an action.
Executable(a, present) ==
  /\ a.type = "deploy" => a.reserve \in Reserves \ Foreign /\ a.sector \in Sectors
  /\ a.type \in Movements => a.to \in Places \cup Zones
  /\ a.type = "reinforce" => a.point \in Points /\ a.groups \in Seq(ToSet(a.groups))
  /\ a.type = "posture" => a.posture \in Postures
  /\ a.type \in Movements \cup {"posture", "reinforce"} => Commanded(a) \subseteq present

AllExecutable(v, present) ==
  \A i \in v.ok : i \in DOMAIN v.batch /\ Executable(v.batch[i], present)

VerdictsStayExecutable ==
  /\ \A i \in DOMAIN verdicts : AllExecutable(verdicts[i], Present(groups))
  /\ \A d \in Drivers : pc[d] = "judged" => AllExecutable(draft[d], Present(groups))

\* What a plan has been built from, and how far its commands have got.
PlansAreSound ==
  \A d \in Drivers : pc[d] \in {"send", "apply"} =>
    /\ rows[d] \in [Units -> Rows \cup {None}]
    /\ Executable(Act(d), Present(rows[d]))
    /\ sent[d] <= Len(Targets(Act(d)))
    /\ outcome[d] \in Outcomes
    /\ pc[d] = "send" => sent[d] < Len(Targets(Act(d))) /\ outcome[d] = "succeeded"
    /\ Act(d).type = "deploy" => outcome[d] # "partially_succeeded"

ExecutionInv ==
  /\ TypeOK
  /\ VerdictsStayExecutable
  /\ PlansAreSound
  /\ ReservesBecomeGroups

-------------------------------------------------------------------------------
(* The operators. *)

\* The targets of an action, by its type.
LEMMA TargetsTable ==
  ASSUME NEW a
  PROVE  /\ a.type = "deploy" => Targets(a) = <<DeployedAs[a.reserve]>>
         /\ a.type \in {"reposition", "withdraw", "posture"} => Targets(a) = <<a.group>>
         /\ a.type = "reinforce" => Targets(a) = a.groups
         /\ a.type \notin {"deploy", "reposition", "withdraw", "posture", "reinforce"}
              => Targets(a) = <<>>
BY Zenon DEF Targets, Movements

\* The row a plan writes, by the type of its action.
LEMMA PlannedTable ==
  ASSUME NEW a, NEW row
  PROVE  /\ a.type = "deploy" => Planned(a, row) = Row(a.sector, "defensive")
         /\ a.type = "reposition" => Planned(a, row) = Row(PlaceOf(a.to), row.posture)
         /\ a.type = "withdraw" => Planned(a, row) = Row(PlaceOf(a.to), "fallback")
         /\ a.type = "reinforce" => Planned(a, row) = Row(a.point, row.posture)
         /\ a.type = "posture" => Planned(a, row) = Row(row.place, a.posture)
BY Zenon DEF Planned

\* A destination is a sector or a control point.
LEMMA PlaceOfIsAPlace ==
  ASSUME NEW to \in Places \cup Zones
  PROVE  PlaceOf(to) \in Places
BY ScenarioAssumption DEF PlaceOf, Places

\* The plan of an executable action has units for targets, and writes a row for
\* each of them.
LEMMA PlannedIsARow ==
  ASSUME NEW a, NEW table \in [Units -> Rows \cup {None}],
         Executable(a, Present(table)),
         NEW u \in ToSet(Targets(a))
  PROVE  /\ u \in Units
         /\ Planned(a, table[u]) \in Rows
         /\ a.type = "deploy" \/ table[u] # None
<1>1. CASE a.type = "deploy"
  <2>1. ToSet(Targets(a)) = {DeployedAs[a.reserve]}
    BY <1>1, TargetsTable DEF ToSet
  <2>2. a.reserve \in Reserves /\ a.sector \in Places
    BY <1>1 DEF Executable, Places
  <2> QED
    BY <1>1, <2>1, <2>2, PlannedTable, ScenarioAssumption DEF Row, Rows, Postures
<1>2. CASE a.type \in {"reposition", "withdraw", "posture", "reinforce"}
  <2>1. ToSet(Targets(a)) = Commanded(a)
    BY <1>2, TargetsTable, CommandedTable DEF ToSet
  <2>2. u \in Units /\ table[u] # None /\ table[u] \in Rows
    BY <1>2, <2>1 DEF Executable, Present, Movements
  <2>3. table[u].posture \in Postures /\ table[u].place \in Places
    BY <2>2 DEF Rows
  <2>4. a.type \in Movements => PlaceOf(a.to) \in Places
    BY PlaceOfIsAPlace DEF Executable
  <2>5. CASE a.type = "reposition"
    BY <2>5, <2>2, <2>3, <2>4, PlannedTable DEF Row, Rows, Movements
  <2>6. CASE a.type = "withdraw"
    BY <2>6, <2>2, <2>4, PlannedTable DEF Row, Rows, Movements, Postures
  <2>7. CASE a.type = "posture"
    BY <2>7, <2>2, <2>3, PlannedTable DEF Row, Rows, Executable
  <2>8. CASE a.type = "reinforce"
    <3>1. a.point \in Places
      BY <2>8 DEF Executable, Places
    <3> QED
      BY <2>8, <2>2, <2>3, <3>1, PlannedTable DEF Row, Rows
  <2> QED
    BY <1>2, <2>5, <2>6, <2>7, <2>8
<1>3. CASE a.type \notin {"deploy", "reposition", "withdraw", "posture", "reinforce"}
  BY <1>3, TargetsTable DEF ToSet
<1> QED
  BY <1>1, <1>2, <1>3

\* The targets of an executable action are a sequence.
LEMMA TargetsAreASequence ==
  ASSUME NEW a, NEW present, Executable(a, present)
  PROVE  Targets(a) \in Seq(ToSet(Targets(a)))
<1>1. a.type = "reinforce" => a.groups \in Seq(ToSet(a.groups))
  BY DEF Executable
<1>2. a.type = "deploy" => <<DeployedAs[a.reserve]>> \in Seq(ToSet(<<DeployedAs[a.reserve]>>))
  BY DEF ToSet
<1>3. <<a.group>> \in Seq(ToSet(<<a.group>>))
  BY DEF ToSet
<1>4. <<>> \in Seq(ToSet(<<>>))
  OBVIOUS
<1> QED
  BY <1>1, <1>2, <1>3, <1>4, TargetsTable

\* An action stays executable while no group disappears.
LEMMA ExecutableIsMonotonic ==
  ASSUME NEW a, NEW P, NEW Q, P \subseteq Q, Executable(a, P)
  PROVE  Executable(a, Q)
BY DEF Executable

\* What a view accepts is executable as long as its rows are there.
LEMMA AcceptedIsExecutable ==
  ASSUME NEW b \in Payloads, NEW S \in SUBSET DOMAIN b, IsAccepted(S, b, View)
  PROVE  AllExecutable([batch |-> b, ok |-> S], Present(groups))
<1> SUFFICES ASSUME NEW i \in S
             PROVE  Executable(b[i], Present(groups))
  BY DEF AllExecutable
<1> DEFINE a == b[i]
<1>1. Passes(a, View)
  BY DEF IsAccepted
<1>2. View.rows = Present(groups)
  BY DEF View, Present
<1>3. \A u \in Commanded(a) : u \in Present(groups)
  BY <1>1, <1>2 DEF Passes, CoalitionStage, Owned
<1>4. a.type = "deploy" => a.reserve \in Reserves \ Foreign /\ a.sector \in Sectors
  BY <1>1 DEF Passes, CoalitionStage, ScenarioStage
<1>5. a.type \in Movements => a.to \in Places \cup Zones
  BY <1>1 DEF Passes, ScenarioStage
<1>6. a.type = "reinforce" => a.point \in Points
  BY <1>1 DEF Passes, CoalitionStage
<1>7. /\ a.type = "posture" => a.posture \in Postures
      /\ a.type = "reinforce" => a.groups \in Seq(ToSet(a.groups))
  BY ExecutionAssumption
<1> QED
  BY <1>3, <1>4, <1>5, <1>6, <1>7 DEF Executable
-------------------------------------------------------------------------------
(* The initial state. *)

\* The groups of the scenario are the only ones with a row, and every reserve of
\* the coalition is available.
LEMMA InitIsSafe == Init => ExecutionInv
<1> SUFFICES ASSUME Init PROVE ExecutionInv
  OBVIOUS
<1>1. \A u \in Units : Home[u] # None => Row(Home[u], "defensive") \in Rows
  BY ExecutionAssumption DEF Row, Rows, Postures
<1>2. groups \in [Units -> Rows \cup {None}]
  BY <1>1 DEF Init
<1>3. TypeOK
  BY <1>2, ExecutionAssumption
     DEF Init, TypeOK, ControlPoints, Outcomes, Executing
<1>4. VerdictsStayExecutable
  BY DEF Init, VerdictsStayExecutable
<1>5. PlansAreSound
  BY DEF Init, PlansAreSound
<1>6. ReservesBecomeGroups
  BY ExecutionAssumption, ScenarioAssumption DEF Init, ReservesBecomeGroups, Fleet
<1> QED
  BY <1>3, <1>4, <1>5, <1>6 DEF ExecutionInv

-------------------------------------------------------------------------------
(* The work of a driver. *)

\* The verdict a driver executes is one of those that were saved.
LEMMA WorkIsAVerdict ==
  ASSUME TypeOK, NEW d \in Drivers, Executing(d)
  PROVE  Work(d) \in Verdicts /\ log[mine[d]].verdict \in DOMAIN verdicts
BY DEF TypeOK, Work

\* Verdicts are only added and the log keeps the verdict of a batch, so the work
\* of a driver stays what it is.
LEMMA WorkStays ==
  ASSUME TypeOK, NEW d \in Drivers, Executing(d), mine'[d] = mine[d],
         \/ verdicts' = verdicts
         \/ \E v \in Verdicts : verdicts' = Append(verdicts, v),
         \/ log' = log
         \/ \E r \in LogRows : log' = Append(log, r)
         \/ \E e \in Drivers, s \in LifecycleStates, t \in Outcomes :
              mine[e] \in DOMAIN log /\ Settle(e, s, t)
  PROVE  Work(d)' = Work(d)
<1> DEFINE m == mine[d]
<1>1. m \in DOMAIN log /\ log[m].verdict \in DOMAIN verdicts
  BY DEF TypeOK
<1>2. verdicts \in Seq(Verdicts) /\ log \in Seq(LogRows)
  BY DEF TypeOK
<1>3. log'[m].verdict = log[m].verdict
  <2>1. ASSUME NEW r \in LogRows, log' = Append(log, r)
        PROVE  log'[m].verdict = log[m].verdict
    BY <1>1, <1>2, <2>1
  <2>2. ASSUME NEW e \in Drivers, NEW s, NEW t, mine[e] \in DOMAIN log, Settle(e, s, t)
        PROVE  log'[m].verdict = log[m].verdict
    <3>1. log[mine[e]] \in LogRows /\ log[m] \in LogRows
      BY <1>1, <1>2, <2>2
    <3> QED
      BY <1>1, <1>2, <2>2, <3>1 DEF Settle, LogRows
  <2> QED
    BY <2>1, <2>2
<1>4. \A i \in DOMAIN verdicts : verdicts'[i] = verdicts[i]
  BY <1>2, SMTT(30)
<1> QED
  BY <1>1, <1>3, <1>4 DEF Work

StepOf(d) == Judge(d) \/ Works(d) \/ Abort(d) \/ Dies(d)

\* The status of a batch is an ExecutionStatus.
LEMMA ClassifyIsAnOutcome ==
  ASSUME NEW S \in SUBSET Outcomes
  PROVE  Classify(S) \in Outcomes
<1>1. Classify(S) \in {"no_change", "failed", "partially_succeeded", "succeeded"}
  BY Zenon DEF Classify
<1> QED
  BY <1>1 DEF Outcomes

\* How a step changes the verdicts and the log.
LEMMA StepsAppendOrSettle ==
  ASSUME TypeOK, NEW d \in Drivers, StepOf(d)
  PROVE  /\ \/ verdicts' = verdicts
            \/ \E v \in Verdicts : verdicts' = Append(verdicts, v)
         /\ \/ log' = log
            \/ \E r \in LogRows : log' = Append(log, r)
            \/ \E e \in Drivers, s \in LifecycleStates, t \in Outcomes :
                 mine[e] \in DOMAIN log /\ Settle(e, s, t)
<1> USE DEF TypeOK, LifecycleStates, Outcomes, ControlPoints
<1>1. CASE Judge(d)
  BY <1>1 DEF Judge
<1>2. CASE Save(d)
  BY <1>2 DEF Save, Step
<1>3. CASE Open(d)
  <2>1. Len(verdicts) \in Nat
    OBVIOUS
  <2>2. [verdict |-> Len(verdicts), state |-> "pending", status |-> "no_change"] \in LogRows
    BY <2>1 DEF LogRows
  <2> QED
    BY <1>3, <2>2 DEF Open
<1>4. CASE Start(d)
  BY <1>4 DEF Start, Step, Executing
<1>5. CASE Snapshot(d)
  BY <1>5 DEF Snapshot
<1>6. CASE SkipRejected(d) \/ Plan(d)
  BY <1>6 DEF SkipRejected, Plan
<1>7. CASE SendAccepted(d) \/ SendFails(d)
  BY <1>7 DEF SendAccepted, SendFails
<1>8. CASE Apply(d) \/ Refresh(d)
  BY <1>8 DEF Apply, Refresh
<1>9. CASE Finish(d)
  <2>1. Classify(results[d]) \in Outcomes
    BY ClassifyIsAnOutcome
  <2>2. mine[d] \in DOMAIN log
    BY <1>9 DEF Finish, Step, Executing
  <2> QED
    BY <1>9, <2>1, <2>2 DEF Finish
<1>10. CASE Abort(d)
  <2>1. mine[d] \in DOMAIN log
    BY <1>10 DEF Abort, AtAction, Executing
  <2> QED
    BY <1>10, <2>1 DEF Abort
<1>11. CASE Dies(d)
  BY <1>11 DEF Dies
<1> QED
  BY <1>1, <1>2, <1>3, <1>4, <1>5, <1>6, <1>7, <1>8, <1>9, <1>10, <1>11 DEF StepOf, Works

\* The locals of the other drivers are their own.
LEMMA StepsAreLocal ==
  ASSUME TypeOK, NEW d \in Drivers, StepOf(d), NEW e \in Drivers, e # d
  PROVE  /\ pc'[e] = pc[e] /\ draft'[e] = draft[e] /\ mine'[e] = mine[e]
         /\ at'[e] = at[e] /\ rows'[e] = rows[e] /\ sent'[e] = sent[e]
         /\ outcome'[e] = outcome[e]
<1> USE DEF TypeOK, locals, Step
<1>1. CASE Judge(d) \/ Abort(d) \/ Dies(d)
  BY <1>1 DEF Judge, Abort, Dies
<1>2. CASE Save(d) \/ Open(d) \/ Start(d) \/ Snapshot(d)
  BY <1>2 DEF Save, Open, Start, Snapshot
<1>3. CASE SkipRejected(d) \/ Plan(d)
  BY <1>3 DEF SkipRejected, Plan
<1>4. CASE SendAccepted(d) \/ SendFails(d)
  BY <1>4 DEF SendAccepted, SendFails
<1>5. CASE Apply(d) \/ Refresh(d) \/ Finish(d)
  BY <1>5 DEF Apply, Refresh, Finish
<1> QED
  BY <1>1, <1>2, <1>3, <1>4, <1>5 DEF StepOf, Works

\* A driver that executes a batch keeps its verdict through every step.
LEMMA StepsKeepWork ==
  ASSUME TypeOK, NEW d \in Drivers, StepOf(d), NEW e \in Drivers, Executing(e)
  PROVE  Work(e)' = Work(e)
<1>1. mine'[e] = mine[e]
  <2>1. CASE e # d
    BY <2>1, StepsAreLocal
  <2>2. CASE e = d
    <3>1. ~Open(d) /\ ~Judge(d)
      BY <2>2 DEF Open, Judge, Step, Executing
    <3> QED
      BY <2>2, <3>1
         DEF StepOf, Works, Save, Start, Snapshot, SkipRejected, Plan, SendAccepted,
             SendFails, Apply, Refresh, Finish, Abort, Dies, locals
  <2> QED
    BY <2>1, <2>2
<1> QED
  BY <1>1, StepsAppendOrSettle, WorkStays

-------------------------------------------------------------------------------
(* One step of a driver. *)

\* The target of the next command is a unit, and the plan has a row for it.
LEMMA CommandsTargetUnits ==
  ASSUME ExecutionInv, NEW d \in Drivers, pc[d] = "send"
  PROVE  LET u == Targets(Act(d))[sent[d] + 1]
         IN  u \in Units /\ Planned(Act(d), rows[d][u]) \in Rows
<1>1. /\ rows[d] \in [Units -> Rows \cup {None}]
      /\ Executable(Act(d), Present(rows[d]))
      /\ sent[d] < Len(Targets(Act(d)))
  BY DEF ExecutionInv, PlansAreSound
<1>2. Targets(Act(d)) \in Seq(ToSet(Targets(Act(d))))
  BY <1>1, TargetsAreASequence
<1>3. sent[d] \in Nat
  BY DEF ExecutionInv, TypeOK
<1>4. Targets(Act(d))[sent[d] + 1] \in ToSet(Targets(Act(d)))
  BY <1>1, <1>2, <1>3
<1> QED
  BY <1>1, <1>4, PlannedIsARow

\* The groups an update changes are targets of the plan.
LEMMA UpdatesChangeTargets ==
  ASSUME ExecutionInv, NEW d \in Drivers, pc[d] = "apply",
         NEW u \in Effective(d, Act(d))
  PROVE  /\ u \in ToSet(Targets(Act(d)))
         /\ u \in Units
         /\ Planned(Act(d), rows[d][u]) \in Rows
         /\ Act(d).type = "deploy" \/ rows[d][u] # None
<1>1. /\ rows[d] \in [Units -> Rows \cup {None}]
      /\ Executable(Act(d), Present(rows[d]))
      /\ sent[d] <= Len(Targets(Act(d)))
  BY DEF ExecutionInv, PlansAreSound
<1>2. Targets(Act(d)) \in Seq(ToSet(Targets(Act(d))))
  BY <1>1, TargetsAreASequence
<1>3. sent[d] \in Nat
  BY DEF ExecutionInv, TypeOK
<1>4. u \in ToSet(Targets(Act(d)))
  <2>1. CASE u \in ToSet(Targets(Act(d)))
    BY <2>1
  <2>2. CASE u \in Sent(d)
    BY <1>1, <1>2, <1>3, <2>2 DEF Sent, ToSet
  <2> QED
    BY <2>1, <2>2 DEF Effective
<1> QED
  BY <1>1, <1>4, PlannedIsARow

\* Rows of active_groups are written, never deleted.
LEMMA RowsAreNeverDeleted ==
  ASSUME ExecutionInv, NEW d \in Drivers, StepOf(d)
  PROVE  /\ groups' \in [Units -> Rows \cup {None}]
         /\ Present(groups) \subseteq Present(groups')
<1> USE DEF ExecutionInv, TypeOK
<1>1. CASE Apply(d)
  <2> DEFINE a == Act(d)
             changed == IF a.type \in {"hold", "priority"} THEN {} ELSE Effective(d, a)
  <2>1. groups' = [u \in Units |-> IF u \in changed THEN Planned(a, rows[d][u]) ELSE groups[u]]
    BY <1>1 DEF Apply
  <2>2. \A u \in changed : u \in Units /\ Planned(a, rows[d][u]) \in Rows
    BY <1>1, UpdatesChangeTargets DEF Apply, Step
  <2> HIDE DEF changed
  <2>3. groups' \in [Units -> Rows \cup {None}]
    BY <2>1, <2>2
  <2>4. \A u \in Units : groups[u] # None => groups'[u] # None
    BY <2>1, <2>2, ExecutionAssumption
  <2> QED
    BY <2>3, <2>4 DEF Present
<1>2. ~Apply(d) => groups' = groups
  BY DEF StepOf, Works, Judge, Save, Open, Start, Snapshot, SkipRejected, Plan,
         SendAccepted, SendFails, Refresh, Finish, Abort, Dies, store, vars
<1> QED
  BY <1>1, <1>2

\* What a step does to the store is well typed.
LEMMA StoreStaysTyped ==
  ASSUME ExecutionInv, NEW d \in Drivers, StepOf(d)
  PROVE  /\ budget' \in Int
         /\ reserves' \subseteq Reserves \ Foreign
         /\ world' \in [Units -> Places \cup {None}]
         /\ sim' \in [Units -> Places \cup {None}]
<1> USE DEF ExecutionInv, TypeOK
<1>1. CASE Apply(d)
  <2> DEFINE a == Act(d)
             changed == IF a.type \in {"hold", "priority"} THEN {} ELSE Effective(d, a)
  <2>1. pc[d] = "apply"
    BY <1>1 DEF Apply, Step
  <2>2. a.type = "deploy" => Cost[a.reserve] \in Nat
    BY <2>1, ScenarioAssumption DEF PlansAreSound, Executable
  <2>3. budget' \in Int
    BY <1>1, <2>2 DEF Apply
  <2>4. \A u \in changed : Planned(a, rows[d][u]).place \in Places
    BY <2>1, UpdatesChangeTargets DEF Rows
  <2>5. world' = [u \in Units |-> IF u \in changed /\ a.type # "posture"
                                  THEN Planned(a, rows[d][u]).place ELSE world[u]]
    BY <1>1 DEF Apply
  <2> HIDE DEF changed
  <2>6. world' \in [Units -> Places \cup {None}]
    BY <2>4, <2>5
  <2> QED
    BY <1>1, <2>3, <2>6 DEF Apply
<1>2. CASE SendAccepted(d) \/ SendFails(d)
  <2>1. pc[d] = "send"
    BY <1>2 DEF SendAccepted, SendFails
  <2>2. Obeyed(d) => sim' \in [Units -> Places \cup {None}]
    BY <2>1, CommandsTargetUnits DEF Obeyed, Rows
  <2>3. sim' \in [Units -> Places \cup {None}]
    BY <1>2, <2>2 DEF SendAccepted, SendFails
  <2> QED
    BY <1>2, <2>3 DEF SendAccepted, SendFails, store
<1>3. ~Apply(d) /\ ~SendAccepted(d) /\ ~SendFails(d) => UNCHANGED <<budget, reserves, world, sim>>
  BY DEF StepOf, Works, Judge, Save, Open, Start, Snapshot, SkipRejected, Plan,
         Refresh, Finish, Abort, Dies, store, vars
<1> QED
  BY <1>1, <1>2, <1>3

\* Only the start of an execution adds a row to the log.
LEMMA StepsThatAppend ==
  ASSUME TypeOK, NEW d \in Drivers, StepOf(d), NEW r \in LogRows, log' = Append(log, r)
  PROVE  Open(d)
<1>1. log \in Seq(LogRows) /\ Len(log') = Len(log) + 1 /\ Len(log) \in Nat
  BY DEF TypeOK
<1>2. log' # log
  BY <1>1
<1>3. \A s, t : ~Settle(d, s, t)
  <2> SUFFICES ASSUME NEW s, NEW t, Settle(d, s, t) PROVE FALSE
    OBVIOUS
  <2>1. DOMAIN log' = DOMAIN log
    BY <1>1 DEF Settle
  <2> QED
    BY <1>1, <2>1
<1> QED
  BY <1>2, <1>3
     DEF StepOf, Works, Judge, Save, Start, Snapshot, SkipRejected, Plan, SendAccepted,
         SendFails, Apply, Refresh, Finish, Abort, Dies, vars

\* The verdicts and the log stay well typed, and nothing is removed from them.
LEMMA HistoryStaysTyped ==
  ASSUME ExecutionInv, NEW d \in Drivers, StepOf(d)
  PROVE  /\ verdicts' \in Seq(Verdicts)
         /\ log' \in Seq(LogRows)
         /\ \A i \in DOMAIN log' : log'[i].verdict \in DOMAIN verdicts'
         /\ DOMAIN log \subseteq DOMAIN log'
         /\ verdicts # <<>> => verdicts' # <<>>
<1>1. verdicts \in Seq(Verdicts) /\ log \in Seq(LogRows)
  BY DEF ExecutionInv, TypeOK
<1>2. /\ verdicts' \in Seq(Verdicts)
      /\ DOMAIN verdicts \subseteq DOMAIN verdicts'
      /\ verdicts # <<>> => verdicts' # <<>>
  <2>1. ASSUME NEW v \in Verdicts, verdicts' = Append(verdicts, v)
        PROVE  /\ verdicts' \in Seq(Verdicts)
               /\ Len(verdicts') = Len(verdicts) + 1 /\ Len(verdicts) \in Nat
    BY <1>1, <2>1
  <2> QED
    BY <1>1, <2>1, StepsAppendOrSettle DEF ExecutionInv
<1>3. CASE log' = log
  BY <1>1, <1>2, <1>3 DEF ExecutionInv, TypeOK
<1>4. CASE \E r \in LogRows : log' = Append(log, r)
  <2>1. Open(d)
    BY <1>1, <1>4, StepsThatAppend DEF ExecutionInv
  <2>2. log' = Append(log, [verdict |-> Len(verdicts), state |-> "pending",
                            status |-> "no_change"])
    BY <2>1 DEF Open
  <2>3. verdicts # <<>>
    BY <2>1 DEF Open, Step, ExecutionInv, TypeOK
  <2>4. Len(verdicts) \in DOMAIN verdicts
    BY <1>1, <2>3
  <2>5. log' \in Seq(LogRows) /\ Len(log') = Len(log) + 1 /\ Len(log) \in Nat
    BY <1>1, <1>4
  <2>6. \A i \in DOMAIN log : log'[i] = log[i] /\ log[i].verdict \in DOMAIN verdicts
    BY <1>1, <1>4 DEF ExecutionInv, TypeOK
  <2>7. log'[Len(log) + 1].verdict = Len(verdicts)
    BY <1>1, <2>2
  <2>8. \A i \in DOMAIN log' : i \in DOMAIN log \/ i = Len(log) + 1
    BY <1>1, <2>5
  <2> QED
    BY <1>1, <1>2, <2>4, <2>5, <2>6, <2>7, <2>8, SMTT(30)
<1>5. ASSUME NEW e \in Drivers, NEW s \in LifecycleStates, NEW t \in Outcomes,
             mine[e] \in DOMAIN log, Settle(e, s, t)
      PROVE  /\ log' \in Seq(LogRows) /\ DOMAIN log' = DOMAIN log
             /\ \A i \in DOMAIN log' : log'[i].verdict \in DOMAIN verdicts'
  <2> DEFINE m == mine[e]
  <2>1. \A i \in DOMAIN log : log[i] \in LogRows /\ log[i].verdict \in DOMAIN verdicts
    BY <1>1 DEF ExecutionInv, TypeOK
  <2>2. log' = [i \in DOMAIN log |->
                  IF i = m THEN [log[m] EXCEPT !.state = s, !.status = t] ELSE log[i]]
    BY <1>5, <1>1 DEF Settle
  <2>3. [log[m] EXCEPT !.state = s, !.status = t] \in LogRows
    BY <1>5, <2>1 DEF LogRows
  <2>4. [log[m] EXCEPT !.state = s, !.status = t].verdict = log[m].verdict
    BY <1>5, <2>1 DEF LogRows
  <2>5. \A i \in DOMAIN log : log'[i] \in LogRows /\ log'[i].verdict = log[i].verdict
    BY <2>1, <2>2, <2>3, <2>4
  <2>6. DOMAIN log' = 1..Len(log) /\ Len(log) \in Nat
    BY <1>1, <2>2
  <2>7. log' \in Seq(LogRows)
    BY <1>1, <2>2, <2>5, <2>6
  <2> QED
    BY <1>2, <2>1, <2>2, <2>5, <2>7
<1> QED
  BY <1>2, <1>3, <1>4, <1>5, StepsAppendOrSettle DEF ExecutionInv

\* The locals of the drivers stay well typed.
LEMMA LocalsStayTyped ==
  ASSUME ExecutionInv, NEW d \in Drivers, StepOf(d)
  PROVE  /\ pc' \in [Drivers -> ControlPoints]
         /\ mine' \in [Drivers -> Nat]
         /\ at' \in [Drivers -> Nat]
         /\ sent' \in [Drivers -> Nat]
         /\ rows' \in [Drivers -> [Units -> Rows \cup {None}] \cup {None}]
         /\ outcome' \in [Drivers -> Outcomes \cup {None}]
         /\ results' \in [Drivers -> SUBSET Outcomes]
         /\ DOMAIN draft' = Drivers /\ DOMAIN known' = Drivers
<1> USE DEF ExecutionInv, TypeOK, ControlPoints, Outcomes, Step, locals
<1>1. CASE Judge(d) \/ Save(d)
  BY <1>1 DEF Judge, Save
<1>2. CASE Open(d)
  <2>1. Len(log) + 1 \in Nat
    OBVIOUS
  <2> QED
    BY <1>2, <2>1 DEF Open
<1>3. CASE Start(d)
  BY <1>3 DEF Start
<1>11. CASE Snapshot(d)
  BY <1>11 DEF Snapshot
<1>4. CASE SkipRejected(d)
  BY <1>4 DEF SkipRejected
<1>5. CASE Plan(d)
  BY <1>5 DEF Plan
<1>6. CASE SendAccepted(d)
  BY <1>6 DEF SendAccepted
<1>7. CASE SendFails(d)
  <2>1. CASE sent[d] = 0
    <3>1. /\ results' = [results EXCEPT ![d] = @ \cup {"failed"}]
          /\ at' = [at EXCEPT ![d] = @ + 1]
          /\ pc' = [pc EXCEPT ![d] = "next"]
      BY <1>7, <2>1 DEF SendFails
    <3>2. results' \in [Drivers -> SUBSET Outcomes]
      BY <3>1
    <3> QED
      BY <1>7, <2>1, <3>1, <3>2 DEF SendFails
  <2>2. CASE sent[d] # 0
    BY <1>7, <2>2 DEF SendFails
  <2> QED
    BY <2>1, <2>2
<1>8. CASE Apply(d)
  <2>1. outcome[d] \in Outcomes
    BY <1>8 DEF Apply, PlansAreSound
  <2>2. results' = [results EXCEPT ![d] = @ \cup {outcome[d]}]
    BY <1>8 DEF Apply
  <2>3. results' \in [Drivers -> SUBSET Outcomes]
    BY <2>1, <2>2
  <2>4. pc' = [pc EXCEPT ![d] = "next"] \/ pc' = [pc EXCEPT ![d] = "refresh"]
    BY <1>8 DEF Apply
  <2>5. at' = [at EXCEPT ![d] = @ + 1] /\ UNCHANGED <<draft, mine, known, rows, sent, outcome>>
    BY <1>8 DEF Apply
  <2>6. pc' \in [Drivers -> ControlPoints]
    BY <2>4
  <2>7. at' \in [Drivers -> Nat]
    BY <2>5
  <2> QED
    BY <2>3, <2>5, <2>6, <2>7
<1>9. CASE Refresh(d)
  BY <1>9 DEF Refresh
<1>12. CASE Finish(d)
  BY <1>12 DEF Finish
<1>10. CASE Abort(d) \/ Dies(d)
  BY <1>10 DEF Abort, Dies
<1> QED
  BY <1>1, <1>2, <1>3, <1>4, <1>5, <1>6, <1>7, <1>8, <1>9, <1>10, <1>11, <1>12 DEF StepOf, Works

\* What the locals of a driver say of each other and of the store.
LEMMA LocalsStayConsistent ==
  ASSUME ExecutionInv, NEW d \in Drivers, StepOf(d)
  PROVE  /\ IF pc'[d] = "judged" THEN draft'[d] \in Verdicts ELSE draft'[d] = None
         /\ pc'[d] = "saved" => verdicts' # <<>>
         /\ Executing(d)' => mine'[d] \in DOMAIN log'
         /\ pc'[d] \in {"send", "apply"} => at'[d] \in Work(d)'.ok
<1> USE DEF ExecutionInv, TypeOK, Step, locals
<1>1. CASE Judge(d)
  <2>1. ASSUME NEW b \in Payloads, NEW S \in SUBSET DOMAIN b
        PROVE  [batch |-> b, ok |-> S] \in Verdicts
    BY ExecutionAssumption DEF Verdicts
  <2> QED
    BY <1>1, <2>1 DEF Judge, Executing
<1>2. CASE Save(d)
  <2>1. draft[d] \in Verdicts /\ verdicts' = Append(verdicts, draft[d])
    BY <1>2 DEF Save
  <2>2. verdicts' # <<>>
    BY <2>1
  <2> QED
    BY <1>2, <2>2 DEF Save, Executing
<1>3. CASE Open(d)
  <2>1. log \in Seq(LogRows)
    OBVIOUS
  <2>2. Len(log') = Len(log) + 1 /\ mine'[d] = Len(log) + 1 /\ log' \in Seq(LogRows)
    BY <1>3, <2>1, HistoryStaysTyped DEF Open
  <2>3. mine'[d] \in DOMAIN log'
    BY <2>1, <2>2
  <2> QED
    BY <1>3, <2>3 DEF Open, Executing
<1>4. CASE ~Judge(d) /\ ~Save(d) /\ ~Open(d)
  <2>1. /\ draft'[d] = None
        /\ mine'[d] = mine[d]
        /\ pc'[d] \notin {"judged", "saved"}
        /\ Executing(d)' => Executing(d)
        /\ pc'[d] \in {"send", "apply"} => at'[d] = at[d] /\ at[d] \in Work(d).ok
    <3>1. CASE Start(d) \/ Snapshot(d) \/ Refresh(d) \/ Finish(d)
      BY <3>1 DEF Start, Snapshot, Refresh, Finish, Executing
    <3>2. CASE SkipRejected(d)
      BY <3>2 DEF SkipRejected, AtAction, Executing
    <3>3. CASE Plan(d)
      BY <3>3 DEF Plan, AtAction, Executing
    <3>4. CASE SendAccepted(d)
      BY <3>4 DEF SendAccepted, Executing
    <3>5. CASE SendFails(d)
      BY <3>5 DEF SendFails, Executing
    <3>6. CASE Apply(d)
      BY <3>6 DEF Apply, Executing
    <3>7. CASE Abort(d) \/ Dies(d)
      BY <3>7 DEF Abort, AtAction, Dies, Executing
    <3> QED
      BY <1>4, <3>1, <3>2, <3>3, <3>4, <3>5, <3>6, <3>7 DEF StepOf, Works
  <2>2. Executing(d) => mine[d] \in DOMAIN log /\ Work(d)' = Work(d)
    BY StepsKeepWork
  <2>3. DOMAIN log \subseteq DOMAIN log'
    BY HistoryStaysTyped
  <2> QED
    BY <2>1, <2>2, <2>3 DEF Executing
<1> QED
  BY <1>1, <1>2, <1>3, <1>4

\* A step keeps the types.
LEMMA TypeStep ==
  ASSUME ExecutionInv, NEW d \in Drivers, StepOf(d)
  PROVE  TypeOK'
<1>1. ASSUME NEW e \in Drivers
      PROVE  /\ IF pc'[e] = "judged" THEN draft'[e] \in Verdicts ELSE draft'[e] = None
             /\ pc'[e] = "saved" => verdicts' # <<>>
             /\ Executing(e)' => mine'[e] \in DOMAIN log'
             /\ pc'[e] \in {"send", "apply"} => at'[e] \in Work(e)'.ok
  <2>1. CASE e = d
    BY <2>1, LocalsStayConsistent
  <2>2. CASE e # d
    <3>1. Executing(e) => Work(e)' = Work(e)
      BY StepsKeepWork DEF ExecutionInv
    <3>2. pc'[e] = pc[e] /\ draft'[e] = draft[e] /\ mine'[e] = mine[e] /\ at'[e] = at[e]
      BY <2>2, StepsAreLocal DEF ExecutionInv
    <3>3. /\ DOMAIN log \subseteq DOMAIN log'
          /\ verdicts # <<>> => verdicts' # <<>>
      BY HistoryStaysTyped
    <3> QED
      BY <3>1, <3>2, <3>3 DEF ExecutionInv, TypeOK, Executing
  <2> QED
    BY <2>1, <2>2
<1>2. budget' \in Int /\ reserves' \subseteq Reserves \ Foreign
  BY StoreStaysTyped
<1>3. world' \in [Units -> Places \cup {None}] /\ sim' \in [Units -> Places \cup {None}]
  BY StoreStaysTyped
<1>4. groups' \in [Units -> Rows \cup {None}]
  BY RowsAreNeverDeleted
<1> QED
  BY <1>1, <1>2, <1>3, <1>4, LocalsStayTyped, HistoryStaysTyped DEF TypeOK

\* Verdicts stay executable, since no row disappears.
LEMMA VerdictsStep ==
  ASSUME ExecutionInv, NEW d \in Drivers, StepOf(d)
  PROVE  VerdictsStayExecutable'
<1>1. Present(groups) \subseteq Present(groups')
  BY RowsAreNeverDeleted
<1>2. \A v : AllExecutable(v, Present(groups)) => AllExecutable(v, Present(groups'))
  BY <1>1, ExecutableIsMonotonic DEF AllExecutable
<1>3. ASSUME NEW i \in DOMAIN verdicts'
      PROVE  AllExecutable(verdicts'[i], Present(groups'))
  <2>1. CASE Save(d)
    <3>1. /\ verdicts' = Append(verdicts, draft[d])
          /\ verdicts \in Seq(Verdicts)
          /\ AllExecutable(draft[d], Present(groups))
      BY <2>1 DEF Save, Step, ExecutionInv, TypeOK, VerdictsStayExecutable
    <3>2. verdicts'[i] = draft[d] \/ (i \in DOMAIN verdicts /\ verdicts'[i] = verdicts[i])
      BY <3>1
    <3> QED
      BY <1>2, <3>1, <3>2 DEF ExecutionInv, VerdictsStayExecutable
  <2>2. CASE ~Save(d)
    <3>1. verdicts' = verdicts
      BY <2>2 DEF StepOf, Works, Judge, Open, Start, Snapshot, SkipRejected, Plan,
             SendAccepted, SendFails, Apply, Refresh, Finish, Abort, Dies, vars
    <3> QED
      BY <1>2, <3>1 DEF ExecutionInv, VerdictsStayExecutable
  <2> QED
    BY <2>1, <2>2
<1>4. ASSUME NEW e \in Drivers, pc'[e] = "judged"
      PROVE  AllExecutable(draft'[e], Present(groups'))
  <2>1. CASE e # d
    BY <1>2, <1>4, <2>1, StepsAreLocal DEF ExecutionInv, VerdictsStayExecutable
  <2>2. CASE e = d
    <3>5. pc \in [Drivers -> ControlPoints]
      BY DEF ExecutionInv, TypeOK
    <3>6. ~Save(d) /\ ~Open(d) /\ ~Start(d) /\ ~Snapshot(d) /\ ~SkipRejected(d) /\ ~Plan(d)
      BY <1>4, <2>2, <3>5 DEF Save, Open, Start, Snapshot, SkipRejected, AtAction, Plan, Step
    <3>7. ~SendAccepted(d) /\ ~SendFails(d) /\ ~Apply(d) /\ ~Refresh(d) /\ ~Finish(d)
      BY <1>4, <2>2, <3>5 DEF SendAccepted, SendFails, Apply, Refresh, Finish, Step
    <3>8. ~Abort(d) /\ ~Dies(d)
      BY <1>4, <2>2, <3>5 DEF Abort, Dies
    <3>1. Judge(d)
      BY <3>6, <3>7, <3>8 DEF StepOf, Works
    <3>4. PICK b \in Payloads : \E S \in SUBSET DOMAIN b :
            IsAccepted(S, b, View) /\ draft' = [draft EXCEPT ![d] = [batch |-> b, ok |-> S]]
      BY <3>1 DEF Judge
    <3>2. PICK S \in SUBSET DOMAIN b :
            IsAccepted(S, b, View) /\ draft' = [draft EXCEPT ![d] = [batch |-> b, ok |-> S]]
      BY <3>4
    <3>3. draft'[d] = [batch |-> b, ok |-> S]
      BY <3>2 DEF ExecutionInv, TypeOK
    <3> QED
      BY <1>2, <2>2, <3>2, <3>3, AcceptedIsExecutable
  <2> QED
    BY <2>1, <2>2
<1> QED
  BY <1>3, <1>4 DEF VerdictsStayExecutable

\* A plan is built of what is stored, and its commands are counted.
LEMMA PlansStep ==
  ASSUME ExecutionInv, NEW d \in Drivers, StepOf(d)
  PROVE  PlansAreSound'
<1> SUFFICES ASSUME NEW e \in Drivers, pc'[e] \in {"send", "apply"}
             PROVE  /\ rows'[e] \in [Units -> Rows \cup {None}]
                    /\ Executable(Act(e)', Present(rows'[e]))
                    /\ sent'[e] <= Len(Targets(Act(e)'))
                    /\ outcome'[e] \in Outcomes
                    /\ pc'[e] = "send" => /\ sent'[e] < Len(Targets(Act(e)'))
                                          /\ outcome'[e] = "succeeded"
                    /\ Act(e)'.type = "deploy" => outcome'[e] # "partially_succeeded"
  BY DEF PlansAreSound, Act, Work
<1>1. ASSUME Executing(e), at'[e] = at[e]
      PROVE  Act(e)' = Act(e)
  BY <1>1, StepsKeepWork DEF Act, ExecutionInv
<1>2. CASE e # d
  <2>1. /\ pc'[e] = pc[e] /\ at'[e] = at[e] /\ rows'[e] = rows[e]
        /\ sent'[e] = sent[e] /\ outcome'[e] = outcome[e]
    BY <1>2, StepsAreLocal DEF ExecutionInv
  <2>2. Act(e)' = Act(e)
    BY <1>1, <2>1 DEF Executing
  <2> QED
    BY <2>1, <2>2 DEF ExecutionInv, PlansAreSound
<1>3. CASE e = d /\ Plan(d)
  <2>1. /\ at[d] \in Work(d).ok /\ at' = at /\ pc[d] = "next"
        /\ rows' = [rows EXCEPT ![d] = groups] /\ sent' = [sent EXCEPT ![d] = 0]
    BY <1>3 DEF Plan, AtAction
  <2>2. Act(d)' = Act(d)
    BY <1>1, <1>3, <2>1 DEF Executing
  <2>3. Executable(Act(d), Present(groups))
    <3>1. AllExecutable(Work(d), Present(groups))
      BY <2>1, WorkIsAVerdict DEF ExecutionInv, VerdictsStayExecutable, Executing, Work
    <3> QED
      BY <2>1, <3>1 DEF AllExecutable, Act
  <2>4. /\ Targets(Act(d)) \in Seq(ToSet(Targets(Act(d))))
        /\ Len(Targets(Act(d))) \in Nat
    BY <2>3, TargetsAreASequence
  <2>5. rows'[d] = groups /\ sent'[d] = 0 /\ groups \in [Units -> Rows \cup {None}]
    BY <2>1 DEF ExecutionInv, TypeOK
  <2>6. \/ outcome'[d] = "no_change" /\ pc'[d] = "apply"
        \/ outcome'[d] = "succeeded" /\ (pc'[d] = "send" => Targets(Act(d)) # <<>>)
    BY <1>3 DEF Plan, Step, ExecutionInv, TypeOK
  <2>7. Targets(Act(d)) # <<>> => 0 < Len(Targets(Act(d)))
    BY <2>4
  <2> QED
    BY <1>3, <2>2, <2>3, <2>4, <2>5, <2>6, <2>7 DEF Outcomes
<1>4. CASE e = d /\ (SendAccepted(d) \/ SendFails(d))
  <2>1. pc[d] = "send" /\ rows' = rows
    BY <1>4 DEF SendAccepted, SendFails
  <2>2. /\ rows[d] \in [Units -> Rows \cup {None}]
        /\ Executable(Act(d), Present(rows[d]))
        /\ sent[d] < Len(Targets(Act(d)))
        /\ outcome[d] = "succeeded"
    BY <2>1 DEF ExecutionInv, PlansAreSound
  <2>3. Len(Targets(Act(d))) \in Nat /\ sent[d] \in Nat
    BY <2>2, TargetsAreASequence DEF ExecutionInv, TypeOK
  <2>4. CASE SendAccepted(d)
    <3>1. at' = at /\ outcome' = outcome /\ sent'[d] = sent[d] + 1
      BY <2>4 DEF SendAccepted, ExecutionInv, TypeOK
    <3>2. Act(d)' = Act(d)
      BY <1>1, <1>4, <2>1, <3>1 DEF Executing
    <3>3. pc'[d] = IF sent[d] + 1 = Len(Targets(Act(d))) THEN "apply" ELSE "send"
      BY <2>4 DEF SendAccepted, ExecutionInv, TypeOK
    <3> QED
      BY <1>4, <2>1, <2>2, <2>3, <3>1, <3>2, <3>3 DEF Outcomes
  <2>5. CASE SendFails(d)
    <3>1. sent[d] # 0 /\ at' = at /\ outcome'[d] = "partially_succeeded"
          /\ pc'[d] = "apply" /\ sent' = sent
      BY <1>4, <2>5 DEF SendFails, ExecutionInv, TypeOK
    <3>2. Act(d)' = Act(d)
      BY <1>1, <1>4, <2>1, <3>1 DEF Executing
    <3>3. Act(d).type # "deploy"
      <4> SUFFICES ASSUME Act(d).type = "deploy" PROVE FALSE
        OBVIOUS
      <4>1. Len(Targets(Act(d))) = 1
        BY TargetsTable
      <4>2. sent[d] < 1 /\ sent[d] \in Nat /\ sent[d] # 0
        BY <2>2, <2>3, <3>1, <4>1
      <4> QED
        BY <4>2
    <3> QED
      BY <1>4, <2>1, <2>2, <2>3, <3>1, <3>2, <3>3 DEF Outcomes
  <2> QED
    BY <1>4, <2>4, <2>5
<1>5. CASE e = d /\ ~Plan(d) /\ ~SendAccepted(d) /\ ~SendFails(d)
  <2>1. pc'[d] \notin {"send", "apply"}
    BY <1>5
       DEF StepOf, Works, Judge, Save, Open, Start, Snapshot, SkipRejected, AtAction,
           Apply, Refresh, Finish, Abort, Dies, Step, ExecutionInv, TypeOK
  <2> QED
    BY <1>5, <2>1
<1> QED
  BY <1>2, <1>3, <1>4, <1>5

\* Only the execution of a deployment touches the reserves, and it adds the group
\* the reserve becomes in the same transaction.
LEMMA ReservesStep ==
  ASSUME ExecutionInv, NEW d \in Drivers, StepOf(d)
  PROVE  ReservesBecomeGroups'
<1> SUFFICES ASSUME NEW r \in Reserves \ Foreign
             PROVE  r \notin reserves' <=> groups'[DeployedAs[r]] # None
  BY DEF ReservesBecomeGroups
<1>1. r \notin reserves <=> groups[DeployedAs[r]] # None
  BY DEF ExecutionInv, ReservesBecomeGroups
<1>2. CASE Apply(d)
  <2> DEFINE a == Act(d)
             u == DeployedAs[r]
             changed == IF a.type \in {"hold", "priority"} THEN {} ELSE Effective(d, a)
  <2>1. pc[d] = "apply" /\ reserves' = reserves \ Committed(a)
    BY <1>2 DEF Apply, Step
  <2>2. u \in Units
    BY ScenarioAssumption
  <2>3. groups'[u] = IF u \in changed THEN Planned(a, rows[d][u]) ELSE groups[u]
    BY <1>2, <2>2 DEF Apply
  <2>4. u \in changed => /\ u \in ToSet(Targets(a))
                         /\ Planned(a, rows[d][u]) # None
                         /\ a.type = "deploy" \/ rows[d][u] # None
    BY <2>1, UpdatesChangeTargets, ExecutionAssumption
  <2>5. /\ Executable(a, Present(rows[d]))
        /\ a.type = "deploy" => outcome[d] # "partially_succeeded"
    BY <2>1 DEF ExecutionInv, PlansAreSound
  <2>6. CASE a.type = "deploy"
    <3>1. changed = {DeployedAs[a.reserve]}
      BY <2>5, <2>6, TargetsTable DEF Effective, ToSet
    <3>2. Committed(a) = {a.reserve} /\ a.reserve \in Reserves
      BY <2>5, <2>6 DEF Committed, Executable
    <3>3. u \in changed <=> r = a.reserve
      BY <3>1, <3>2, ScenarioAssumption
    <3> HIDE DEF changed
    <3> QED
      BY <1>1, <2>1, <2>3, <2>4, <3>2, <3>3
  <2>7. CASE a.type # "deploy"
    <3>1. reserves' = reserves
      BY <2>1, <2>7 DEF Committed
    <3>2. u \in changed => groups[u] # None
      <4>1. AllExecutable(Work(d), Present(groups))
        BY <2>1, WorkIsAVerdict DEF ExecutionInv, VerdictsStayExecutable, Executing, Work
      <4>2. Executable(a, Present(groups))
        BY <2>1, <4>1 DEF AllExecutable, Act, ExecutionInv, TypeOK
      <4>3. groups \in [Units -> Rows \cup {None}]
        BY DEF ExecutionInv, TypeOK
      <4> QED
        BY <2>4, <2>7, <4>2, <4>3, PlannedIsARow
    <3> HIDE DEF changed
    <3> QED
      BY <1>1, <2>3, <2>4, <3>1, <3>2
  <2> QED
    BY <2>6, <2>7
<1>3. ~Apply(d) => reserves' = reserves /\ groups' = groups
  BY DEF StepOf, Works, Judge, Save, Open, Start, Snapshot, SkipRejected, Plan,
         SendAccepted, SendFails, Refresh, Finish, Abort, Dies, store, vars
<1> QED
  BY <1>1, <1>2, <1>3

-------------------------------------------------------------------------------
(* The theorems. *)

\* The inductive invariant.
THEOREM ExecutionIsSafe == Spec => []ExecutionInv
<1>1. Init => ExecutionInv
  BY InitIsSafe
<1>2. ExecutionInv /\ [Next]_vars => ExecutionInv'
  <2> SUFFICES ASSUME ExecutionInv, [Next]_vars PROVE ExecutionInv'
    OBVIOUS
  <2>1. ASSUME NEW d \in Drivers, StepOf(d) PROVE ExecutionInv'
    BY <2>1, TypeStep, VerdictsStep, PlansStep, ReservesStep DEF ExecutionInv
  <2>2. CASE UNCHANGED vars
    BY <2>2
       DEF vars, store, locals, ExecutionInv, TypeOK, Executing, Work, Act,
           VerdictsStayExecutable, PlansAreSound, ReservesBecomeGroups
  <2> QED
    BY <2>1, <2>2 DEF Next, StepOf, Finished
<1> QED
  BY <1>1, <1>2, PTL DEF Spec

\* The types of the variables.
THEOREM TypesAreCorrect == Spec => []TypeOK
BY ExecutionIsSafe, PTL DEF ExecutionInv

\* A reserve leaves the pool exactly when its group appears, whatever the drivers
\* do to each other.
THEOREM ReservesAlwaysBecomeGroups == Spec => []ReservesBecomeGroups
BY ExecutionIsSafe, PTL DEF ExecutionInv

\* Every plan finds the groups that its action gives orders to.
THEOREM PlansAlwaysFindTheirGroups == Spec => []PlansFindTheirGroups
<1>1. ExecutionInv => PlansFindTheirGroups
  <2> SUFFICES ASSUME ExecutionInv, NEW d \in Drivers, pc[d] \in {"send", "apply"},
                      Act(d).type # "hold", NEW u \in Commanded(Act(d))
               PROVE  rows[d][u] # None
    BY DEF PlansFindTheirGroups
  <2>1. Executable(Act(d), Present(rows[d]))
    BY DEF ExecutionInv, PlansAreSound
  <2> QED
    BY <2>1, CommandedTable DEF Executable, Present, Movements
<1> QED
  BY <1>1, ExecutionIsSafe, PTL

-------------------------------------------------------------------------------
(* The execution batches, for any number of drivers. *)

\* Every driver has a batch of its own, and the row of the batch says how far it is.
BatchesAreHeld ==
  \A d \in Drivers : Executing(d) =>
    /\ log[mine[d]].state = IF pc[d] = "pending" THEN "pending" ELSE "in_flight"
    /\ \A e \in Drivers : Executing(e) /\ e # d => mine[e] # mine[d]

\* What finalize_execution_batch does to the log.
LEMMA SettleTable ==
  ASSUME TypeOK, NEW d \in Drivers, mine[d] \in DOMAIN log,
         NEW s \in LifecycleStates, NEW t \in Outcomes, Settle(d, s, t)
  PROVE  /\ DOMAIN log' = DOMAIN log
         /\ log'[mine[d]].state = s
         /\ log'[mine[d]].verdict = log[mine[d]].verdict
         /\ \A i \in DOMAIN log : i # mine[d] => log'[i] = log[i]
<1> DEFINE m == mine[d]
<1>1. log \in Seq(LogRows) /\ log[m] \in LogRows
  BY DEF TypeOK
<1>2. log' = [i \in DOMAIN log |->
                IF i = m THEN [log[m] EXCEPT !.state = s, !.status = t] ELSE log[i]]
  BY <1>1 DEF Settle
<1> QED
  BY <1>1, <1>2 DEF LogRows

\* How a step of a driver moves it through its batch.
LEMMA StepsThroughTheBatch ==
  ASSUME ExecutionInv, NEW d \in Drivers, StepOf(d)
  PROVE  \/ /\ Open(d) /\ pc'[d] = "pending" /\ mine'[d] = Len(log) + 1
         \/ /\ log' = log /\ ~Executing(d)'
         \/ /\ log' = log /\ mine'[d] = mine[d]
            /\ pc[d] \in {"in_flight", "next", "send", "apply", "refresh"}
            /\ pc'[d] \in {"in_flight", "next", "send", "apply", "refresh"}
         \/ /\ Settle(d, "in_flight", "no_change") /\ mine'[d] = mine[d]
            /\ pc[d] = "pending" /\ pc'[d] = "in_flight"
         \/ /\ \E s \in {"completed", "aborted"}, t \in Outcomes : Settle(d, s, t)
            /\ pc[d] \in {"next", "apply", "refresh"} /\ ~Executing(d)'
<1>0. pc \in [Drivers -> ControlPoints] /\ DOMAIN mine = Drivers /\ mine[d] \in Nat
  BY DEF ExecutionInv, TypeOK
<1>1. CASE Open(d)
  BY <1>0, <1>1 DEF Open, Step
<1>2. CASE Judge(d) \/ Save(d) \/ Dies(d)
  BY <1>0, <1>2 DEF Judge, Save, Dies, Step, Executing
<1>3. CASE Start(d)
  BY <1>0, <1>3 DEF Start, Step, locals
<1>4. CASE Snapshot(d) \/ SkipRejected(d) \/ Plan(d)
  BY <1>0, <1>4 DEF Snapshot, SkipRejected, Plan, AtAction, Step
<1>5. CASE SendAccepted(d) \/ SendFails(d) \/ Apply(d) \/ Refresh(d)
  BY <1>0, <1>5 DEF SendAccepted, SendFails, Apply, Refresh, Step
<1>6. CASE Finish(d)
  <2>1. Classify(results[d]) \in Outcomes
    BY ClassifyIsAnOutcome DEF ExecutionInv, TypeOK
  <2> QED
    BY <1>0, <1>6, <2>1 DEF Finish, Step, Executing
<1>7. CASE Abort(d)
  BY <1>0, <1>7 DEF Abort, AtAction, Executing, Outcomes
<1> QED
  BY <1>1, <1>2, <1>3, <1>4, <1>5, <1>6, <1>7 DEF StepOf, Works

\* A driver goes on to hold a batch of its own, and settles that one only.
LEMMA HeldStep ==
  ASSUME ExecutionInv, BatchesAreHeld, NEW d \in Drivers, StepOf(d)
  PROVE  /\ BatchesAreHeld'
         /\ \A i \in DOMAIN log :
              /\ i \in DOMAIN log'
              /\ log'[i].verdict = log[i].verdict
              /\ log'[i] # log[i] => <<log[i].state, log'[i].state>> \in BatchMoves
<1> DEFINE kept == \A i \in DOMAIN log : i \in DOMAIN log' /\ log'[i] = log[i]
<1>0. log \in Seq(LogRows) /\ \A e \in Drivers : Executing(e) => mine[e] \in DOMAIN log
  BY DEF ExecutionInv, TypeOK
<1>1. \A e \in Drivers : e # d =>
        /\ pc'[e] = pc[e] /\ mine'[e] = mine[e] /\ (Executing(e)' <=> Executing(e))
  BY StepsAreLocal DEF ExecutionInv, Executing
<1>2. CASE Open(d) /\ pc'[d] = "pending" /\ mine'[d] = Len(log) + 1
  <2>1. /\ kept /\ log'[Len(log) + 1].state = "pending"
    BY <1>0, <1>2 DEF Open
  <2>2. \A e \in Drivers : Executing(e) => mine[e] # Len(log) + 1
    BY <1>0
  <2>3. BatchesAreHeld'
    BY <1>0, <1>1, <1>2, <2>1, <2>2 DEF BatchesAreHeld, Executing
  <2> QED
    BY <2>1, <2>3
<1>3. CASE log' = log /\ ~Executing(d)'
  <2>1. BatchesAreHeld'
    BY <1>1, <1>3 DEF BatchesAreHeld, Executing
  <2> QED
    BY <1>3, <2>1
<1>4. CASE /\ log' = log /\ mine'[d] = mine[d]
           /\ pc[d] \in {"in_flight", "next", "send", "apply", "refresh"}
           /\ pc'[d] \in {"in_flight", "next", "send", "apply", "refresh"}
  <2>1. BatchesAreHeld'
    BY <1>1, <1>4 DEF BatchesAreHeld, Executing
  <2> QED
    BY <1>4, <2>1
<1>5. ASSUME Executing(d), NEW s \in LifecycleStates, NEW t \in Outcomes, Settle(d, s, t),
             mine'[d] = mine[d] \/ ~Executing(d)',
             Executing(d)' => s = IF pc'[d] = "pending" THEN "pending" ELSE "in_flight",
             <<log[mine[d]].state, s>> \in BatchMoves
      PROVE  /\ BatchesAreHeld'
             /\ \A i \in DOMAIN log :
                  /\ i \in DOMAIN log'
                  /\ log'[i].verdict = log[i].verdict
                  /\ log'[i] # log[i] => <<log[i].state, log'[i].state>> \in BatchMoves
  <2>1. /\ DOMAIN log' = DOMAIN log
        /\ log'[mine[d]].state = s
        /\ log'[mine[d]].verdict = log[mine[d]].verdict
        /\ \A i \in DOMAIN log : i # mine[d] => log'[i] = log[i]
    BY <1>0, <1>5, SettleTable DEF ExecutionInv
  <2>2. \A e \in Drivers : e # d /\ Executing(e) => log'[mine[e]] = log[mine[e]]
    BY <1>0, <1>5, <2>1 DEF BatchesAreHeld
  <2>3. BatchesAreHeld'
    BY <1>1, <1>5, <2>1, <2>2 DEF BatchesAreHeld
  <2> QED
    BY <1>5, <2>1, <2>3
<1>6. CASE /\ Settle(d, "in_flight", "no_change") /\ mine'[d] = mine[d]
           /\ pc[d] = "pending" /\ pc'[d] = "in_flight"
  <2>1. Executing(d) /\ log[mine[d]].state = "pending"
    BY <1>6 DEF BatchesAreHeld, Executing
  <2> QED
    BY <1>5, <1>6, <2>1 DEF BatchMoves, LifecycleStates, Outcomes
<1>7. CASE /\ \E s \in {"completed", "aborted"}, t \in Outcomes : Settle(d, s, t)
           /\ pc[d] \in {"next", "apply", "refresh"} /\ ~Executing(d)'
  <2>1. Executing(d) /\ log[mine[d]].state = "in_flight"
    BY <1>7 DEF BatchesAreHeld, Executing
  <2> QED
    BY <1>5, <1>7, <2>1 DEF BatchMoves, LifecycleStates
<1> QED
  BY <1>2, <1>3, <1>4, <1>6, <1>7, StepsThroughTheBatch

\* BatchesSettleOnce: however many drivers there are and however often they are killed, a
\* batch is settled by the driver that opened it, in order, and at most once.
THEOREM BatchesAreSettledOnce == Spec => BatchesSettleOnce
<1> DEFINE Kept == \A i \in DOMAIN log :
                     /\ i \in DOMAIN log'
                     /\ log'[i].verdict = log[i].verdict
                     /\ log'[i] # log[i] => <<log[i].state, log'[i].state>> \in BatchMoves
<1>1. Init => BatchesAreHeld
  BY DEF Init, BatchesAreHeld, Executing
<1>2. ExecutionInv /\ BatchesAreHeld /\ [Next]_vars => BatchesAreHeld' /\ [Kept]_log
  <2> SUFFICES ASSUME ExecutionInv, BatchesAreHeld, [Next]_vars
               PROVE  BatchesAreHeld' /\ [Kept]_log
    OBVIOUS
  <2>1. ASSUME NEW d \in Drivers, StepOf(d) PROVE BatchesAreHeld' /\ Kept
    BY <2>1, HeldStep
  <2>2. CASE UNCHANGED vars
    BY <2>2 DEF vars, locals, BatchesAreHeld, Executing
  <2> QED
    BY <2>1, <2>2 DEF Next, StepOf, Finished
<1> QED
  BY <1>1, <1>2, ExecutionIsSafe, PTL DEF Spec, BatchesSettleOnce

-------------------------------------------------------------------------------
(* The standing orders, for any number of drivers. *)

\* An upsert keeps the orders one per entity and type.
LEMMA UpsertKeepsOne ==
  ASSUME NEW old, NEW a, NEW new \in SUBSET OrdersOf(a),
         \A o, p \in old : (o.entity = p.entity /\ o.action.type = p.action.type) => o = p
  PROVE  \A o, p \in Upsert(old, new) :
           (o.entity = p.entity /\ o.action.type = p.action.type) => o = p
<1>1. \A n \in new : n = [entity |-> n.entity, action |-> a]
  BY DEF OrdersOf
<1>2. \A o, p \in new : o.entity = p.entity => o = p
  BY <1>1
<1>3. \A o \in Upsert(old, new) :
        \/ o \in new
        \/ o \in old /\ ~\E n \in new : n.entity = o.entity /\ n.action.type = o.action.type
  BY DEF Upsert
<1> QED
  BY <1>2, <1>3

\* OneOrderPerEntity: whoever gives an order, it replaces the one of its type on its entity.
THEOREM OrdersStayOnePerEntity == Spec => []OneOrderPerEntity
<1>1. Init => OneOrderPerEntity
  BY DEF Init, OneOrderPerEntity
<1>2. OneOrderPerEntity /\ [Next]_vars => OneOrderPerEntity'
  <2> SUFFICES ASSUME OneOrderPerEntity, [Next]_vars PROVE OneOrderPerEntity'
    OBVIOUS
  <2>1. ASSUME NEW d \in Drivers, Apply(d) PROVE OneOrderPerEntity'
    <3>1. PICK new \in SUBSET OrdersOf(Act(d)) : orders' = Upsert(orders, new)
      BY <2>1 DEF Apply
    <3> QED
      BY <3>1, UpsertKeepsOne DEF OneOrderPerEntity
  <2>2. ASSUME NEW d \in Drivers, StepOf(d), ~Apply(d) PROVE orders' = orders
    BY <2>2
       DEF StepOf, Works, Judge, Save, Open, Start, Snapshot, SkipRejected, Plan,
           SendAccepted, SendFails, Refresh, Finish, Abort, Dies, store, vars
  <2>3. CASE orders' = orders
    BY <2>3 DEF OneOrderPerEntity
  <2> QED
    BY <2>1, <2>2, <2>3 DEF Next, StepOf, Finished, vars, store
<1> QED
  BY <1>1, <1>2, PTL DEF Spec

-------------------------------------------------------------------------------
(* What the reserves cost, for any number of drivers. *)

\* Deploying one more reserve adds its price to what is spent.
LEMMA SpendGrows ==
  ASSUME IsFiniteSet(Reserves), NEW S \in SUBSET Reserves
  PROVE  /\ SumFunctionOnSet(Cost, S) \in Int
         /\ S = {} => SumFunctionOnSet(Cost, S) = 0
         /\ \A r \in Reserves \ S :
              SumFunctionOnSet(Cost, S \cup {r}) = SumFunctionOnSet(Cost, S) + Cost[r]
<1>1. \A T \in SUBSET Reserves : IsFiniteSet(T) /\ \A x \in T : Cost[x] \in Int
  BY FS_Subset, ScenarioAssumption
<1>2. \A r \in Reserves \ S :
        SumFunctionOnSet(Cost, S \cup {r}) = SumFunctionOnSet(Cost, S) + Cost[r]
  <2> TAKE r \in Reserves \ S
  <2> DEFINE T == S \cup {r}
  <2>1. T \in SUBSET Reserves /\ r \in T /\ T \ {r} = S
    OBVIOUS
  <2> HIDE DEF T
  <2>2. IsFiniteSet(T) /\ \A x \in T : Cost[x] \in Int
    BY <1>1, <2>1
  <2>3. SumFunctionOnSet(Cost, T) = SumFunctionOnSet(Cost, T \ {r}) + Cost[r]
    BY <2>1, <2>2, SumOfOneMore
  <2> QED
    BY <2>1, <2>3 DEF T
<1> QED
  BY <1>1, <1>2, SumOfOneMore

\* The reserves that are groups are those that have left the pool.
LEMMA DeployedAreGone ==
  ASSUME ReservesBecomeGroups
  PROVE  Deployed = (Reserves \ Foreign) \ reserves
BY DEF ReservesBecomeGroups, Deployed

\* Whoever executes a deployment, its price is paid, and no more than that one group
\* comes of it.
LEMMA DeploymentIsPaid ==
  ASSUME ExecutionInv, NEW d \in Drivers, Apply(d), budget' # budget \/ reserves' # reserves
  PROVE  \E r \in Reserves \ Foreign :
           reserves' = reserves \ {r} /\ budget' = budget - Cost[r]
<1>1. pc[d] = "apply"
  BY DEF Apply, Step
<1>2. Executable(Act(d), Present(rows[d]))
  BY <1>1 DEF ExecutionInv, PlansAreSound
<1>3. /\ budget' = IF Act(d).type = "deploy" THEN budget - Cost[Act(d).reserve] ELSE budget
      /\ reserves' = reserves \ Committed(Act(d))
  BY DEF Apply
<1>4. Act(d).type = "deploy"
  BY <1>3 DEF Committed
<1> QED
  BY <1>2, <1>3, <1>4 DEF Committed, Executable

\* NothingIsFree: whatever the drivers do to each other, every group that came out of the
\* reserves has been paid for.  A scenario has finitely many reserves.
THEOREM NothingIsEverFree ==
  ASSUME IsFiniteSet(Reserves)
  PROVE  Spec => []NothingIsFree
<1>1. Init => NothingIsFree
  <2> SUFFICES ASSUME Init PROVE NothingIsFree
    OBVIOUS
  <2>1. ReservesBecomeGroups
    BY InitIsSafe DEF ExecutionInv
  <2>2. Deployed = {}
    BY <2>1, DeployedAreGone DEF Init
  <2>3. Spend = 0
    BY <2>2, SpendGrows DEF Spend
  <2> QED
    BY <2>3, ExecutionAssumption DEF Init, NothingIsFree
<1>2. ExecutionInv /\ ReservesBecomeGroups' /\ NothingIsFree /\ [Next]_vars => NothingIsFree'
  <2> SUFFICES ASSUME ExecutionInv, ReservesBecomeGroups', NothingIsFree, [Next]_vars
               PROVE  NothingIsFree'
    OBVIOUS
  <2>1. /\ Deployed = (Reserves \ Foreign) \ reserves
        /\ Deployed' = (Reserves \ Foreign) \ reserves'
    BY DEF ExecutionInv, ReservesBecomeGroups, Deployed
  <2>2. Deployed \in SUBSET Reserves /\ budget \in Int
    BY <2>1 DEF ExecutionInv, TypeOK
  <2>3. CASE budget' = budget /\ reserves' = reserves
    <3>1. Deployed' = Deployed
      BY <2>1, <2>3
    <3> QED
      BY <2>3, <3>1 DEF NothingIsFree, Spend
  <2>4. ASSUME NEW r \in Reserves \ Foreign,
               reserves' = reserves \ {r}, budget' = budget - Cost[r]
        PROVE  NothingIsFree'
    <3>1. Cost[r] \in Nat
      BY ScenarioAssumption
    <3>2. Spend \in Int /\ budget + Spend <= Budget0
      BY <2>2, SpendGrows DEF Spend, NothingIsFree
    <3>3. Spend' = Spend \/ Spend' = Spend + Cost[r]
      <4>1. CASE r \in Deployed
        <5>1. Deployed' = Deployed
          BY <2>1, <2>4, <4>1
        <5> QED
          BY <5>1 DEF Spend
      <4>2. CASE r \notin Deployed
        <5>1. Deployed' = Deployed \cup {r}
          BY <2>1, <2>4, <4>2
        <5>2. SumFunctionOnSet(Cost, Deployed \cup {r}) = SumFunctionOnSet(Cost, Deployed) + Cost[r]
          BY <2>2, <2>4, <4>2, SpendGrows
        <5> QED
          BY <5>1, <5>2 DEF Spend
      <4> QED
        BY <4>1, <4>2
    <3>4. budget' + Spend' <= Budget0
      BY <2>2, <2>4, <3>1, <3>2, <3>3, ExecutionAssumption
    <3> QED
      BY <3>4 DEF NothingIsFree
  <2>5. ASSUME NEW d \in Drivers, StepOf(d)
        PROVE  \/ budget' = budget /\ reserves' = reserves
               \/ \E r \in Reserves \ Foreign :
                    reserves' = reserves \ {r} /\ budget' = budget - Cost[r]
    <3>1. CASE Apply(d)
      BY <3>1, DeploymentIsPaid
    <3>2. CASE ~Apply(d)
      BY <2>5, <3>2
         DEF StepOf, Works, Judge, Save, Open, Start, Snapshot, SkipRejected, Plan,
             SendAccepted, SendFails, Refresh, Finish, Abort, Dies, store, vars
    <3> QED
      BY <3>1, <3>2
  <2>6. CASE UNCHANGED vars
    BY <2>3, <2>6 DEF vars, store
  <2> QED
    BY <2>3, <2>4, <2>5, <2>6 DEF Next, StepOf, Finished
<1>3. ExecutionInv => ReservesBecomeGroups
  BY DEF ExecutionInv
<1> QED
  BY <1>1, <1>2, <1>3, ExecutionIsSafe, PTL DEF Spec

-------------------------------------------------------------------------------
(* A run that a single driver works on, started again as often as it dies.  With *)
(* two drivers none of the theorems that follow holds: both may execute the same *)
(* verdict, since each executes the latest one.                                  *)

\* From position n on, the deployments a verdict accepts commit reserves of
\* the pool; and no two of its deployments commit the same reserve.
Unspent(v, n, pool) ==
  /\ \A i \in v.ok : i >= n /\ v.batch[i].type = "deploy" => v.batch[i].reserve \in pool
  /\ \A i, j \in v.ok : (/\ i # j /\ v.batch[i].type = "deploy"
                         /\ v.batch[j].type = "deploy")
                        => v.batch[i].reserve # v.batch[j].reserve

\* The deployments a driver has still to execute are paid for from what is there.
DeploymentsAreUnspent(d) ==
  /\ pc[d] = "judged" => Unspent(draft[d], 0, reserves)
  /\ pc[d] = "saved" => Unspent(verdicts[Len(verdicts)], 0, reserves)
  /\ pc[d] \in {"pending", "in_flight"} => Unspent(Work(d), 0, reserves)
  /\ pc[d] \in {"next", "send", "apply", "refresh"} => Unspent(Work(d), at[d], reserves)

-------------------------------------------------------------------------------
\* An accepted batch deploys available reserves, each once.
LEMMA AcceptedIsUnspent ==
  ASSUME NEW b \in Payloads, NEW S \in SUBSET DOMAIN b, IsAccepted(S, b, View)
  PROVE  Unspent([batch |-> b, ok |-> S], 0, reserves)
<1>1. ASSUME NEW i \in S, b[i].type = "deploy"
      PROVE  b[i].reserve \in reserves
  BY <1>1 DEF IsAccepted, Passes, ResourceStage, View
<1>2. ASSUME NEW i \in S, NEW j \in S, i < j, b[i].type = "deploy", b[j].type = "deploy"
      PROVE  b[i].reserve # b[j].reserve
  BY <1>2 DEF IsAccepted, Clash
<1>3. \A i, j \in S : i # j => i < j \/ j < i
  BY ExecutionAssumption
<1> QED
  BY <1>1, <1>2, <1>3 DEF Unspent

\* Only the execution of a deployment touches the budget and the reserves.
LEMMA OnlyApplySpends ==
  ASSUME NEW d \in Drivers, StepOf(d), ~Apply(d)
  PROVE  budget' = budget /\ reserves' = reserves
BY DEF StepOf, Works, Judge, Save, Open, Start, Snapshot, SkipRejected, Plan,
       SendAccepted, SendFails, Refresh, Finish, Abort, Dies, store, vars

\* The coalition pays for a reserve that was available.
Charges == \E r \in reserves : reserves' = reserves \ {r} /\ budget' = budget - Cost[r]

\* What an unspent deployment does to budget and reserves.
LEMMA DeploymentCharges ==
  ASSUME ExecutionInv, NEW d \in Drivers, DeploymentsAreUnspent(d), Apply(d)
  PROVE  <<budget, reserves>>' = <<budget, reserves>> \/ Charges
<1>1. pc[d] = "apply" /\ at[d] \in Work(d).ok /\ at[d] \in Nat
  BY DEF Apply, Step, ExecutionInv, TypeOK
<1>2. Act(d).type = "deploy" => Act(d).reserve \in reserves
  BY <1>1 DEF DeploymentsAreUnspent, Unspent, Act
<1>3. /\ budget' = IF Act(d).type = "deploy" THEN budget - Cost[Act(d).reserve] ELSE budget
      /\ reserves' = reserves \ Committed(Act(d))
  BY DEF Apply
<1> QED
  BY <1>2, <1>3 DEF Committed, Charges

\* A step of the driver leaves what it has still to deploy unspent.
LEMMA UnspentStep ==
  ASSUME ExecutionInv, NEW d \in Drivers, DeploymentsAreUnspent(d), StepOf(d)
  PROVE  DeploymentsAreUnspent(d)'
<1> DEFINE late == {"next", "send", "apply", "refresh"}
<1>0. pc \in [Drivers -> ControlPoints] /\ at \in [Drivers -> Nat]
  BY DEF ExecutionInv, TypeOK
<1>1. Executing(d) => Work(d)' = Work(d) /\ Work(d).ok \subseteq Nat
  BY StepsKeepWork, WorkIsAVerdict DEF ExecutionInv, Verdicts
<1>2. ~Apply(d) => reserves' = reserves
  BY OnlyApplySpends
<1>3. \A v, m, n : (v.ok \subseteq Nat /\ m \in Nat /\ n \in Nat /\ m <= n) =>
                     (Unspent(v, m, reserves) => Unspent(v, n, reserves))
  BY DEF Unspent
<1>4. CASE Judge(d)
  <2>1. PICK b \in Payloads : \E S \in SUBSET DOMAIN b :
          IsAccepted(S, b, View) /\ draft' = [draft EXCEPT ![d] = [batch |-> b, ok |-> S]]
    BY <1>4 DEF Judge
  <2>2. PICK S \in SUBSET DOMAIN b :
          IsAccepted(S, b, View) /\ draft' = [draft EXCEPT ![d] = [batch |-> b, ok |-> S]]
    BY <2>1
  <2>3. draft'[d] = [batch |-> b, ok |-> S]
    BY <2>2 DEF ExecutionInv, TypeOK
  <2>4. ~Apply(d) /\ pc'[d] = "judged"
    BY <1>4, <1>0 DEF Judge, Apply, Step
  <2>5. Unspent(draft'[d], 0, reserves')
    BY <1>2, <2>2, <2>3, <2>4, AcceptedIsUnspent
  <2> QED
    BY <2>4, <2>5 DEF DeploymentsAreUnspent
<1>5. CASE Save(d)
  <2>1. /\ verdicts' = Append(verdicts, draft[d]) /\ pc'[d] = "saved"
        /\ pc[d] = "judged" /\ ~Apply(d)
    BY <1>5, <1>0 DEF Save, Apply, Step
  <2>2. verdicts'[Len(verdicts')] = draft[d]
    BY <2>1 DEF ExecutionInv, TypeOK
  <2>3. Unspent(draft[d], 0, reserves)
    BY <2>1 DEF DeploymentsAreUnspent
  <2> QED
    BY <1>2, <2>1, <2>2, <2>3 DEF DeploymentsAreUnspent
<1>6. CASE Open(d)
  <2>1. /\ pc'[d] = "pending" /\ pc[d] = "saved" /\ ~Apply(d) /\ verdicts' = verdicts
        /\ log' = Append(log, [verdict |-> Len(verdicts), state |-> "pending",
                               status |-> "no_change"])
        /\ mine'[d] = Len(log) + 1
    BY <1>6, <1>0 DEF Open, Apply, Step, ExecutionInv, TypeOK
  <2>2. log'[Len(log) + 1].verdict = Len(verdicts)
    BY <2>1 DEF ExecutionInv, TypeOK
  <2>3. Work(d)' = verdicts[Len(verdicts)]
    BY <2>1, <2>2 DEF Work
  <2>4. Unspent(verdicts[Len(verdicts)], 0, reserves)
    BY <2>1 DEF DeploymentsAreUnspent
  <2> QED
    BY <1>2, <2>1, <2>3, <2>4 DEF DeploymentsAreUnspent
<1>7. CASE Start(d) \/ Snapshot(d)
  <2>1. pc[d] \in {"pending", "in_flight"} /\ ~Apply(d)
    BY <1>7 DEF Start, Snapshot, Apply, Step
  <2>2. pc'[d] = "in_flight" \/ (pc'[d] = "next" /\ at'[d] = 1)
    BY <1>7, <1>0 DEF Start, Snapshot, Step
  <2>3. Unspent(Work(d), 0, reserves) /\ Unspent(Work(d), 1, reserves)
    BY <1>1, <1>3, <2>1 DEF DeploymentsAreUnspent, Executing
  <2> QED
    BY <1>1, <1>2, <2>1, <2>2, <2>3 DEF DeploymentsAreUnspent, Executing
<1>8. CASE SkipRejected(d) \/ Plan(d) \/ SendAccepted(d) \/ SendFails(d) \/ Refresh(d)
  <2>1. pc[d] \in late /\ pc'[d] \in late /\ ~Apply(d)
    BY <1>8, <1>0
       DEF SkipRejected, Plan, AtAction, SendAccepted, SendFails, Refresh, Apply, Step
  <2>2. at'[d] \in Nat /\ at[d] <= at'[d] /\ at[d] \in Nat
    BY <1>8, <1>0 DEF SkipRejected, Plan, SendAccepted, SendFails, Refresh, locals
  <2>3. Unspent(Work(d), at'[d], reserves)
    BY <1>1, <1>3, <2>1, <2>2 DEF DeploymentsAreUnspent, Executing
  <2> QED
    BY <1>1, <1>2, <2>1, <2>3 DEF DeploymentsAreUnspent, Executing
<1>9. CASE Apply(d)
  <2>1. /\ pc[d] = "apply" /\ pc'[d] \in {"next", "refresh"} /\ at'[d] = at[d] + 1
        /\ at[d] \in Work(d).ok /\ at[d] \in Nat
        /\ reserves' = reserves \ Committed(Act(d))
    BY <1>9, <1>0 DEF Apply, Step, ExecutionInv, TypeOK
  <2>2. Unspent(Work(d), at[d], reserves)
    BY <2>1 DEF DeploymentsAreUnspent
  <2>3. Work(d)' = Work(d) /\ Work(d).ok \subseteq Nat
    BY <1>1, <2>1 DEF Executing
  <2>4. ASSUME NEW i \in Work(d).ok, i >= at[d] + 1, Work(d).batch[i].type = "deploy"
        PROVE  Work(d).batch[i].reserve \in reserves'
    <3>1. i # at[d] /\ i >= at[d]
      BY <2>1, <2>3, <2>4
    <3> QED
      BY <2>1, <2>2, <2>4, <3>1 DEF Unspent, Committed, Act
  <2>5. Unspent(Work(d), at[d] + 1, reserves')
    BY <2>1, <2>2, <2>3, <2>4 DEF Unspent
  <2> QED
    BY <2>1, <2>3, <2>5 DEF DeploymentsAreUnspent
<1>10. CASE Finish(d) \/ Abort(d) \/ Dies(d)
  <2>1. pc'[d] = "idle"
    BY <1>10, <1>0 DEF Finish, Abort, Dies, Step
  <2> QED
    BY <2>1 DEF DeploymentsAreUnspent
<1> QED
  BY <1>4, <1>5, <1>6, <1>7, <1>8, <1>9, <1>10 DEF StepOf, Works

-------------------------------------------------------------------------------
\* ImplementsReservePool: what a sole driver does to budget, reserves and groups is what
\* the reserve pool allows, step by step.
THEOREM SoleDriverImplementsReservePool ==
  ASSUME NEW q, Drivers = {q}
  PROVE  Spec => ImplementsReservePool
<1> DEFINE PoolStep == [Reserve!PoolNext]_<<budget, reserves, Deployed>>
<1>1. Init => Reserve!PoolInit
  <2> SUFFICES ASSUME Init PROVE Deployed = {}
    BY DEF Init, Reserve!PoolInit
  <2>1. ReservesBecomeGroups
    BY InitIsSafe DEF ExecutionInv
  <2>2. reserves = Reserves \ Foreign
    BY DEF Init
  <2> QED
    BY <2>1, <2>2 DEF ReservesBecomeGroups, Deployed
<1>2. Init => DeploymentsAreUnspent(q)
  BY DEF Init, DeploymentsAreUnspent
<1>3. ExecutionInv /\ ExecutionInv' => Deployed = (Reserves \ Foreign) \ reserves
                                     /\ Deployed' = (Reserves \ Foreign) \ reserves'
  BY DEF ExecutionInv, ReservesBecomeGroups, Deployed
<1>4. ExecutionInv /\ ExecutionInv' /\ DeploymentsAreUnspent(q) /\ [Next]_vars
        => DeploymentsAreUnspent(q)' /\ PoolStep
  <2> SUFFICES ASSUME ExecutionInv, ExecutionInv', DeploymentsAreUnspent(q), [Next]_vars
               PROVE  DeploymentsAreUnspent(q)' /\ PoolStep
    OBVIOUS
  <2>1. CASE StepOf(q)
    <3>1. DeploymentsAreUnspent(q)'
      BY <2>1, UnspentStep
    <3>2. <<budget, reserves>>' = <<budget, reserves>> \/ Charges
      BY <2>1, DeploymentCharges, OnlyApplySpends
    <3>3. CASE <<budget, reserves>>' = <<budget, reserves>>
      BY <1>3, <3>1, <3>3
    <3>4. CASE Charges
      <4>1. PICK r \in reserves : reserves' = reserves \ {r} /\ budget' = budget - Cost[r]
        BY <3>4 DEF Charges
      <4>2. r \in Reserves \ Foreign
        BY DEF ExecutionInv, TypeOK
      <4>3. Deployed' = Deployed \cup {r}
        BY <1>3, <4>1, <4>2
      <4>4. Reserve!Deploy(r)
        BY <4>1, <4>3 DEF Reserve!Deploy
      <4>5. Reserve!PoolNext
        BY <4>2, <4>4 DEF Reserve!PoolNext
      <4> QED
        BY <3>1, <4>5
    <3> QED
      BY <3>2, <3>3, <3>4
  <2>2. CASE UNCHANGED vars
    BY <2>2 DEF vars, store, locals, DeploymentsAreUnspent, Work, Deployed
  <2> QED
    BY <2>1, <2>2 DEF Next, StepOf, Finished
<1> QED
  BY <1>1, <1>2, <1>4, ExecutionIsSafe, PTL DEF Spec, ImplementsReservePool, Reserve!PoolSpec

\* No payload deploys two reserves.
OneDeploymentEach ==
  \A b \in Payloads : \A i, j \in DOMAIN b :
    (b[i].type = "deploy" /\ b[j].type = "deploy") => i = j

\* From position n on, each deployment a verdict accepts is within the budget.
Affordable(v, n, money) ==
  \A i \in v.ok : i >= n /\ v.batch[i].type = "deploy" => Cost[v.batch[i].reserve] <= money

DeploymentsAreAffordable(d) ==
  /\ pc[d] = "judged" => Affordable(draft[d], 0, budget)
  /\ pc[d] = "saved" => Affordable(verdicts[Len(verdicts)], 0, budget)
  /\ pc[d] \in {"pending", "in_flight"} => Affordable(Work(d), 0, budget)
  /\ pc[d] \in {"next", "send", "apply", "refresh"} => Affordable(Work(d), at[d], budget)

\* What is accepted is affordable, one deployment at a time.
LEMMA AcceptedIsAffordable ==
  ASSUME NEW b \in Payloads, NEW S \in SUBSET DOMAIN b, IsAccepted(S, b, View)
  PROVE  Affordable([batch |-> b, ok |-> S], 0, budget)
<1>1. ASSUME NEW i \in S, b[i].type = "deploy"
      PROVE  Cost[b[i].reserve] \in Int /\ budget >= Cost[b[i].reserve]
  <2>1. View.budget >= Cost[b[i].reserve] /\ b[i].reserve \in Reserves
    BY <1>1 DEF IsAccepted, Passes, ResourceStage, CoalitionStage, ScenarioStage
  <2> QED
    BY <2>1, ScenarioAssumption DEF View
<1> QED
  BY <1>1 DEF Affordable

\* A step of the driver leaves what it has still to deploy affordable.
LEMMA AffordableStep ==
  ASSUME ExecutionInv, OneDeploymentEach, NEW d \in Drivers,
         DeploymentsAreAffordable(d), StepOf(d)
  PROVE  DeploymentsAreAffordable(d)'
<1> DEFINE late == {"next", "send", "apply", "refresh"}
<1>0. pc \in [Drivers -> ControlPoints] /\ at \in [Drivers -> Nat]
  BY DEF ExecutionInv, TypeOK
<1>1. Executing(d) => /\ Work(d)' = Work(d) /\ Work(d).ok \subseteq Nat
                      /\ Work(d).batch \in Payloads
  BY StepsKeepWork, WorkIsAVerdict DEF ExecutionInv, Verdicts
<1>2. ~Apply(d) => budget' = budget
  BY OnlyApplySpends
<1>3. \A v, m, n : (v.ok \subseteq Nat /\ m \in Nat /\ n \in Nat /\ m <= n) =>
                     (Affordable(v, m, budget) => Affordable(v, n, budget))
  BY DEF Affordable
<1>4. CASE Judge(d)
  <2>1. PICK b \in Payloads : \E S \in SUBSET DOMAIN b :
          IsAccepted(S, b, View) /\ draft' = [draft EXCEPT ![d] = [batch |-> b, ok |-> S]]
    BY <1>4 DEF Judge
  <2>2. PICK S \in SUBSET DOMAIN b :
          IsAccepted(S, b, View) /\ draft' = [draft EXCEPT ![d] = [batch |-> b, ok |-> S]]
    BY <2>1
  <2>3. draft'[d] = [batch |-> b, ok |-> S]
    BY <2>2 DEF ExecutionInv, TypeOK
  <2>4. ~Apply(d) /\ pc'[d] = "judged"
    BY <1>4, <1>0 DEF Judge, Apply, Step
  <2>5. Affordable(draft'[d], 0, budget')
    BY <1>2, <2>2, <2>3, <2>4, AcceptedIsAffordable
  <2> QED
    BY <2>4, <2>5 DEF DeploymentsAreAffordable
<1>5. CASE Save(d)
  <2>1. /\ verdicts' = Append(verdicts, draft[d]) /\ pc'[d] = "saved"
        /\ pc[d] = "judged" /\ ~Apply(d)
    BY <1>5, <1>0 DEF Save, Apply, Step
  <2>2. verdicts'[Len(verdicts')] = draft[d]
    BY <2>1 DEF ExecutionInv, TypeOK
  <2>3. Affordable(draft[d], 0, budget)
    BY <2>1 DEF DeploymentsAreAffordable
  <2> QED
    BY <1>2, <2>1, <2>2, <2>3 DEF DeploymentsAreAffordable
<1>6. CASE Open(d)
  <2>1. /\ pc'[d] = "pending" /\ pc[d] = "saved" /\ ~Apply(d) /\ verdicts' = verdicts
        /\ log' = Append(log, [verdict |-> Len(verdicts), state |-> "pending",
                               status |-> "no_change"])
        /\ mine'[d] = Len(log) + 1
    BY <1>6, <1>0 DEF Open, Apply, Step, ExecutionInv, TypeOK
  <2>2. log'[Len(log) + 1].verdict = Len(verdicts)
    BY <2>1 DEF ExecutionInv, TypeOK
  <2>3. Work(d)' = verdicts[Len(verdicts)]
    BY <2>1, <2>2 DEF Work
  <2>4. Affordable(verdicts[Len(verdicts)], 0, budget)
    BY <2>1 DEF DeploymentsAreAffordable
  <2> QED
    BY <1>2, <2>1, <2>3, <2>4 DEF DeploymentsAreAffordable
<1>7. CASE Start(d) \/ Snapshot(d)
  <2>1. pc[d] \in {"pending", "in_flight"} /\ ~Apply(d)
    BY <1>7 DEF Start, Snapshot, Apply, Step
  <2>2. pc'[d] = "in_flight" \/ (pc'[d] = "next" /\ at'[d] = 1)
    BY <1>7, <1>0 DEF Start, Snapshot, Step
  <2>3. Affordable(Work(d), 0, budget) /\ Affordable(Work(d), 1, budget)
    BY <1>1, <1>3, <2>1 DEF DeploymentsAreAffordable, Executing
  <2> QED
    BY <1>1, <1>2, <2>1, <2>2, <2>3 DEF DeploymentsAreAffordable, Executing
<1>8. CASE SkipRejected(d) \/ Plan(d) \/ SendAccepted(d) \/ SendFails(d) \/ Refresh(d)
  <2>1. pc[d] \in late /\ pc'[d] \in late /\ ~Apply(d)
    BY <1>8, <1>0
       DEF SkipRejected, Plan, AtAction, SendAccepted, SendFails, Refresh, Apply, Step
  <2>2. at'[d] \in Nat /\ at[d] <= at'[d] /\ at[d] \in Nat
    BY <1>8, <1>0 DEF SkipRejected, Plan, SendAccepted, SendFails, Refresh, locals
  <2>3. Affordable(Work(d), at'[d], budget)
    BY <1>1, <1>3, <2>1, <2>2 DEF DeploymentsAreAffordable, Executing
  <2> QED
    BY <1>1, <1>2, <2>1, <2>3 DEF DeploymentsAreAffordable, Executing
<1>9. CASE Apply(d)
  <2>1. /\ pc[d] = "apply" /\ pc'[d] \in {"next", "refresh"} /\ at'[d] = at[d] + 1
        /\ at[d] \in Work(d).ok /\ at[d] \in Nat
        /\ Act(d).type # "deploy" => budget' = budget
    BY <1>9, <1>0 DEF Apply, Step, ExecutionInv, TypeOK
  <2>2. Affordable(Work(d), at[d], budget)
    BY <2>1 DEF DeploymentsAreAffordable
  <2>3. /\ Work(d)' = Work(d) /\ Work(d).ok \subseteq Nat
        /\ \A i \in Work(d).ok : i \in DOMAIN Work(d).batch
    <3>1. AllExecutable(Work(d), Present(groups))
      BY <2>1, WorkIsAVerdict DEF ExecutionInv, VerdictsStayExecutable, Executing, Work
    <3> QED
      BY <1>1, <2>1, <3>1 DEF Executing, AllExecutable
  <2>4. CASE Act(d).type = "deploy"
    <3>1. \A i \in Work(d).ok : i >= at[d] + 1 => Work(d).batch[i].type # "deploy"
      BY <1>1, <2>1, <2>3, <2>4 DEF OneDeploymentEach, Act, Executing
    <3>2. Affordable(Work(d), at[d] + 1, budget')
      BY <3>1 DEF Affordable
    <3> QED
      BY <2>1, <2>3, <3>2 DEF DeploymentsAreAffordable
  <2>5. CASE Act(d).type # "deploy"
    <3>1. Affordable(Work(d), at[d] + 1, budget)
      BY <1>3, <2>1, <2>2, <2>3
    <3> QED
      BY <2>1, <2>3, <2>5, <3>1 DEF DeploymentsAreAffordable
  <2> QED
    BY <2>4, <2>5
<1>10. CASE Finish(d) \/ Abort(d) \/ Dies(d)
  <2>1. pc'[d] = "idle"
    BY <1>10, <1>0 DEF Finish, Abort, Dies, Step
  <2> QED
    BY <2>1 DEF DeploymentsAreAffordable
<1> QED
  BY <1>4, <1>5, <1>6, <1>7, <1>8, <1>9, <1>10 DEF StepOf, Works

\* Solvent: with a sole driver and at most one deployment in a payload the budget is never
\* overdrawn, whatever happens between the verdict and its execution.
THEOREM SoleDriverStaysSolvent ==
  ASSUME OneDeploymentEach, NEW q, Drivers = {q}
  PROVE  Spec => []Solvent
<1>1. Init => Solvent /\ DeploymentsAreAffordable(q)
  BY ExecutionAssumption DEF Init, Solvent, DeploymentsAreAffordable
<1>2. /\ ExecutionInv /\ Solvent /\ DeploymentsAreAffordable(q) /\ [Next]_vars
      => Solvent' /\ DeploymentsAreAffordable(q)'
  <2> SUFFICES ASSUME ExecutionInv, Solvent, DeploymentsAreAffordable(q), [Next]_vars
               PROVE  Solvent' /\ DeploymentsAreAffordable(q)'
    OBVIOUS
  <2>1. CASE StepOf(q)
    <3>1. DeploymentsAreAffordable(q)'
      BY <2>1, AffordableStep
    <3>2. CASE ~Apply(q)
      BY <2>1, <3>2, OnlyApplySpends, <3>1 DEF Solvent
    <3>3. CASE Apply(q)
      <4>1. pc[q] = "apply" /\ at[q] \in Work(q).ok /\ at[q] \in Nat
        BY <3>3 DEF Apply, Step, ExecutionInv, TypeOK
      <4>2. Act(q).type = "deploy" => /\ Cost[Act(q).reserve] <= budget
                                      /\ Act(q).reserve \in Reserves
        BY <4>1 DEF DeploymentsAreAffordable, Affordable, Act, ExecutionInv, PlansAreSound,
                    Executable
      <4>3. Act(q).type = "deploy" => Cost[Act(q).reserve] \in Int
        BY <4>2, ScenarioAssumption
      <4>4. budget' = IF Act(q).type = "deploy" THEN budget - Cost[Act(q).reserve] ELSE budget
        BY <3>3 DEF Apply
      <4>5. budget \in Int
        BY DEF ExecutionInv, TypeOK
      <4> QED
        BY <3>1, <4>2, <4>3, <4>4, <4>5 DEF Solvent
    <3> QED
      BY <3>2, <3>3
  <2>2. CASE UNCHANGED vars
    BY <2>2 DEF vars, store, locals, DeploymentsAreAffordable, Work, Solvent
  <2> QED
    BY <2>1, <2>2 DEF Next, StepOf, Finished
<1> QED
  BY <1>1, <1>2, ExecutionIsSafe, PTL DEF Spec

\* BooksBalance: with a sole driver the budget is what the deployed reserves have left of
\* it.  That is a property of the reserve pool, which the loop implements.
THEOREM SoleDriverBooksBalance ==
  ASSUME IsFiniteSet(Reserves), NEW q, Drivers = {q}
  PROVE  Spec => []BooksBalance
<1>1. Reserve!PoolInit => BooksBalance
  <2> SUFFICES ASSUME Reserve!PoolInit PROVE BooksBalance
    OBVIOUS
  <2>1. Deployed = {} /\ budget = Budget0
    BY DEF Reserve!PoolInit
  <2>2. Spend = 0
    BY <2>1, SpendGrows DEF Spend
  <2> QED
    BY <2>1, <2>2, ExecutionAssumption DEF BooksBalance
<1>2. ExecutionInv /\ BooksBalance /\ [Reserve!PoolNext]_<<budget, reserves, Deployed>>
        => BooksBalance'
  <2> SUFFICES ASSUME ExecutionInv, BooksBalance,
                      [Reserve!PoolNext]_<<budget, reserves, Deployed>>
               PROVE  BooksBalance'
    OBVIOUS
  <2>1. CASE Reserve!PoolNext
    <3>1. PICK r \in Reserves \ Foreign : Reserve!Deploy(r)
      BY <2>1 DEF Reserve!PoolNext
    <3>2. /\ r \in reserves /\ budget' = budget - Cost[r]
          /\ Deployed' = Deployed \cup {r}
      BY <3>1 DEF Reserve!Deploy
    <3>3. Deployed \in SUBSET Reserves /\ r \notin Deployed
      BY <3>2, DeployedAreGone DEF ExecutionInv, Deployed
    <3>4. SumFunctionOnSet(Cost, Deployed \cup {r}) = SumFunctionOnSet(Cost, Deployed) + Cost[r]
      BY <3>1, <3>3, SpendGrows
    <3>5. Spend' = Spend + Cost[r] /\ Spend \in Int
      BY <3>2, <3>3, <3>4, SpendGrows DEF Spend
    <3>6. Cost[r] \in Nat /\ budget \in Int
      BY ScenarioAssumption DEF ExecutionInv, TypeOK
    <3>7. budget' + Spend' = Budget0
      BY <3>2, <3>5, <3>6, ExecutionAssumption DEF BooksBalance
    <3> QED
      BY <3>7 DEF BooksBalance
  <2>2. CASE UNCHANGED <<budget, reserves, Deployed>>
    BY <2>2 DEF BooksBalance, Spend
  <2> QED
    BY <2>1, <2>2
<1> QED
  BY <1>1, <1>2, ExecutionIsSafe, SoleDriverImplementsReservePool, PTL
     DEF ImplementsReservePool, Reserve!PoolSpec

\* While it works on an action a sole driver's copy of the orders is current, and it is
\* read again whenever they change.
CopyIsCurrent == \A d \in Drivers : pc[d] \in {"next", "send", "apply"} => known[d] = orders

LEMMA CopyStep ==
  ASSUME ExecutionInv, CopyIsCurrent, NEW d \in Drivers, Drivers = {d}, StepOf(d)
  PROVE  CopyIsCurrent'
<1> DEFINE working == {"next", "send", "apply"}
<1>0. pc \in [Drivers -> ControlPoints] /\ DOMAIN known = Drivers
  BY DEF ExecutionInv, TypeOK
<1>1. CASE Judge(d) \/ Save(d) \/ Open(d) \/ Start(d) \/ Finish(d) \/ Abort(d) \/ Dies(d)
  <2>1. pc'[d] \notin working
    BY <1>0, <1>1 DEF Judge, Save, Open, Start, Finish, Abort, Dies, Step
  <2> QED
    BY <2>1 DEF CopyIsCurrent
<1>2. CASE Snapshot(d) \/ Refresh(d)
  <2>1. known'[d] = orders /\ orders' = orders
    BY <1>0, <1>2 DEF Snapshot, Refresh, store
  <2> QED
    BY <2>1 DEF CopyIsCurrent
<1>3. CASE SkipRejected(d) \/ Plan(d) \/ SendAccepted(d) \/ SendFails(d)
  <2>1. pc[d] \in working /\ known' = known /\ orders' = orders
    BY <1>3 DEF SkipRejected, Plan, AtAction, SendAccepted, SendFails, Step, store
  <2> QED
    BY <2>1 DEF CopyIsCurrent
<1>4. CASE Apply(d)
  <2> DEFINE a == Act(d)
             changed == IF a.type \in {"hold", "priority"} THEN {} ELSE Effective(d, a)
             new == {o \in OrdersOf(a) : a.type = "priority" \/ o.entity \in changed}
  <2>1. /\ pc[d] = "apply" /\ pc'[d] = IF new = {} THEN "next" ELSE "refresh"
        /\ orders' = Upsert(orders, new) /\ known' = known
    BY <1>0, <1>4 DEF Apply, Step
  <2>2. new = {} => orders' = orders
    <3> HIDE DEF new
    <3> QED
      BY <2>1 DEF Upsert
  <2> HIDE DEF new
  <2> QED
    BY <2>1, <2>2 DEF CopyIsCurrent
<1> QED
  BY <1>1, <1>2, <1>3, <1>4 DEF StepOf, Works

\* DuplicatesAreCurrent: a sole driver compares an action with the orders that are active.
THEOREM SoleDriverComparesCurrentOrders ==
  ASSUME NEW q, Drivers = {q}
  PROVE  Spec => []DuplicatesAreCurrent
<1>1. Init => CopyIsCurrent
  BY DEF Init, CopyIsCurrent
<1>2. ExecutionInv /\ CopyIsCurrent /\ [Next]_vars => CopyIsCurrent'
  <2> SUFFICES ASSUME ExecutionInv, CopyIsCurrent, [Next]_vars
               PROVE  CopyIsCurrent'
    OBVIOUS
  <2>1. CASE StepOf(q)
    BY <2>1, CopyStep
  <2>2. CASE UNCHANGED vars
    BY <2>2 DEF vars, store, locals, CopyIsCurrent
  <2> QED
    BY <2>1, <2>2 DEF Next, StepOf, Finished
<1>3. CopyIsCurrent => DuplicatesAreCurrent
  BY DEF CopyIsCurrent, DuplicatesAreCurrent, AtAction
<1> QED
  BY <1>1, <1>2, <1>3, ExecutionIsSafe, PTL DEF Spec

\* While a sole driver executes an action its plan is built from the groups as they are,
\* and the simulator has every group whose command it has accepted where the plan has it.
Obedient(d) ==
  pc[d] \in {"send", "apply"} =>
    /\ rows[d] = groups
    /\ outcome[d] \in {"succeeded", "partially_succeeded", "no_change"}
    /\ (pc[d] = "apply" /\ outcome[d] = "succeeded") => sent[d] = Len(Targets(Act(d)))
    /\ (outcome[d] # "no_change" /\ Act(d).type # "posture") =>
         \A u \in Sent(d) : sim[u] = Planned(Act(d), rows[d][u]).place

\* The targets of the action at hand.
LEMMA ActTargets ==
  ASSUME ExecutionInv, NEW d \in Drivers, pc[d] \in {"send", "apply"}
  PROVE  /\ Targets(Act(d)) \in Seq(ToSet(Targets(Act(d))))
         /\ sent[d] \in Nat /\ sent[d] <= Len(Targets(Act(d)))
         /\ pc[d] = "send" => sent[d] < Len(Targets(Act(d))) /\ outcome[d] = "succeeded"
<1>1. Executable(Act(d), Present(rows[d]))
  BY DEF ExecutionInv, PlansAreSound
<1>2. Targets(Act(d)) \in Seq(ToSet(Targets(Act(d))))
  BY <1>1, TargetsAreASequence
<1> QED
  BY <1>2 DEF ExecutionInv, PlansAreSound, TypeOK

\* Where the simulator has the groups after it has obeyed one more command.
LEMMA ObeyedAgrees ==
  ASSUME ExecutionInv, NEW d \in Drivers, Obedient(d), pc[d] = "send", Obeyed(d),
         Act(d).type # "posture"
  PROVE  \A i \in 1..(sent[d] + 1) :
           sim'[Targets(Act(d))[i]] = Planned(Act(d), rows[d][Targets(Act(d))[i]]).place
<1> DEFINE target(i) == Targets(Act(d))[i]
           u == target(sent[d] + 1)
<1>1. u \in Units
  BY CommandsTargetUnits
<1>2. sim' = [sim EXCEPT ![u] = Planned(Act(d), rows[d][u]).place]
  BY DEF Obeyed
<1>3. sim \in [Units -> Places \cup {None}] /\ sent[d] \in Nat
  BY DEF ExecutionInv, TypeOK
<1>4. \A i \in 1..sent[d] : sim[target(i)] = Planned(Act(d), rows[d][target(i)]).place
  BY ActTargets DEF Obedient, Sent
<1> SUFFICES ASSUME NEW i \in 1..(sent[d] + 1)
             PROVE  sim'[target(i)] = Planned(Act(d), rows[d][target(i)]).place
  OBVIOUS
<1>5. i \in 1..sent[d] \/ i = sent[d] + 1
  BY <1>3
<1>6. ASSUME target(i) = u PROVE sim'[target(i)] = Planned(Act(d), rows[d][target(i)]).place
  <2> HIDE DEF u
  <2> QED
    BY <1>1, <1>2, <1>3, <1>6
<1>7. ASSUME target(i) # u, target(i) \in Units
      PROVE  sim'[target(i)] = Planned(Act(d), rows[d][target(i)]).place
  <2>1. sim'[target(i)] = sim[target(i)]
    BY <1>2, <1>3, <1>7
  <2>2. i \in 1..sent[d]
    BY <1>5, <1>7
  <2> QED
    BY <1>4, <2>1, <2>2
<1>8. target(i) \in Units
  <2>1. /\ rows[d] \in [Units -> Rows \cup {None}] /\ Executable(Act(d), Present(rows[d]))
    BY DEF ExecutionInv, PlansAreSound
  <2>2. target(i) \in ToSet(Targets(Act(d)))
    <3>1. /\ Targets(Act(d)) \in Seq(ToSet(Targets(Act(d))))
          /\ sent[d] < Len(Targets(Act(d)))
      BY ActTargets
    <3>2. i \in 1..Len(Targets(Act(d)))
      <4> HIDE DEF target
      <4>1. Len(Targets(Act(d))) \in Nat
        BY <3>1
      <4> QED
        BY <1>3, <3>1, <4>1
    <3> QED
      BY <3>1, <3>2
  <2> QED
    BY <2>1, <2>2, PlannedIsARow
<1> QED
  BY <1>6, <1>7, <1>8

LEMMA ObedientStep ==
  ASSUME ExecutionInv, NEW d \in Drivers, Obedient(d), StepOf(d)
  PROVE  Obedient(d)'
<1>0. /\ pc \in [Drivers -> ControlPoints] /\ at \in [Drivers -> Nat]
      /\ sent \in [Drivers -> Nat] /\ outcome \in [Drivers -> Outcomes \cup {None}]
      /\ DOMAIN rows = Drivers
  BY DEF ExecutionInv, TypeOK
<1>1. Executing(d) => Work(d)' = Work(d)
  BY StepsKeepWork DEF ExecutionInv
<1>2. CASE ~Plan(d) /\ ~SendAccepted(d) /\ ~SendFails(d)
  <2>1. pc'[d] \notin {"send", "apply"}
    <3>1. CASE Judge(d) \/ Save(d) \/ Open(d) \/ Start(d) \/ Snapshot(d)
      BY <1>0, <3>1 DEF Judge, Save, Open, Start, Snapshot, Step
    <3>2. CASE SkipRejected(d) \/ Apply(d) \/ Refresh(d) \/ Finish(d)
      BY <1>0, <3>2 DEF SkipRejected, AtAction, Apply, Refresh, Finish, Step
    <3>3. CASE Abort(d) \/ Dies(d)
      BY <1>0, <3>3 DEF Abort, Dies
    <3> QED
      BY <1>2, <3>1, <3>2, <3>3 DEF StepOf, Works
  <2> QED
    BY <2>1 DEF Obedient
<1>3. CASE Plan(d)
  <2> DEFINE skips == Duplicate(Act(d), known[d]) \/ Act(d).type = "hold"
  <2>1. /\ rows'[d] = groups /\ groups' = groups /\ sent'[d] = 0 /\ at' = at
        /\ pc'[d] = IF skips \/ Targets(Act(d)) = <<>> THEN "apply" ELSE "send"
        /\ outcome'[d] = IF skips THEN "no_change" ELSE "succeeded"
        /\ pc[d] = "next"
    BY <1>0, <1>3 DEF Plan, AtAction, Step, store
  <2> HIDE DEF skips
  <2>2. Act(d)' = Act(d)
    BY <1>1, <2>1 DEF Act, Executing
  <2>3. Sent(d)' = {}
    BY <2>1 DEF Sent
  <2>4. (pc'[d] = "apply" /\ outcome'[d] = "succeeded") => sent'[d] = Len(Targets(Act(d)))
    BY <2>1
  <2> QED
    BY <2>1, <2>2, <2>3, <2>4 DEF Obedient
<1>4. CASE SendAccepted(d)
  <2>1. /\ rows' = rows /\ groups' = groups /\ sent'[d] = sent[d] + 1 /\ at' = at
        /\ outcome' = outcome /\ pc[d] = "send" /\ Obeyed(d)
        /\ pc'[d] = IF sent[d] + 1 = Len(Targets(Act(d))) THEN "apply" ELSE "send"
    BY <1>0, <1>4 DEF SendAccepted, store
  <2>2. Act(d)' = Act(d)
    BY <1>1, <2>1 DEF Act, Executing
  <2>3. Act(d).type # "posture" =>
          \A u \in Sent(d)' : sim'[u] = Planned(Act(d), rows[d][u]).place
    BY <2>1, <2>2, ObeyedAgrees DEF Sent
  <2> QED
    BY <2>1, <2>2, <2>3, ActTargets DEF Obedient
<1>5. CASE SendFails(d)
  <2>1. /\ rows' = rows /\ groups' = groups /\ sent' = sent /\ pc[d] = "send"
        /\ sim' = sim \/ Obeyed(d)
        /\ \/ pc'[d] = "next"
           \/ pc'[d] = "apply" /\ outcome'[d] = "partially_succeeded" /\ at' = at
    BY <1>0, <1>5 DEF SendFails, store
  <2>2. CASE pc'[d] = "next"
    BY <2>2 DEF Obedient
  <2>3. CASE pc'[d] = "apply" /\ outcome'[d] = "partially_succeeded" /\ at' = at
    <3>1. Act(d)' = Act(d) /\ Sent(d)' = Sent(d)
      BY <1>1, <2>1, <2>3 DEF Act, Executing, Sent
    <3>2. Act(d).type # "posture" =>
            \A u \in Sent(d) : sim'[u] = Planned(Act(d), rows[d][u]).place
      <4>1. CASE sim' = sim
        BY <2>1, <4>1, ActTargets DEF Obedient
      <4>2. CASE Obeyed(d)
        BY <2>1, <4>2, ObeyedAgrees, ActTargets DEF Sent
      <4> QED
        BY <2>1, <4>1, <4>2
    <3> QED
      BY <2>1, <2>3, <3>1, <3>2 DEF Obedient
  <2> QED
    BY <2>1, <2>2, <2>3
<1> QED
  BY <1>2, <1>3, <1>4, <1>5

\* A step that moves a group in the store has its command obeyed, or skips it.
LEMMA MovesAreCommanded ==
  ASSUME ExecutionInv, NEW d \in Drivers, Obedient(d), StepOf(d),
         NEW u \in Units, PlaceIn(groups'[u]) # PlaceIn(groups[u])
  PROVE  sim[u] = PlaceIn(groups'[u]) \/ (pc[d] = "apply" /\ outcome[d] = "no_change")
<1>1. ~Apply(d) => groups' = groups
  BY DEF StepOf, Works, Judge, Save, Open, Start, Snapshot, SkipRejected, Plan,
         SendAccepted, SendFails, Refresh, Finish, Abort, Dies, store, vars
<1>2. Apply(d)
  BY <1>1
<1> DEFINE a == Act(d)
           changed == IF a.type \in {"hold", "priority"} THEN {} ELSE Effective(d, a)
<1>3. pc[d] = "apply" /\ groups'[u] = IF u \in changed THEN Planned(a, rows[d][u]) ELSE groups[u]
  BY <1>2 DEF Apply, Step
<1>4. u \in changed
  <2> HIDE DEF changed
  <2> QED
    BY <1>3
<1>5. u \in Effective(d, a) /\ a.type \notin {"hold", "priority"}
  BY <1>4
<1>6. /\ u \in ToSet(Targets(a)) /\ Planned(a, rows[d][u]) \in Rows
      /\ a.type = "deploy" \/ rows[d][u] # None
  BY <1>3, <1>5, UpdatesChangeTargets
<1>7. PlaceIn(groups'[u]) = Planned(a, rows[d][u]).place
  <2> HIDE DEF changed, a
  <2> QED
    BY <1>3, <1>4, <1>6, ExecutionAssumption DEF PlaceIn
<1>8. a.type # "posture"
  <2>1. SUFFICES ASSUME a.type = "posture" PROVE FALSE
    OBVIOUS
  <2>2. Planned(a, rows[d][u]).place = rows[d][u].place
    BY <2>1, PlannedTable DEF Row
  <2>3. rows[d][u] = groups[u] /\ rows[d][u] # None
    BY <1>3, <1>6, <2>1 DEF Obedient
  <2> QED
    BY <1>7, <2>2, <2>3 DEF PlaceIn
<1>9. outcome[d] # "no_change" => u \in Sent(d)
  <2>1. CASE outcome[d] = "partially_succeeded"
    BY <1>5, <2>1 DEF Effective
  <2>2. CASE outcome[d] = "succeeded"
    <3>1. sent[d] = Len(Targets(a))
      BY <1>3, <2>2 DEF Obedient
    <3>2. Targets(a) \in Seq(ToSet(Targets(a)))
      BY <1>3, ActTargets
    <3> QED
      BY <1>6, <3>1, <3>2 DEF Sent, ToSet
  <2> QED
    BY <1>3, <2>1, <2>2 DEF Obedient
<1> QED
  BY <1>3, <1>7, <1>8, <1>9 DEF Obedient

\* OnlySkipsMoveUncommanded: a sole driver moves no group in the store that the simulator
\* was not told to move, but when it skips the command as a duplicate.
THEOREM SoleDriverMovesOnlyCommanded ==
  ASSUME NEW q, Drivers = {q}
  PROVE  Spec => OnlySkipsMoveUncommanded
<1> DEFINE Told == \A u \in Units : PlaceIn(groups'[u]) # PlaceIn(groups[u]) =>
                     \/ sim[u] = PlaceIn(groups'[u])
                     \/ \E d \in Drivers : pc[d] = "apply" /\ outcome[d] = "no_change"
<1>1. Init => Obedient(q)
  BY DEF Init, Obedient
<1>2. ExecutionInv /\ Obedient(q) /\ [Next]_vars => Obedient(q)' /\ [Told]_vars
  <2> SUFFICES ASSUME ExecutionInv, Obedient(q), [Next]_vars
               PROVE  Obedient(q)' /\ [Told]_vars
    OBVIOUS
  <2>1. CASE StepOf(q)
    <3>1. Obedient(q)'
      BY <2>1, ObedientStep
    <3>2. Told
      BY <2>1, MovesAreCommanded
    <3> QED
      BY <3>1, <3>2
  <2>2. CASE UNCHANGED vars
    BY <2>2, ZenonT(40) DEF vars, store, locals, Obedient, Act, Work, Sent
  <2> QED
    BY <2>1, <2>2 DEF Next, StepOf, Finished
<1> QED
  BY <1>1, <1>2, ExecutionIsSafe, PTL DEF Spec, OnlySkipsMoveUncommanded

\* A step keeps the two tables together if the plan was built from what is still there.
LEMMA PlacesStep ==
  ASSUME ExecutionInv, NEW d \in Drivers, Obedient(d), PlacesAgree, StepOf(d)
  PROVE  PlacesAgree'
<1>1. CASE ~Apply(d)
  <2>1. groups' = groups /\ world' = world
    BY <1>1 DEF StepOf, Works, Judge, Save, Open, Start, Snapshot, SkipRejected, Plan,
           SendAccepted, SendFails, Refresh, Finish, Abort, Dies, store, vars
  <2> QED
    BY <2>1 DEF PlacesAgree
<1>2. CASE Apply(d)
  <2> DEFINE a == Act(d)
             changed == IF a.type \in {"hold", "priority"} THEN {} ELSE Effective(d, a)
  <2> SUFFICES ASSUME NEW u \in Units, groups'[u] # None
               PROVE  world'[u] = groups'[u].place
    BY DEF PlacesAgree
  <2>1. /\ pc[d] = "apply" /\ rows[d] = groups
        /\ groups'[u] = IF u \in changed THEN Planned(a, rows[d][u]) ELSE groups[u]
        /\ world'[u] = IF u \in changed /\ a.type # "posture"
                       THEN Planned(a, rows[d][u]).place ELSE world[u]
    BY <1>2 DEF Apply, Step, Obedient
  <2>2. u \in changed => a.type = "deploy" \/ rows[d][u] # None
    BY <2>1, UpdatesChangeTargets
  <2> HIDE DEF changed
  <2>3. CASE u \in changed /\ a.type = "posture"
    <3>1. Planned(a, rows[d][u]).place = rows[d][u].place
      BY <2>3, PlannedTable DEF Row
    <3> QED
      BY <2>1, <2>2, <2>3, <3>1 DEF PlacesAgree
  <2>4. CASE u \in changed /\ a.type # "posture"
    BY <2>1, <2>4
  <2>5. CASE u \notin changed
    BY <2>1, <2>5 DEF PlacesAgree
  <2> QED
    BY <2>3, <2>4, <2>5
<1> QED
  BY <1>1, <1>2

\* PlacesAgree: a sole driver keeps active_groups and world_groups together.
THEOREM SoleDriverKeepsPlacesTogether ==
  ASSUME NEW q, Drivers = {q}
  PROVE  Spec => []PlacesAgree
<1>1. Init => Obedient(q) /\ PlacesAgree
  BY ExecutionAssumption DEF Init, Obedient, PlacesAgree, Row
<1>2. ExecutionInv /\ Obedient(q) /\ PlacesAgree /\ [Next]_vars => Obedient(q)' /\ PlacesAgree'
  <2> SUFFICES ASSUME ExecutionInv, Obedient(q), PlacesAgree, [Next]_vars
               PROVE  Obedient(q)' /\ PlacesAgree'
    OBVIOUS
  <2>1. CASE StepOf(q)
    BY <2>1, ObedientStep, PlacesStep
  <2>2. CASE UNCHANGED vars
    <3>1. Obedient(q)'
      BY <2>2, ZenonT(40) DEF vars, store, locals, Obedient, Act, Work, Sent
    <3>2. PlacesAgree'
      BY <2>2 DEF vars, store, PlacesAgree
    <3> QED
      BY <3>1, <3>2
  <2> QED
    BY <2>1, <2>2 DEF Next, StepOf, Finished
<1> QED
  BY <1>1, <1>2, ExecutionIsSafe, PTL DEF Spec

\* The verdict a sole driver has just saved is in no row of the log, and no two
\* rows have the same verdict.
LogIsInjective ==
  /\ ExecutedOnce
  /\ \A d \in Drivers : pc[d] = "saved" =>
       \A i \in DOMAIN log : log[i].verdict # Len(verdicts)

\* A step keeps the log injective if there is no other driver.
LEMMA LogStep ==
  ASSUME ExecutionInv, LogIsInjective, NEW d \in Drivers, Drivers = {d}, StepOf(d)
  PROVE  LogIsInjective'
<1>0. /\ pc \in [Drivers -> ControlPoints]
      /\ log \in Seq(LogRows) /\ verdicts \in Seq(Verdicts)
      /\ \A i \in DOMAIN log : log[i].verdict \in DOMAIN verdicts
  BY DEF ExecutionInv, TypeOK
<1>1. CASE Save(d)
  <2>1. /\ log' = log /\ draft[d] \in Verdicts
        /\ verdicts' = Append(verdicts, draft[d])
    BY <1>1 DEF Save, Step, ExecutionInv, TypeOK
  <2>2. Len(verdicts') = Len(verdicts) + 1
    BY <1>0, <2>1
  <2>3. \A i \in DOMAIN log : log[i].verdict # Len(verdicts')
    BY <1>0, <2>2
  <2> QED
    BY <2>1, <2>3 DEF LogIsInjective, ExecutedOnce
<1>2. CASE Open(d)
  <2> DEFINE row == [verdict |-> Len(verdicts), state |-> "pending", status |-> "no_change"]
  <2>1. /\ log' = Append(log, row) /\ pc[d] = "saved" /\ pc'[d] = "pending"
    BY <1>0, <1>2 DEF Open, Step
  <2>2. \A i \in DOMAIN log : log[i].verdict # row.verdict
    BY <2>1 DEF LogIsInjective
  <2>3. /\ \A i \in DOMAIN log : log'[i] = log[i]
        /\ log'[Len(log) + 1] = row
        /\ \A i \in DOMAIN log' : i \in DOMAIN log \/ i = Len(log) + 1
    BY <1>0, <2>1
  <2> HIDE DEF row
  <2>4. ExecutedOnce'
    BY <2>2, <2>3 DEF LogIsInjective, ExecutedOnce
  <2> QED
    BY <2>1, <2>4 DEF LogIsInjective
<1>3. CASE ~Save(d) /\ ~Open(d)
  <2>1. verdicts' = verdicts
    BY <1>3 DEF StepOf, Works, Judge, Start, Snapshot, SkipRejected, Plan,
           SendAccepted, SendFails, Apply, Refresh, Finish, Abort, Dies, vars
  <2>2. pc'[d] # "saved"
    <3>1. (~Judge(d) /\ ~Abort(d) /\ ~Dies(d) /\ ~Works(d)) \/ pc'[d] # "saved"
      <4>1. Judge(d) \/ Abort(d) \/ Dies(d) => pc'[d] # "saved"
        BY <1>0 DEF Judge, Abort, Dies, Step
      <4>2. Start(d) \/ Snapshot(d) \/ SkipRejected(d) \/ Plan(d) => pc'[d] # "saved"
        BY <1>0 DEF Start, Snapshot, SkipRejected, Plan, AtAction, Step
      <4>3. SendAccepted(d) \/ SendFails(d) => pc'[d] # "saved"
        BY <1>0 DEF SendAccepted, SendFails
      <4>4. Apply(d) \/ Refresh(d) \/ Finish(d) => pc'[d] # "saved"
        BY <1>0 DEF Apply, Refresh, Finish, Step
      <4> QED
        BY <1>3, <4>1, <4>2, <4>3, <4>4 DEF Works
    <3> QED
      BY <3>1 DEF StepOf
  <2>3. DOMAIN log' = DOMAIN log /\ \A i \in DOMAIN log : log'[i].verdict = log[i].verdict
    <3>1. ASSUME NEW r \in LogRows, log' = Append(log, r) PROVE FALSE
      BY <1>3, <3>1, StepsThatAppend DEF ExecutionInv
    <3>2. ASSUME NEW e \in Drivers, NEW s \in LifecycleStates, NEW t \in Outcomes,
                 mine[e] \in DOMAIN log, Settle(e, s, t)
          PROVE  DOMAIN log' = DOMAIN log /\ \A i \in DOMAIN log : log'[i].verdict = log[i].verdict
      <4>1. \A i \in DOMAIN log : log[i] \in LogRows
        BY <1>0
      <4> QED
        BY <3>2, <4>1 DEF Settle, LogRows
    <3> QED
      BY <3>1, <3>2, StepsAppendOrSettle DEF ExecutionInv
  <2> QED
    BY <2>1, <2>2, <2>3 DEF LogIsInjective, ExecutedOnce
<1> QED
  BY <1>1, <1>2, <1>3

\* A sole driver executes no verdict twice, however often it is killed.
THEOREM SoleDriverExecutesOnce ==
  ASSUME NEW q, Drivers = {q}
  PROVE  Spec => []ExecutedOnce
<1>1. Init => LogIsInjective
  BY DEF Init, LogIsInjective, ExecutedOnce
<1>2. ExecutionInv /\ LogIsInjective /\ [Next]_vars => LogIsInjective'
  <2> SUFFICES ASSUME ExecutionInv, LogIsInjective, [Next]_vars
               PROVE  LogIsInjective'
    OBVIOUS
  <2>1. CASE StepOf(q)
    BY <2>1, LogStep
  <2>2. CASE UNCHANGED vars
    BY <2>2 DEF vars, LogIsInjective, ExecutedOnce
  <2> QED
    BY <2>1, <2>2 DEF Next, StepOf, Finished
<1>3. LogIsInjective => ExecutedOnce
  BY DEF LogIsInjective
<1> QED
  BY <1>1, <1>2, <1>3, ExecutionIsSafe, PTL DEF Spec
===============================================================================
