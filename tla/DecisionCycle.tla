----------------------------- MODULE DecisionCycle -----------------------------
(***************************************************************************)
(* From an observation to the row of a decision cycle: each coalition in     *)
(* turn has its model asked (retries, then the fallback backend), the answer *)
(* judged and recorded, and, by a live loop, executed; then the cycle is     *)
(* saved.  A driver reads the routing of the run, which names the backends,  *)
(* once, when its process is launched.                                       *)
(*                                                                         *)
(* Every access to the database is a connection of its own and every request *)
(* to a backend takes time, so each is a step.  Nothing keeps a second       *)
(* driver, live or dry, off the run or off a cycle number, and an operator may *)
(* have a batch of actions judged at any time.                               *)
(***************************************************************************)
EXTENDS Integers, Sequences, FiniteSets

CONSTANTS
  Drivers,    \* processes that drive the run
  Live,       \* those of them that execute what was decided
  Backends,   \* configured model backends
  Retries,    \* max_retries of a backend
  Replies,    \* what a request to a backend may come to, by backend
  Routings,   \* what the run's routing may be when a driver is launched
  Starts,     \* the cycle numbers a loop may be told to start with
  MaxCycle,   \* bound on the number of a cycle
  MaxBegun,   \* bound on the cycles that are begun
  MaxDeaths,  \* bound on the drivers that die
  MaxJudged,  \* an operator submits actions only while there are fewer verdicts
  None

Sides == {"red", "blue"}

\* The reply holds an action batch; text that is none; nothing (an HTTP error, a
\* timeout, a body without a message); a JSON body that is not an object.
ReplyKinds == {"good", "bad", "silent", "alien"}

Routes == [Sides -> [primary : Backends, fallback : Backends \cup {None}]]
Cycles == 1..MaxCycle

\* The rows of decision_cycles.
CycleRows ==
  [cited : [Sides -> Nat], done : [Sides -> Nat], live : BOOLEAN,
   class : {"both_succeeded", "one_succeeded_one_failed", "both_failed"}]

ASSUME DecisionAssumption ==
  /\ Live \subseteq Drivers
  /\ Retries \in [Backends -> Nat]
  /\ Replies \in [Backends -> SUBSET ReplyKinds]
  /\ Routings \subseteq Routes
  /\ Starts \subseteq Cycles
  /\ MaxCycle \in Nat /\ MaxBegun \in Nat /\ MaxDeaths \in Nat /\ MaxJudged \in Nat
  /\ None \notin Backends \cup Routes \cup CycleRows

VARIABLES
  \* the store
  verdicts,    \* action_validation_batches: the coalition each is about
  invocations, \* model_invocations
  executions,  \* execution_batches
  cycles,      \* decision_cycles, by number
  \* locals
  pc,          \* what a driver does next
  route,       \* its registry's routing
  cycle,       \* the number of its cycle
  side,        \* the coalition whose turn it is
  call,        \* how far it has got with the chain of backends
  heard,       \* the replies it had this turn (history)
  verdict,     \* the verdict it saved this turn
  picked,      \* the verdict it is about to execute
  cited,       \* the invocations its cycle will cite
  done,        \* the executions its cycle will cite
  \* counters
  begun, deaths

store  == <<verdicts, invocations, executions, cycles>>
locals == <<route, cycle, side, call, heard, verdict, picked, cited, done>>
counts == <<begun, deaths>>
vars   == <<store, pc, locals, counts>>

\* Nothing asked yet.
Fresh == [link |-> 1, attempt |-> 1, raw |-> FALSE, trace |-> <<>>]
Nobody == [s \in Sides |-> 0]

Init ==
  /\ verdicts = <<>>
  /\ invocations = <<>>
  /\ executions = <<>>
  /\ cycles = [c \in Cycles |-> None]
  /\ pc = [d \in Drivers |-> "off"]
  /\ route = [d \in Drivers |-> None]
  /\ cycle = [d \in Drivers |-> 1]
  /\ side = [d \in Drivers |-> "red"]
  /\ call = [d \in Drivers |-> Fresh]
  /\ heard = [d \in Drivers |-> <<>>]
  /\ verdict = [d \in Drivers |-> 0]
  /\ picked = [d \in Drivers |-> 0]
  /\ cited = [d \in Drivers |-> Nobody]
  /\ done = [d \in Drivers |-> Nobody]
  /\ begun = 0
  /\ deaths = 0

-------------------------------------------------------------------------------
(* A driver, between cycles. *)

Executing == {"fetch", "create", "start", "walk"}
InCycle == {"ask", "judge", "note", "fetch", "create", "start", "walk", "close"}

Step(d, from, to) == pc[d] = from /\ pc' = [pc EXCEPT ![d] = to]

\* The memory of a process goes with it.
Forget(d) ==
  /\ pc' = [pc EXCEPT ![d] = "off"]
  /\ route' = [route EXCEPT ![d] = None]
  /\ cycle' = [cycle EXCEPT ![d] = 1]
  /\ side' = [side EXCEPT ![d] = "red"]
  /\ call' = [call EXCEPT ![d] = Fresh]
  /\ heard' = [heard EXCEPT ![d] = <<>>]
  /\ verdict' = [verdict EXCEPT ![d] = 0]
  /\ picked' = [picked EXCEPT ![d] = 0]
  /\ cited' = [cited EXCEPT ![d] = Nobody]
  /\ done' = [done EXCEPT ![d] = Nobody]

\* The registry is built from the routing as the run has it now; the gate of the
\* run's status, here and between cycles, is in module RunLifecycle.
Launch(d) ==
  /\ Step(d, "off", "top")
  /\ \E r \in Routings : route' = [route EXCEPT ![d] = r]
  /\ \E c \in Starts : cycle' = [cycle EXCEPT ![d] = c]
  /\ UNCHANGED <<store, side, call, heard, verdict, picked, cited, done, counts>>

MutTurnKeepsTheLink(d, s) ==
  /\ side' = [side EXCEPT ![d] = s]
  /\ call' = [call EXCEPT ![d] = [Fresh EXCEPT !.link = call[d].link]]
  /\ heard' = [heard EXCEPT ![d] = <<>>]
  /\ verdict' = [verdict EXCEPT ![d] = 0]

\* The turn of coalition s begins with the first backend of its chain.
Turn(d, s) ==
  /\ side' = [side EXCEPT ![d] = s]
  /\ call' = [call EXCEPT ![d] = Fresh]
  /\ heard' = [heard EXCEPT ![d] = <<>>]
  /\ verdict' = [verdict EXCEPT ![d] = 0]

\* Ingest and the pair of observations (module FogOfWar), then red's turn.
Begin(d) ==
  /\ begun < MaxBegun
  /\ cycle[d] \in Cycles
  /\ Step(d, "top", "ask")
  /\ begun' = begun + 1
  /\ UNCHANGED <<store, locals, deaths>>

\* The requested cycles are done, or the run is no longer running.
Leave(d) ==
  /\ pc[d] = "top"
  /\ Forget(d)
  /\ UNCHANGED <<store, counts>>

-------------------------------------------------------------------------------
(* Asking the chain of backends. *)

\* resolve_backend_chain
Chain(r, s) ==
  IF r[s].fallback \in {None, r[s].primary}
  THEN <<r[s].primary>>
  ELSE <<r[s].primary, r[s].fallback>>

Asked(d)     == Chain(route[d], side[d])[call[d].link]
Exhausted(d) == call[d].attempt > Retries[Asked(d)]

LastLink(d) == call[d].link = Len(Chain(route[d], side[d]))

Hears(d, r) ==
  /\ r \in Replies[Asked(d)]
  /\ heard' = [heard EXCEPT ![d] = Append(@, [backend |-> Asked(d), reply |-> r])]
  /\ UNCHANGED <<store, counts, route, cycle, side, verdict, picked, cited, done>>

\* The raw response of an earlier attempt is kept: it decides what kind of failure
\* is recorded.
Raw(d, r) == call[d].raw \/ r = "bad"

Ended(d, status) == [backend |-> Asked(d), status |-> status, attempts |-> call[d].attempt]

FailureStatus(raw) == IF raw THEN "parse_failed" ELSE "transport_failed"

Answered(d) ==
  /\ pc[d] = "ask"
  /\ Hears(d, "good")
  /\ pc' = [pc EXCEPT ![d] = "judge"]
  /\ call' = [call EXCEPT ![d].trace = Append(@, Ended(d, "succeeded"))]

Retry(d, r) ==
  /\ pc[d] = "ask"
  /\ ~Exhausted(d)
  /\ Hears(d, r)
  /\ call' = [call EXCEPT ![d].attempt = @ + 1, ![d].raw = Raw(d, r)]
  /\ UNCHANGED pc

Traced(d, r) == Append(call[d].trace, Ended(d, FailureStatus(Raw(d, r))))

MutFailOverKeepsRaw(d, r) ==
  /\ pc[d] = "ask"
  /\ Exhausted(d) /\ ~LastLink(d)
  /\ Hears(d, r)
  /\ call' = [call EXCEPT ![d] = [link |-> @.link + 1, attempt |-> 1, raw |-> Raw(d, r),
                                 trace |-> Traced(d, r)]]
  /\ UNCHANGED pc

\* The backend's attempts are exhausted: the next one is asked from scratch ...
FailOver(d, r) ==
  /\ pc[d] = "ask"
  /\ Exhausted(d) /\ ~LastLink(d)
  /\ Hears(d, r)
  /\ call' = [call EXCEPT ![d] = [Fresh EXCEPT !.link = call[d].link + 1, !.trace = Traced(d, r)]]
  /\ UNCHANGED pc

MutGiveUpSkips(d, r) ==
  /\ pc[d] = "ask"
  /\ Exhausted(d) /\ LastLink(d)
  /\ Hears(d, r)
  /\ pc' = [pc EXCEPT ![d] = "top"]
  /\ call' = [call EXCEPT ![d].trace = Traced(d, r)]

\* ... or there is none, and the failure itself is the result.
GiveUp(d, r) ==
  /\ pc[d] = "ask"
  /\ Exhausted(d) /\ LastLink(d)
  /\ Hears(d, r)
  /\ pc' = [pc EXCEPT ![d] = "note"]
  /\ call' = [call EXCEPT ![d].trace = Traced(d, r)]

\* _extract_message_content raises AttributeError on a body that is not an object;
\* invoke does not catch it, and the cycle, the loop and the process end.
AlienReply(d) ==
  /\ deaths < MaxDeaths
  /\ pc[d] = "ask" /\ "alien" \in Replies[Asked(d)]
  /\ Forget(d)
  /\ deaths' = deaths + 1
  /\ UNCHANGED <<store, begun>>

Ask(d) ==
  \/ Answered(d)
  \/ \E r \in {"bad", "silent"} : Retry(d, r) \/ FailOver(d, r) \/ GiveUp(d, r)

-------------------------------------------------------------------------------
(* Judging, recording and executing the answer. *)

\* validate_payload computes a verdict (module ActionValidator) and saves it.
Judge(d) ==
  /\ Step(d, "judge", "note")
  /\ verdicts' = Append(verdicts, side[d])
  /\ verdict' = [verdict EXCEPT ![d] = Len(verdicts) + 1]
  /\ UNCHANGED <<invocations, executions, cycles, counts,
                 route, cycle, side, call, heard, picked, cited, done>>

Result(d) == call[d].trace[Len(call[d].trace)]

Invocation(d) ==
  [side |-> side[d], cycle |-> cycle[d], backend |-> Result(d).backend,
   status |-> Result(d).status, attempts |-> Result(d).attempts,
   failover |-> call[d].link > 1, trace |-> call[d].trace,
   verdict |-> verdict[d], heard |-> heard[d], route |-> route[d]]

\* What comes after a coalition's turn.
NextTurn(d) ==
  IF side[d] = "red"
  THEN pc' = [pc EXCEPT ![d] = "ask"] /\ Turn(d, "blue")
  ELSE pc' = [pc EXCEPT ![d] = "close"] /\ UNCHANGED <<side, call, heard, verdict>>

\* save_model_invocation_result
Note(d) ==
  /\ pc[d] = "note"
  /\ invocations' = Append(invocations, Invocation(d))
  /\ cited' = [cited EXCEPT ![d][side[d]] = Len(invocations) + 1]
  /\ IF d \in Live /\ verdict[d] # 0
     THEN pc' = [pc EXCEPT ![d] = "fetch"] /\ UNCHANGED <<side, call, heard, verdict>>
     ELSE NextTurn(d)
  /\ UNCHANGED <<verdicts, executions, cycles, counts, route, cycle, picked, done>>

\* get_latest_action_validation_batch, whoever saved it.
About(s) == {v \in DOMAIN verdicts : verdicts[v] = s}

MutLatestIsTheFirst(s) == CHOOSE v \in About(s) : \A w \in About(s) : v <= w

Latest(s) == CHOOSE v \in About(s) : \A w \in About(s) : w <= v

Fetch(d) ==
  /\ Step(d, "fetch", "create")
  /\ picked' = [picked EXCEPT ![d] = Latest(side[d])]
  /\ UNCHANGED <<store, counts, route, cycle, side, call, heard, verdict, cited, done>>

\* create_execution_batch: a row with the status no_change, which counts as a success.
Open(d) ==
  /\ Step(d, "create", "start")
  /\ executions' = Append(executions,
       [invocation |-> cited[d][side[d]], verdict |-> picked[d],
        state |-> "pending", ok |-> TRUE])
  /\ done' = [done EXCEPT ![d][side[d]] = Len(executions) + 1]
  /\ picked' = [picked EXCEPT ![d] = 0]
  /\ UNCHANGED <<verdicts, invocations, cycles, counts, route, cycle, side, call, heard, verdict, cited>>

\* finalize_execution_batch writes the row over.
Finalize(d, state, ok) ==
  executions' = [executions EXCEPT ![done[d][side[d]]] = [@ EXCEPT !.state = state, !.ok = ok]]

Start(d) ==
  /\ Step(d, "start", "walk")
  /\ Finalize(d, "in_flight", TRUE)
  /\ UNCHANGED <<verdicts, invocations, cycles, locals, counts>>

\* The walk over the actions (module Execution) is over; the batch has failed or not.
Complete(d) ==
  /\ pc[d] = "walk"
  /\ \E ok \in BOOLEAN : Finalize(d, "completed", ok)
  /\ NextTurn(d)
  /\ UNCHANGED <<verdicts, invocations, cycles, counts, route, cycle, picked, cited, done>>

\* An exception on the walk: the row says so, and the exception ends the process.
Abort(d) ==
  /\ deaths < MaxDeaths
  /\ pc[d] = "walk"
  /\ Finalize(d, "aborted", FALSE)
  /\ Forget(d)
  /\ deaths' = deaths + 1
  /\ UNCHANGED <<verdicts, invocations, cycles, begun>>

MutWentAsAsked(d, s) == invocations[cited[d][s]].status = "succeeded"

\* _classify_cycle, of a dry loop and of a live one.
Went(d, s) ==
  IF d \in Live
  THEN done[d][s] # 0 /\ executions[done[d][s]].ok
  ELSE invocations[cited[d][s]].status = "succeeded"

Classify(ok) ==
  CASE ok = Sides -> "both_succeeded"
    [] ok = {}    -> "both_failed"
    [] OTHER      -> "one_succeeded_one_failed"

MutCloseNeedsAFreeNumber(d) ==
  /\ Step(d, "close", "top")
  /\ cycles[cycle[d]] = None
  /\ cycles' = [cycles EXCEPT ![cycle[d]] =
       [cited |-> cited[d], done |-> done[d], live |-> d \in Live,
        class |-> Classify({s \in Sides : Went(d, s)})]]
  /\ cycle' = [cycle EXCEPT ![d] = @ + 1]
  /\ Turn(d, "red")
  /\ cited' = [cited EXCEPT ![d] = Nobody]
  /\ done' = [done EXCEPT ![d] = Nobody]
  /\ UNCHANGED <<verdicts, invocations, executions, counts, route, picked>>

\* save_decision_cycle_result: a row with this number is replaced.
Close(d) ==
  /\ Step(d, "close", "top")
  /\ cycles' = [cycles EXCEPT ![cycle[d]] =
       [cited |-> cited[d], done |-> done[d], live |-> d \in Live,
        class |-> Classify({s \in Sides : Went(d, s)})]]
  /\ cycle' = [cycle EXCEPT ![d] = @ + 1]
  /\ Turn(d, "red")
  /\ cited' = [cited EXCEPT ![d] = Nobody]
  /\ done' = [done EXCEPT ![d] = Nobody]
  /\ UNCHANGED <<verdicts, invocations, executions, counts, route, picked>>

\* The process is killed, or an exception ends it.  Between cycles that looks like a
\* driver that leaves.
Dies(d) ==
  /\ deaths < MaxDeaths
  /\ pc[d] \in InCycle
  /\ Forget(d)
  /\ deaths' = deaths + 1
  /\ UNCHANGED <<store, begun>>

\* The command validate-actions: a verdict about a coalition, for whatever cycle.
ValidateActions(s) ==
  /\ Len(verdicts) < MaxJudged
  /\ verdicts' = Append(verdicts, s)
  /\ UNCHANGED <<invocations, executions, cycles, pc, locals, counts>>

-------------------------------------------------------------------------------
Works(d) ==
  \/ Ask(d) \/ Judge(d) \/ Note(d)
  \/ Fetch(d) \/ Open(d) \/ Start(d) \/ Complete(d)
  \/ Close(d)

Next ==
  \/ \E d \in Drivers : Launch(d) \/ Begin(d) \/ Leave(d) \/ Works(d)
                       \/ Abort(d) \/ AlienReply(d) \/ Dies(d)
  \/ \E s \in Sides : ValidateActions(s)

\* A request returns within the client's timeout and a step on the database ends;
\* nobody has to begin a cycle.
Fairness == \A d \in Drivers : WF_vars(Works(d))

Spec     == Init /\ [][Next]_vars
FairSpec == Spec /\ Fairness
-------------------------------------------------------------------------------
(* Properties. *)

Statuses == {"succeeded", "parse_failed", "transport_failed"}
Entries  == [backend : Backends, status : Statuses, attempts : Nat]
Heard    == [backend : Backends, reply : ReplyKinds]

Invocations ==
  [side : Sides, cycle : Cycles, backend : Backends, status : Statuses, attempts : Nat,
   failover : BOOLEAN, trace : Seq(Entries), verdict : Nat, heard : Seq(Heard), route : Routes]
Executions ==
  [invocation : Nat, verdict : Nat, ok : BOOLEAN,
   state : {"pending", "in_flight", "completed", "aborted"}]

Asks == [link : 1..2, attempt : Nat \ {0}, raw : BOOLEAN, trace : Seq(Entries)]

StoreTypes ==
  /\ verdicts \in Seq(Sides)
  /\ invocations \in Seq(Invocations)
  /\ executions \in Seq(Executions)
  /\ cycles \in [Cycles -> CycleRows \cup {None}]

MemoryTypes ==
  /\ pc \in [Drivers -> InCycle \cup {"off", "top"}]
  /\ route \in [Drivers -> Routes \cup {None}]
  /\ cycle \in [Drivers -> 1..(MaxCycle + 1)]
  /\ side \in [Drivers -> Sides]
  /\ call \in [Drivers -> Asks]
  /\ heard \in [Drivers -> Seq(Heard)]
  /\ verdict \in [Drivers -> Nat]
  /\ picked \in [Drivers -> Nat]
  /\ cited \in [Drivers -> [Sides -> Nat]]
  /\ done \in [Drivers -> [Sides -> Nat]]
  /\ begun \in Nat /\ deaths \in Nat

\* A driver in a cycle has a routing, a cycle to record, a backend to ask and, once
\* the asking is over, a result; one that is in no cycle has no turn under way.
TurnTypes ==
  \A d \in Drivers :
    /\ pc[d] # "off" => route[d] # None
    /\ pc[d] \in {"judge", "note"} => call[d].trace # <<>>
    /\ IF pc[d] \in InCycle
       THEN cycle[d] \in Cycles /\ call[d].link \in 1..Len(Chain(route[d], side[d]))
       ELSE side[d] = "red" /\ call[d] = Fresh /\ heard[d] = <<>> /\ verdict[d] = 0

\* The types of the variables.
TypeOK == StoreTypes /\ MemoryTypes /\ TurnTypes

\* The requests that were made before the backend of the result was asked.
Before(i) == IF i.failover THEN Retries[Chain(i.route, i.side)[1]] + 1 ELSE 0

\* What an invocation says is what was heard.
Tells(i) ==
  LET chain == Chain(i.route, i.side)
      last == Len(i.heard)
  IN  /\ i.failover => Len(chain) = 2
      /\ i.backend = chain[IF i.failover THEN 2 ELSE 1]
      /\ last = Before(i) + i.attempts
      /\ i.attempts \in 1..(Retries[i.backend] + 1)
      /\ \A k \in 1..last :
           /\ i.heard[k].backend = IF k <= Before(i) THEN chain[1] ELSE i.backend
           /\ i.heard[k].reply = "good" <=> (k = last /\ i.status = "succeeded")
      /\ i.status # "succeeded" =>
           /\ i.attempts = Retries[i.backend] + 1
           /\ i.failover \/ Len(chain) = 1
           /\ i.status = "parse_failed" <=>
                \E k \in 1..last : k > Before(i) /\ i.heard[k].reply = "bad"

\* An invocation tells what happened: the fallback is asked only after every
\* attempt at the primary has failed, an answer ends the asking and is never lost,
\* a failure is recorded only when the whole chain is exhausted, and it is a parse
\* failure exactly when the last backend sent text (ARCHITECTURE: failover only for
\* transport or parse failure).
RecordsTellTheCalls == \A n \in DOMAIN invocations : Tells(invocations[n])

\* An invocation that was answered has the verdict on its answer, and it alone.
HasItsVerdict(n) ==
  LET i == invocations[n]
  IN  /\ i.status = "succeeded" <=> i.verdict # 0
      /\ i.verdict # 0 =>
           /\ i.verdict \in About(i.side)
           /\ \A m \in DOMAIN invocations : invocations[m].verdict = i.verdict => m = n

\* What is executed is the answer to an invocation, or one saved after it.
CarriesOutAnAnswer(e) ==
  LET x == executions[e]
  IN  /\ x.invocation \in DOMAIN invocations
      /\ invocations[x.invocation].verdict \in 1..x.verdict
      /\ x.verdict \in About(invocations[x.invocation].side)
      /\ \A f \in DOMAIN executions : executions[f].invocation = x.invocation => f = e

\* A verdict answers at most one invocation, one that succeeded; what is executed is
\* such an answer or one saved after it about the same coalition, and no invocation
\* is executed twice, whoever else drives the run and whoever dies.
ExecutesAnAnswer ==
  /\ \A n \in DOMAIN invocations : HasItsVerdict(n)
  /\ \A e \in DOMAIN executions : CarriesOutAnAnswer(e)

\* How a coalition fared, as the rows a cycle cites tell it.
Fared(row, s) ==
  IF row.live
  THEN row.done[s] # 0 /\ executions[row.done[s]].ok
  ELSE invocations[row.cited[s]].status = "succeeded"

RowCitesItsOwn(c, row) ==
  /\ \A s \in Sides :
       /\ row.cited[s] \in DOMAIN invocations
       /\ invocations[row.cited[s]].side = s
       /\ invocations[row.cited[s]].cycle = c
       /\ row.done[s] # 0 <=> row.live /\ invocations[row.cited[s]].status = "succeeded"
       /\ row.done[s] # 0 => /\ row.done[s] \in DOMAIN executions
                             /\ executions[row.done[s]].invocation = row.cited[s]
                             /\ executions[row.done[s]].state = "completed"
  /\ row.class = Classify({s \in Sides : Fared(row, s)})

\* The row of a cycle cites an invocation of each coalition made for this cycle and
\* the completed execution of that invocation, if it was answered to a live loop, and
\* its class is what they say: what is cited is not written to again.
CyclesCiteTheirOwn ==
  \A c \in Cycles : cycles[c] # None => RowCitesItsOwn(c, cycles[c])

\* The store as a ledger; the drivers and their memory do not show.
Ledger == INSTANCE DecisionLedger
  WITH Coalitions <- Sides, Numbers <- Cycles, NoRow <- None,
       judged <- verdicts, asked <- invocations, executed <- executions, recorded <- cycles

\* Whoever drives the run or has actions judged, however often and wherever drivers
\* die, the store is written as the ledger promises.  Verdicts and invocations are never
\* taken back or rewritten, and a verdict is cited by one invocation.  An answer is
\* executed once, with its own verdict or a later one about the same coalition; between
\* the fetch of a verdict and the row that names it a newer one may be saved, but the
\* row keeps the verdict and the invocation it was opened with, and its state moves only
\* from pending to in flight to completed or aborted.  A cycle cites only rows that are
\* there and executions that are completed.
ImplementsLedger == Ledger!LedgerSpec

-------------------------------------------------------------------------------
(* The inductive invariant behind the properties above. *)

\* The replies of a turn that goes on: every attempt so far has failed.
Asking(d) ==
  LET chain == Chain(route[d], side[d])
      before == IF call[d].link > 1 THEN Retries[chain[1]] + 1 ELSE 0
  IN  /\ Len(heard[d]) = before + call[d].attempt - 1
      /\ call[d].attempt <= Retries[Asked(d)] + 1
      /\ \A k \in 1..Len(heard[d]) :
           /\ heard[d][k].backend = IF k <= before THEN chain[1] ELSE Asked(d)
           /\ heard[d][k].reply # "good"
      /\ call[d].raw <=> \E k \in 1..Len(heard[d]) : k > before /\ heard[d][k].reply = "bad"

\* A turn that has come to a result.
Told(d) ==
  /\ Tells(Invocation(d))
  /\ pc[d] = "judge" => Result(d).status = "succeeded"

TurnsAreTold ==
  \A d \in Drivers : /\ pc[d] = "ask" => Asking(d)
                     /\ pc[d] \in {"judge", "note"} => Told(d)

\* A driver remembers a verdict it has saved, about the coalition whose turn it is,
\* and executes only then, what it has fetched: the answer it recorded or a later verdict.
AnswersAreSaved ==
  \A d \in Drivers : /\ verdict[d] # 0 => verdict[d] \in About(side[d])
                     /\ pc[d] \in Executing => verdict[d] # 0
                     /\ pc[d] = "create" =>
                          picked[d] \in About(side[d]) /\ verdict[d] <= picked[d]

\* The verdict of a turn is saved between the answer and its invocation, and is
\* nobody else's.
VerdictIsOwn(d) ==
  /\ pc[d] \in {"ask", "judge"} => verdict[d] = 0
  /\ pc[d] = "note" =>
       /\ verdict[d] # 0 <=> Result(d).status = "succeeded"
       /\ verdict[d] # 0 =>
            /\ \A n \in DOMAIN invocations : invocations[n].verdict # verdict[d]
            /\ \A e \in Drivers : (pc[e] = "note" /\ verdict[e] = verdict[d]) => e = d

VerdictsAreOwn == \A d \in Drivers : VerdictIsOwn(d)

\* The coalitions whose invocation a driver's cycle has recorded.
Recorded(d) ==
  {s \in Sides : \/ pc[d] = "close"
                 \/ pc[d] \in InCycle /\ side[d] = "blue" /\ s = "red"
                 \/ pc[d] \in Executing /\ s = side[d]}

\* How far a driver has got with the execution of coalition s.
Reached(d, s) ==
  CASE pc[d] = "start" /\ s = side[d] -> "pending"
    [] pc[d] = "walk" /\ s = side[d]  -> "in_flight"
    [] OTHER                          -> "completed"

\* A driver cites invocations of its cycle, and the executions of them.
CitesItsOwn(d, s) ==
  /\ cited[d][s] # 0 <=> s \in Recorded(d)
  /\ cited[d][s] # 0 =>
       /\ cited[d][s] \in DOMAIN invocations
       /\ invocations[cited[d][s]].side = s
       /\ invocations[cited[d][s]].cycle = cycle[d]
  /\ IF pc[d] \in {"fetch", "create"} /\ s = side[d]
     THEN d \in Live /\ done[d][s] = 0 /\ invocations[cited[d][s]].verdict = verdict[d]
     ELSE done[d][s] # 0 <=> d \in Live /\ cited[d][s] # 0
                             /\ invocations[cited[d][s]].status = "succeeded"
  /\ pc[d] \in {"start", "walk"} /\ s = side[d] => done[d][s] # 0
  /\ done[d][s] # 0 => /\ done[d][s] \in DOMAIN executions
                       /\ executions[done[d][s]].invocation = cited[d][s]
                       /\ executions[done[d][s]].state = Reached(d, s)

DriversCiteTheirOwn == \A d \in Drivers : \A s \in Sides : CitesItsOwn(d, s)

\* Nobody else cites an invocation, and its only execution is the driver's.
CitedApart(d, s) ==
  cited[d][s] # 0 =>
    /\ \A e \in Drivers : \A t \in Sides : cited[e][t] = cited[d][s] => e = d /\ t = s
    /\ \A x \in DOMAIN executions : executions[x].invocation = cited[d][s] => done[d][s] = x

CitationsAreApart == \A d \in Drivers : \A s \in Sides : CitedApart(d, s)

DecisionInv ==
  /\ TypeOK
  /\ AnswersAreSaved
  /\ TurnsAreTold
  /\ VerdictsAreOwn
  /\ DriversCiteTheirOwn
  /\ CitationsAreApart
  /\ RecordsTellTheCalls
  /\ ExecutesAnAnswer
  /\ CyclesCiteTheirOwn

-------------------------------------------------------------------------------
\* A driver leaves a cycle by recording it, unless it dies: no sequence of failed
\* requests, of either coalition, loses the other one's answer or ends the loop.
FailuresAreRecorded ==
  [][\A d \in Drivers : (pc[d] \in InCycle /\ pc'[d] \notin InCycle) =>
       \/ deaths' = deaths + 1
       \/ cycles'[cycle[d]] # None /\ cycles'[cycle[d]].cited = cited[d]]_vars

\* A cycle that is begun ends: the attempts at every backend are bounded.
EveryCycleEnds == \A d \in Drivers : pc[d] \in InCycle ~> pc[d] \notin InCycle
===============================================================================
