----------------------------- MODULE RunLifecycle -----------------------------
(***************************************************************************)
(* The lifecycle of one run, as the row of table "runs" sees it, under the  *)
(* processes that write it: operator commands (threads of the web UI and    *)
(* CLI invocations of OperatorControlService), decision loops (run-live-    *)
(* loop, run-live-cycle and their dry counterparts) and the evaluation      *)
(* matrix, which drives a loop of its own.                                  *)
(*                                                                         *)
(* No process locks the row.  A transition is a read that is checked        *)
(* against the table of transitions, a second read inside                   *)
(* update_run_status (it picks the timestamp column and the event's         *)
(* previous_status), and an UPDATE that does not look at what it replaces.  *)
(* Each of the three is a connection of its own, hence a step of its own.   *)
(***************************************************************************)
EXTENDS Naturals

CONSTANTS
  Operators,    \* concurrent operator sessions (HTTP threads, CLI commands)
  Loops,        \* processes that drive decision cycles on the run
  MatrixLoops,  \* the loops that the evaluation matrix drives
  MaxCommands,  \* bound on the operator commands of a behaviour
  None          \* no value: an unused local variable

VARIABLES
  status,    \* runs.status
  stamps,    \* the columns of the row that are not NULL
  phase,     \* where each loop process is; an operator is always "shell"
  call,      \* how far the status write in progress of a process has got
  target,    \* the status that write will store
  seen,      \* the status on which the process decided to write
  prev,      \* the status update_run_status read before it writes
  commands   \* operator commands issued so far

vars == <<status, stamps, phase, call, target, seen, prev, commands>>
locals == <<target, seen, prev>>

Procs    == Operators \cup Loops
Status   == {"created", "running", "paused", "stopped", "failed"}
Terminal == {"stopped", "failed"}
Columns  == {"started_at", "resumed_at", "paused_at", "stopped_at",
             "failed_at", "terminal_reason"}
LoopPhases == {"off", "gate", "gate_start", "top", "top_start", "cycle",
               "last_cycle", "handler", "failing", "exited"}
Waiting    == {"gate_start", "top_start", "failing"}
Calls      == {"idle", "decide", "reread", "write"}

ASSUME RunLifecycleAssumption ==
  /\ MatrixLoops \subseteq Loops
  /\ Operators \cap Loops = {}
  /\ MaxCommands \in Nat
  /\ None \notin Status

\* The transitions OperatorControlService._transition accepts.
Allowed ==
  [s \in Status |->
     CASE s = "created" -> {"running"}
       [] s = "running" -> {"paused", "stopped", "failed"}
       [] s = "paused"  -> {"running", "stopped"}
       [] OTHER         -> {}]

\* What update_run_status leaves in the columns when it stores s, having
\* read p before.  terminal_reason is rewritten on every update; paused_at is
\* cleared only by a return to running.
MutStampsAfterKeepsPause(old, p, s) ==
  (old \ {"terminal_reason"}) \cup
  CASE s = "running" -> IF p = "created" THEN {"started_at"} ELSE {"resumed_at"}
    [] s = "paused"  -> {"paused_at"}
    [] s = "stopped" -> {"stopped_at", "terminal_reason"}
    [] s = "failed"  -> {"failed_at", "terminal_reason"}

MutStampsAfterNeverStarted(old, p, s) ==
  CASE s = "running" -> (old \ {"paused_at", "terminal_reason"}) \cup {"resumed_at"}
    [] s = "paused"  -> (old \ {"terminal_reason"}) \cup {"paused_at"}
    [] s = "stopped" -> old \cup {"stopped_at", "terminal_reason"}
    [] s = "failed"  -> old \cup {"failed_at", "terminal_reason"}

StampsAfter(old, p, s) ==
  CASE s = "running" -> (old \ {"paused_at", "terminal_reason"}) \cup
                          IF p = "created" THEN {"started_at"} ELSE {"resumed_at"}
    [] s = "paused"  -> (old \ {"terminal_reason"}) \cup {"paused_at"}
    [] s = "stopped" -> old \cup {"stopped_at", "terminal_reason"}
    [] s = "failed"  -> old \cup {"failed_at", "terminal_reason"}

Init ==
  /\ status = "created"
  /\ stamps = {}
  /\ phase = [p \in Procs |-> IF p \in Loops THEN "off" ELSE "shell"]
  /\ call = [p \in Procs |-> "idle"]
  /\ target = [p \in Procs |-> None]
  /\ seen = [p \in Procs |-> None]
  /\ prev = [p \in Procs |-> None]
  /\ commands = 0

-------------------------------------------------------------------------------
(* A status write, step by step. *)

\* Where a process goes when its call returns, and when it raises.  A refused
\* gate sends the loop to the CLI's failure handler; a refused fail_run is
\* swallowed there.
Returned(p, next) ==
  CASE phase[p] = "gate_start" -> next \in {"top", "last_cycle"}
    [] phase[p] = "top_start"  -> next = "cycle"
    [] phase[p] = "failing"    -> next = "exited"
    [] OTHER                   -> next = phase[p]

MutRaisedStays(p) == phase[p]

Raised(p) ==
  CASE phase[p] = "gate_start" -> "handler"
    [] phase[p] = "failing"    -> "exited"
    [] OTHER                   -> phase[p]

MutDecideUnchecked(p) ==
  /\ call[p] = "decide"
  /\ call' = [call EXCEPT ![p] = "reread"]
  /\ seen' = [seen EXCEPT ![p] = status]
  /\ UNCHANGED <<status, stamps, phase, target, prev, commands>>

\* _transition: read the status and check the table.
Decide(p) ==
  /\ call[p] = "decide"
  /\ IF target[p] \in Allowed[status]
     THEN /\ call' = [call EXCEPT ![p] = "reread"]
          /\ seen' = [seen EXCEPT ![p] = status]
          /\ UNCHANGED <<phase, target>>
     ELSE /\ call' = [call EXCEPT ![p] = "idle"]
          /\ target' = [target EXCEPT ![p] = None]
          /\ phase' = [phase EXCEPT ![p] = Raised(p)]
          /\ UNCHANGED seen
  /\ UNCHANGED <<status, stamps, prev, commands>>

\* update_run_status: the read that opens it.
Reread(p) ==
  /\ call[p] = "reread"
  /\ call' = [call EXCEPT ![p] = "write"]
  /\ prev' = [prev EXCEPT ![p] = status]
  /\ UNCHANGED <<status, stamps, phase, target, seen, commands>>

\* update_run_status: the UPDATE, whatever the row holds by now.
Write(p) ==
  /\ call[p] = "write"
  /\ status' = target[p]
  /\ stamps' = StampsAfter(stamps, prev[p], target[p])
  /\ call' = [call EXCEPT ![p] = "idle"]
  /\ target' = [target EXCEPT ![p] = None]
  /\ seen' = [seen EXCEPT ![p] = None]
  /\ prev' = [prev EXCEPT ![p] = None]
  /\ \E next \in LoopPhases \cup {"shell"} :
       Returned(p, next) /\ phase' = [phase EXCEPT ![p] = next]
  /\ UNCHANGED commands

-------------------------------------------------------------------------------
(* Operators. *)

\* start_run, resume_run, pause_run and stop_run.
Issue(o, s) ==
  /\ call[o] = "idle"
  /\ commands < MaxCommands
  /\ commands' = commands + 1
  /\ call' = [call EXCEPT ![o] = "decide"]
  /\ target' = [target EXCEPT ![o] = s]
  /\ UNCHANGED <<status, stamps, phase, seen, prev>>

-------------------------------------------------------------------------------
(* Decision loops. *)

Goto(l, next) ==
  /\ phase' = [phase EXCEPT ![l] = next]
  /\ UNCHANGED <<status, stamps, call, commands, locals>>

\* The loop goes on to store s; `first` is where its call starts.
StartCall(l, next, s, first) ==
  /\ phase' = [phase EXCEPT ![l] = next]
  /\ call' = [call EXCEPT ![l] = first]
  /\ target' = [target EXCEPT ![l] = s]
  /\ seen' = [seen EXCEPT ![l] = IF first = "reread" THEN status ELSE None]
  /\ UNCHANGED <<status, stamps, prev, commands>>

\* A CLI loop opens with ensure_cycle_allowed; the matrix goes straight to the
\* loop, or fails before it while it builds the services of the case.
Launch(l) ==
  /\ phase[l] = "off"
  /\ IF l \in MatrixLoops
     THEN Goto(l, "top") \/ Goto(l, "handler")
     ELSE Goto(l, "gate")

\* ensure_cycle_allowed.  run-live-loop enters the loop, run-live-cycle runs
\* one cycle without reading the status again.
Gate(l) ==
  /\ phase[l] = "gate"
  /\ \/ /\ status = "created"
        /\ StartCall(l, "gate_start", "running", "decide")
     \/ /\ status = "running"
        /\ Goto(l, "top") \/ Goto(l, "last_cycle")
     \/ /\ status \notin {"created", "running"}
        /\ Goto(l, "handler")

\* run_live_loop returns its result.  The matrix goes on to evaluate and export
\* the run inside the same try block, so it can still reach its handler.
LoopReturns(l) == Goto(l, "exited") \/ (l \in MatrixLoops /\ Goto(l, "handler"))

MutTopIgnoresPause(l) ==
  /\ phase[l] = "top"
  /\ \/ /\ status = "created"
        /\ StartCall(l, "top_start", "running", "reread")
     \/ /\ status \in {"running", "paused"}
        /\ Goto(l, "cycle")
     \/ /\ status \in Terminal
        /\ Goto(l, "handler")

MutTopSkipsStart(l) ==
  /\ phase[l] = "top"
  /\ \/ /\ status \in {"created", "running"}
        /\ Goto(l, "cycle")
     \/ /\ status = "paused"
        /\ LoopReturns(l)
     \/ /\ status \in Terminal
        /\ Goto(l, "handler")

\* The head of one iteration of run_live_loop and run_decision_loop.
Top(l) ==
  /\ phase[l] = "top"
  /\ \/ /\ status = "created"
        /\ StartCall(l, "top_start", "running", "reread")
     \/ /\ status = "running"
        /\ Goto(l, "cycle")
     \/ /\ status = "paused"
        /\ LoopReturns(l)
     \/ /\ status \in Terminal
        /\ Goto(l, "handler")

\* All requested cycles are done.
LoopEnds(l) == phase[l] = "top" /\ LoopReturns(l)

CycleEnds(l) ==
  \/ phase[l] = "cycle" /\ Goto(l, "top")
  \/ phase[l] = "last_cycle" /\ Goto(l, "exited")

CycleRaises(l) ==
  /\ phase[l] \in {"cycle", "last_cycle"}
  /\ Goto(l, "handler")

\* _handle_loop_failure calls fail_run, which checks the table again; the
\* matrix writes at once.
Handler(l) ==
  /\ phase[l] = "handler"
  /\ IF status \in {"created", "running"}
     THEN StartCall(l, "failing", "failed",
                    IF l \in MatrixLoops THEN "reread" ELSE "decide")
     ELSE Goto(l, "exited")

\* The process of a command or of a loop is killed (Ctrl-C is no Exception, so no
\* handler runs); an UPDATE that was not committed is rolled back.
Killed(p) ==
  /\ phase[p] \notin {"off", "exited"}
  /\ phase[p] = "shell" => call[p] # "idle"
  /\ phase' = [phase EXCEPT ![p] = IF p \in Loops THEN "exited" ELSE "shell"]
  /\ call' = [call EXCEPT ![p] = "idle"]
  /\ target' = [target EXCEPT ![p] = None]
  /\ seen' = [seen EXCEPT ![p] = None]
  /\ prev' = [prev EXCEPT ![p] = None]
  /\ UNCHANGED <<status, stamps, commands>>

-------------------------------------------------------------------------------
Call(p) == Decide(p) \/ Reread(p) \/ Write(p)

LoopStep(l) ==
  \/ Gate(l)
  \/ Top(l)
  \/ LoopEnds(l)
  \/ CycleEnds(l)
  \/ CycleRaises(l)
  \/ Handler(l)

\* Every command has been given and every loop has exited.
Finished ==
  /\ commands = MaxCommands
  /\ \A p \in Procs : call[p] = "idle" /\ phase[p] \in {"shell", "exited"}
  /\ UNCHANGED vars

Next ==
  \/ \E p \in Procs : Call(p) \/ Killed(p)
  \/ \E o \in Operators, s \in {"running", "paused", "stopped"} : Issue(o, s)
  \/ \E l \in Loops : Launch(l) \/ LoopStep(l)
  \/ Finished

\* The operating system runs every thread, and every call of a cycle is bounded
\* by a timeout, so a cycle ends or raises.  Nobody has to issue a command, to
\* launch a loop or to give a loop a last cycle.
Fairness ==
  /\ \A p \in Procs : WF_vars(Call(p))
  /\ \A l \in Loops : WF_vars(Gate(l) \/ Top(l) \/ CycleEnds(l) \/ Handler(l))

Spec     == Init /\ [][Next]_vars
FairSpec == Spec /\ Fairness

-------------------------------------------------------------------------------
(* Properties. *)

\* Every variable has its type; a process holds a target and the status it
\* decided on exactly while a write of its own is on the way, and a loop has one
\* on the way exactly in the phases that wait for it (the start at the top of the
\* loop never consults the table).
TypeOK ==
  /\ status \in Status
  /\ stamps \subseteq Columns
  /\ phase \in [Procs -> LoopPhases \cup {"shell"}]
  /\ call \in [Procs -> Calls]
  /\ target \in [Procs -> {"running", "paused", "stopped", "failed", None}]
  /\ seen \in [Procs -> Status \cup {None}]
  /\ prev \in [Procs -> Status \cup {None}]
  /\ commands \in 0..MaxCommands
  /\ \A p \in Procs : phase[p] = "shell" <=> p \in Operators
  /\ \A p \in Procs :
       /\ call[p] = "idle" <=> target[p] = None
       /\ call[p] \in {"reread", "write"} <=> seen[p] # None
       /\ call[p] = "write" <=> prev[p] # None
  /\ \A l \in Loops :
       /\ call[l] # "idle" <=> phase[l] \in Waiting
       /\ call[l] = "decide" => phase[l] # "top_start"

\* The transitions a process may mean to make: those of the table, and for the
\* matrix handler the failure of a run that never started.
Intended(p) ==
  [s \in Status |->
     Allowed[s] \cup IF p \in MatrixLoops /\ s = "created" THEN {"failed"} ELSE {}]

\* A write that reaches the row while the status its writer decided on still
\* stands makes a transition of _transition's table (or fails an unstarted
\* matrix run): only a writer that was overtaken can break the lifecycle.
OnlyOvertakenWritersBreakTheTable ==
  [][status' # status =>
       \E p \in Procs :
         /\ call[p] = "write" /\ call'[p] = "idle"
         /\ status' = target[p]
         /\ seen[p] # status \/ status' \in Intended(p)[status]]_vars

\* However the writers interleave, a run that has left "created" shows in its row
\* how: it was started (started_at, which only the write that saw "created"
\* sets), or the matrix failed it before it started.
LeavingCreatedIsStamped ==
  status # "created" => "started_at" \in stamps
                        \/ (MatrixLoops # {} /\ "failed_at" \in stamps)

\* paused_at stands for every paused run and for no running one, so the replay
\* and the web UI never show a running run as paused.
PausedAtTellsThePause ==
  /\ status = "paused" => "paused_at" \in stamps
  /\ status = "running" => "paused_at" \notin stamps
  /\ "terminal_reason" \in stamps <=> status \in Terminal

\* No decision cycle (and so no command to the simulator) runs on a run that
\* was never started.
CyclesRunOnStartedRuns ==
  \A l \in Loops : phase[l] \in {"cycle", "last_cycle"} => status # "created"

\* The inductive invariant behind the properties above: every write on the way was
\* decided by the table on the status its writer saw, and while the run is still
\* "created" that is all anybody has seen.
WritersDecided ==
  \A p \in Procs : seen[p] # None => target[p] \in Intended(p)[seen[p]]

CreatedIsAllThatWasSeen ==
  status = "created" =>
    \A p \in Procs : {seen[p], prev[p]} \subseteq {"created", None}

LifecycleInv ==
  /\ TypeOK
  /\ WritersDecided
  /\ CreatedIsAllThatWasSeen
  /\ LeavingCreatedIsStamped
  /\ PausedAtTellsThePause
  /\ CyclesRunOnStartedRuns

\* A paused run, if nobody moves it on, comes to rest: every loop leaves at the
\* next boundary between two cycles.
PauseDrainsTheLoops ==
  status = "paused" ~>
    (status # "paused" \/ \A l \in Loops : phase[l] \in {"off", "exited"})

\* The two reads and the UPDATE of a status write are as good as one transaction: status
\* and columns change together, by the table, from what the row holds.  One process.
WritesAreAtomic ==
  [][\E p \in Procs :
       /\ status' \in Intended(p)[status]
       /\ stamps' = StampsAfter(stamps, status, status')]_<<status, stamps>>

\* A stopped or failed run stays stopped or failed: _transition's table has no
\* way out of them.
TerminalIsFinal ==
  {"stopped_at", "failed_at"} \cap stamps # {} => status \in Terminal
===============================================================================
