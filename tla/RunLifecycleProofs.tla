-------------------------- MODULE RunLifecycleProofs --------------------------
(***************************************************************************)
(* Theorems about RunLifecycle, for any number of operators and loops, and    *)
(* about RoutedRun: the composition implements the lifecycle, and every       *)
(* routing that reaches a driver is one its registry can serve, for any       *)
(* configuration that loads, any requests and any number of processes.        *)
(***************************************************************************)
EXTENDS RoutedRun, TLAPS

-------------------------------------------------------------------------------
(* Type correctness. *)

\* A step of a status write in progress keeps the types.
LEMMA CallKeepsTypes ==
  ASSUME TypeOK, NEW p \in Procs, Call(p)
  PROVE  TypeOK'
<1> USE RunLifecycleAssumption DEF TypeOK
<1>1. CASE Decide(p)
  <2>1. call[p] = "decide" /\ target[p] # None
    BY <1>1 DEF Decide
  <2>2. CASE target[p] \in Allowed[status]
    <3>1. /\ call' = [call EXCEPT ![p] = "reread"]
          /\ seen' = [seen EXCEPT ![p] = status]
          /\ UNCHANGED <<status, stamps, phase, target, prev, commands>>
      BY <1>1, <2>2 DEF Decide
    <3>2. QED
      BY <2>1, <3>1 DEF Calls, Procs
  <2>3. CASE target[p] \notin Allowed[status]
    <3>1. /\ Raised(p) \in LoopPhases \cup {"shell"}
          /\ Raised(p) = "shell" <=> p \in Operators
          /\ p \in Loops => Raised(p) \notin Waiting
      <4>1. \/ Raised(p) \in {"handler", "exited"}
               /\ phase[p] \in {"gate_start", "failing"}
            \/ Raised(p) = phase[p] /\ phase[p] \notin {"gate_start", "failing"}
        BY Zenon DEF Raised
      <4>2. p \in Loops => phase[p] \in {"gate_start", "failing"}
        BY <2>1 DEF Waiting
      <4>3. QED
        BY <4>1, <4>2 DEF LoopPhases, Waiting
    <3>2. QED
      BY <1>1, <2>1, <2>3, <3>1 DEF Decide, Calls, Procs
  <2>4. QED
    BY <2>2, <2>3
<1>2. CASE Reread(p)
  BY <1>2 DEF Reread, Calls, Status, Procs
<1>3. CASE Write(p)
  <2>1. /\ call[p] = "write"
        /\ target[p] \in Status \ {"created"}
    BY <1>3 DEF Write, Status
  <2>2. stamps' \subseteq Columns
    BY <1>3, <2>1 DEF Write, StampsAfter, Status, Columns
  <2>3. PICK next \in LoopPhases \cup {"shell"} :
          /\ Returned(p, next)
          /\ phase' = [phase EXCEPT ![p] = next]
    BY <1>3 DEF Write
  <2>4. next = "shell" <=> p \in Operators
    BY <2>3 DEF Returned
  <2>6. \A q \in Procs : phase'[q] = "shell" <=> q \in Operators
    BY <2>3, <2>4
  <2>7. phase' \in [Procs -> LoopPhases \cup {"shell"}]
    BY <2>3
  <2>8. /\ call' = [call EXCEPT ![p] = "idle"]
        /\ target' = [target EXCEPT ![p] = None]
        /\ seen' = [seen EXCEPT ![p] = None]
        /\ prev' = [prev EXCEPT ![p] = None]
        /\ status' = target[p]
        /\ commands' = commands
    BY <1>3 DEF Write
  <2>9. p \in Loops => next \notin Waiting
    BY <2>1, <2>3 DEF Returned, Waiting
  <2>10. \A l \in Loops : /\ call'[l] # "idle" <=> phase'[l] \in Waiting
                          /\ call'[l] = "decide" => phase'[l] # "top_start"
    BY <2>3, <2>8, <2>9
  <2>11. QED
    BY <2>1, <2>2, <2>6, <2>7, <2>8, <2>10 DEF Calls
<1>4. QED
  BY <1>1, <1>2, <1>3 DEF Call

\* A loop moves on without a write.
LEMMA GotoKeepsTypes ==
  ASSUME TypeOK, NEW l \in Loops, NEW next \in LoopPhases \ Waiting,
         phase[l] \notin Waiting, Goto(l, next)
  PROVE  TypeOK'
BY RunLifecycleAssumption
DEF TypeOK, Goto, Procs, LoopPhases, Waiting, locals

\* A loop begins a write of its own, having none on the way.
LEMMA StartCallKeepsTypes ==
  ASSUME TypeOK, NEW l \in Loops, NEW next \in Waiting,
         NEW s \in {"running", "failed"}, NEW first \in {"decide", "reread"},
         next = "top_start" => first = "reread",
         phase[l] \notin Waiting, StartCall(l, next, s, first)
  PROVE  TypeOK'
BY RunLifecycleAssumption
DEF TypeOK, StartCall, Procs, LoopPhases, Waiting, Calls, Status

\* The table of _transition, row by row.
LEMMA AllowedTable ==
  /\ Allowed["created"] = {"running"}
  /\ Allowed["running"] = {"paused", "stopped", "failed"}
  /\ Allowed["paused"] = {"running", "stopped"}
  /\ Allowed["stopped"] = {} /\ Allowed["failed"] = {}
BY Zenon DEF Allowed, Status

\* What a process may intend, row by row.
LEMMA IntendedTable ==
  ASSUME NEW p
  PROVE  /\ \A s \in Status : Allowed[s] \subseteq Intended(p)[s]
         /\ Intended(p)["created"] \subseteq {"running", "failed"}
         /\ p \in MatrixLoops => "failed" \in Intended(p)["created"]
         /\ p \notin MatrixLoops => Intended(p)["created"] = {"running"}
         /\ Intended(p)["stopped"] = {} /\ Intended(p)["failed"] = {}
BY AllowedTable DEF Intended, Status

\* A killed process leaves nothing on the way.
LEMMA KilledKeepsTypes ==
  ASSUME TypeOK, NEW p \in Procs, Killed(p)
  PROVE  TypeOK'
<1>1. /\ p \in Loops <=> p \notin Operators
      /\ None \notin Status
  BY RunLifecycleAssumption DEF Procs
<1>2. PICK there \in {"shell", "exited"} :
        /\ there = "shell" <=> p \in Operators
        /\ phase' = [phase EXCEPT ![p] = there]
  BY <1>1 DEF Killed
<1>3. QED
  BY <1>1, <1>2 DEF Killed, TypeOK, LoopPhases, Waiting, Calls, Procs

\* Every step of a loop that is not a step of its status write is a move to
\* another phase, to a cycle only on a running run, or the beginning of a write,
\* and one that bypasses the table writes what the table would allow.
LEMMA LoopMoves ==
  ASSUME TypeOK, NEW l \in Loops, Launch(l) \/ LoopStep(l)
  PROVE  /\ phase[l] \notin Waiting
         /\ \/ \E next \in LoopPhases \ Waiting :
                 /\ next \in {"cycle", "last_cycle"} => status = "running"
                 /\ Goto(l, next)
            \/ \E next \in Waiting, s \in {"running", "failed"},
                  first \in {"decide", "reread"} :
                    /\ next = "top_start" => first = "reread"
                    /\ first = "reread" => s \in Intended(l)[status]
                    /\ StartCall(l, next, s, first)
<1>1. CASE Launch(l)
  BY <1>1 DEF Launch, LoopPhases, Waiting
<1>2. CASE Gate(l)
  BY <1>2 DEF Gate, LoopPhases, Waiting
<1>3. CASE Top(l)
  <2>1. CASE status = "created"
    <3>1. "running" \in Intended(l)[status]
      BY <2>1, AllowedTable, IntendedTable DEF Status
    <3>2. StartCall(l, "top_start", "running", "reread") /\ phase[l] = "top"
      BY <1>3, <2>1 DEF Top, Terminal
    <3>3. QED
      BY <3>1, <3>2 DEF Waiting
  <2>2. CASE status # "created"
    BY <1>3, <2>2 DEF Top, LoopReturns, LoopPhases, Waiting
  <2>3. QED
    BY <2>1, <2>2
<1>4. CASE LoopEnds(l)
  BY <1>4 DEF LoopEnds, LoopReturns, LoopPhases, Waiting
<1>5. CASE CycleEnds(l) \/ CycleRaises(l)
  BY <1>5 DEF CycleEnds, CycleRaises, LoopPhases, Waiting
<1>6. CASE Handler(l)
  <2>1. CASE status \in {"created", "running"}
    <3>1. l \in MatrixLoops => "failed" \in Intended(l)[status]
      BY <2>1, AllowedTable, IntendedTable DEF Status
    <3>2. /\ StartCall(l, "failing", "failed",
                       IF l \in MatrixLoops THEN "reread" ELSE "decide")
          /\ phase[l] = "handler"
      BY <1>6, <2>1 DEF Handler
    <3>3. QED
      BY <3>1, <3>2 DEF Waiting
  <2>2. CASE status \notin {"created", "running"}
    BY <1>6, <2>2 DEF Handler, LoopPhases, Waiting
  <2>3. QED
    BY <2>1, <2>2
<1>7. QED
  BY <1>1, <1>2, <1>3, <1>4, <1>5, <1>6 DEF LoopStep

\* Every step keeps the types.
LEMMA NextKeepsTypes ==
  ASSUME TypeOK, [Next]_vars
  PROVE  TypeOK'
<1>1. CASE \E p \in Procs : Call(p) \/ Killed(p)
  BY <1>1, CallKeepsTypes, KilledKeepsTypes
<1>2. CASE \E o \in Operators, s \in {"running", "paused", "stopped"} : Issue(o, s)
  <2>1. PICK o \in Operators, s \in {"running", "paused", "stopped"} : Issue(o, s)
    BY <1>2
  <2>2. commands' \in 0..MaxCommands
    BY <2>1, RunLifecycleAssumption DEF TypeOK, Issue
  <2>3. QED
    BY <2>1, <2>2, RunLifecycleAssumption
    DEF TypeOK, Issue, Procs, Calls, Status
<1>3. CASE \E l \in Loops : Launch(l) \/ LoopStep(l)
  BY <1>3, LoopMoves, GotoKeepsTypes, StartCallKeepsTypes
<1>4. CASE Finished \/ UNCHANGED vars
  BY <1>4 DEF Finished, TypeOK, vars, Waiting
<1>5. QED
  BY <1>1, <1>2, <1>3, <1>4 DEF Next

\* A run as it is created has the types.
LEMMA InitEstablishesTypes == Init => TypeOK
<1> SUFFICES ASSUME Init PROVE TypeOK
  OBVIOUS
<1>1. \A p \in Procs : phase[p] = IF p \in Loops THEN "off" ELSE "shell"
  BY DEF Init
<1>2. /\ \A p \in Procs : phase[p] = "shell" <=> p \in Operators
      /\ \A l \in Loops : phase[l] = "off"
  BY <1>1, RunLifecycleAssumption DEF Procs
<1>3. phase \in [Procs -> LoopPhases \cup {"shell"}]
  BY DEF Init, LoopPhases
<1>4. commands \in 0..MaxCommands
  BY RunLifecycleAssumption DEF Init
<1>5. /\ call = [p \in Procs |-> "idle"]
      /\ target = [p \in Procs |-> None]
      /\ seen = [p \in Procs |-> None]
      /\ prev = [p \in Procs |-> None]
      /\ status = "created" /\ stamps = {}
  BY DEF Init
<1>6. \A l \in Loops : /\ call[l] = "idle"
                       /\ phase[l] \notin Waiting
  BY <1>2, <1>5 DEF Procs, Waiting
<1>7. \A p \in Procs : call[p] = "idle" /\ target[p] = None
                       /\ seen[p] = None /\ prev[p] = None
  BY <1>5
<1>8. QED
  BY <1>2, <1>3, <1>4, <1>5, <1>6, <1>7 DEF TypeOK, Status, Calls

\* The types hold of the row, of every write in progress and of every loop.
THEOREM TypeCorrect == Spec => []TypeOK
<1>1. Init => TypeOK
  BY InitEstablishesTypes
<1>2. TypeOK /\ [Next]_vars => TypeOK'
  BY NextKeepsTypes
<1>3. QED
  BY <1>1, <1>2, PTL DEF Spec

-------------------------------------------------------------------------------
(* The safety invariants. *)

\* The columns a status write leaves, status by status.
LEMMA StampsTable ==
  ASSUME NEW old, NEW q
  PROVE  /\ StampsAfter(old, q, "running") =
              (old \ {"paused_at", "terminal_reason"}) \cup
                 IF q = "created" THEN {"started_at"} ELSE {"resumed_at"}
         /\ StampsAfter(old, q, "paused") =
              (old \ {"terminal_reason"}) \cup {"paused_at"}
         /\ StampsAfter(old, q, "stopped") =
              old \cup {"stopped_at", "terminal_reason"}
         /\ StampsAfter(old, q, "failed") =
              old \cup {"failed_at", "terminal_reason"}
BY Zenon DEF StampsAfter

\* A step of a write in progress either leaves the row alone or is its UPDATE;
\* only a check of the table gives a process something new to have seen.
LEMMA CallEffect ==
  ASSUME TypeOK, NEW p \in Procs, Call(p)
  PROVE  /\ \A q \in Procs \ {p} :
               /\ call'[q] = call[q] /\ target'[q] = target[q]
               /\ seen'[q] = seen[q] /\ prev'[q] = prev[q]
               /\ phase'[q] = phase[q]
         /\ \/ /\ call[p] # "write" /\ UNCHANGED <<status, stamps>>
               /\ phase'[p] \in {phase[p], "handler", "exited"}
               /\ prev'[p] \in {prev[p], status}
               /\ \/ seen'[p] = seen[p] /\ (seen[p] # None => target'[p] = target[p])
                  \/ /\ seen'[p] = status /\ target'[p] = target[p]
                     /\ target[p] \in Allowed[status]
            \/ /\ call[p] = "write" /\ call'[p] = "idle"
               /\ seen[p] # None /\ prev[p] # None
               /\ target[p] \in {"running", "paused", "stopped", "failed"}
               /\ seen'[p] = None /\ prev'[p] = None
               /\ status' = target[p]
               /\ stamps' = StampsAfter(stamps, prev[p], target[p])
<1>1. CASE Decide(p)
  <2>1. CASE target[p] \in Allowed[status]
    BY <1>1, <2>1 DEF Decide, TypeOK
  <2>2. CASE target[p] \notin Allowed[status]
    <3>1. Raised(p) \in {phase[p], "handler", "exited"}
      BY Zenon DEF Raised
    <3>2. seen[p] = None
      BY <1>1 DEF Decide, TypeOK
    <3>3. QED
      BY <1>1, <2>2, <3>1, <3>2 DEF Decide, TypeOK
  <2>3. QED
    BY <2>1, <2>2
<1>2. CASE Reread(p)
  BY <1>2 DEF Reread, TypeOK
<1>3. CASE Write(p)
  <2>1. PICK next \in LoopPhases \cup {"shell"} :
          phase' = [phase EXCEPT ![p] = next]
    BY <1>3 DEF Write
  <2>2. seen[p] # None /\ prev[p] # None /\ target[p] # None
    BY <1>3, RunLifecycleAssumption DEF Write, TypeOK
  <2>3. QED
    BY <1>3, <2>1, <2>2 DEF Write, TypeOK
<1>4. QED
  BY <1>1, <1>2, <1>3 DEF Call

\* A step of a status write keeps the invariant; the UPDATE is the case that
\* uses what its writer saw.
LEMMA CallKeepsInv ==
  ASSUME LifecycleInv, NEW p \in Procs, Call(p)
  PROVE  LifecycleInv'
<1> USE RunLifecycleAssumption DEF LifecycleInv
<1>1. TypeOK'
  BY CallKeepsTypes
<1>2. \A q \in Procs \ {p} :
        /\ target'[q] = target[q] /\ seen'[q] = seen[q]
        /\ prev'[q] = prev[q] /\ phase'[q] = phase[q]
  BY CallEffect
<1>3. CASE /\ call[p] # "write" /\ UNCHANGED <<status, stamps>>
           /\ phase'[p] \in {phase[p], "handler", "exited"}
           /\ prev'[p] \in {prev[p], status}
           /\ \/ seen'[p] = seen[p] /\ (seen[p] # None => target'[p] = target[p])
              \/ /\ seen'[p] = status /\ target'[p] = target[p]
                 /\ target[p] \in Allowed[status]
  <2>1. WritersDecided'
    <3>1. seen'[p] # None => target'[p] \in Intended(p)[seen'[p]]
      BY <1>3, IntendedTable DEF WritersDecided, TypeOK
    <3>2. \A q \in Procs : seen'[q] # None => target'[q] \in Intended(q)[seen'[q]]
      BY <1>2, <3>1 DEF WritersDecided
    <3>3. QED
      BY <3>2 DEF WritersDecided, Intended, Allowed
  <2>2. CreatedIsAllThatWasSeen'
    BY <1>2, <1>3 DEF CreatedIsAllThatWasSeen
  <2>3. LeavingCreatedIsStamped' /\ PausedAtTellsThePause'
    BY <1>3 DEF LeavingCreatedIsStamped, PausedAtTellsThePause, Terminal
  <2>4. CyclesRunOnStartedRuns'
    BY <1>2, <1>3 DEF CyclesRunOnStartedRuns, Procs
  <2>5. QED
    BY <1>1, <2>1, <2>2, <2>3, <2>4
<1>4. CASE /\ seen[p] # None /\ prev[p] # None
           /\ target[p] \in {"running", "paused", "stopped", "failed"}
           /\ seen'[p] = None /\ prev'[p] = None
           /\ status' = target[p]
           /\ stamps' = StampsAfter(stamps, prev[p], target[p])
  <2>1. WritersDecided'
    <3>1. \A q \in Procs : seen'[q] # None => target'[q] \in Intended(q)[seen'[q]]
      BY <1>2, <1>4 DEF WritersDecided
    <3>2. QED
      BY <3>1 DEF WritersDecided, Intended, Allowed
  <2>2. CreatedIsAllThatWasSeen' /\ CyclesRunOnStartedRuns'
    BY <1>4 DEF CreatedIsAllThatWasSeen, CyclesRunOnStartedRuns
  <2>3. LeavingCreatedIsStamped'
    <3>1. CASE status = "created"
      <4>1. /\ seen[p] = "created" /\ prev[p] = "created"
            /\ target[p] \in Intended(p)["created"]
        BY <1>4, <3>1 DEF CreatedIsAllThatWasSeen, WritersDecided
      <4>2. CASE target[p] = "running"
        BY <1>4, <4>1, <4>2, StampsTable DEF LeavingCreatedIsStamped
      <4>3. CASE target[p] = "failed"
        <5>1. p \in MatrixLoops
          BY <4>1, <4>3, IntendedTable
        <5>2. QED
          BY <1>4, <4>3, <5>1, StampsTable DEF LeavingCreatedIsStamped
      <4>4. QED
        BY <4>1, <4>2, <4>3, IntendedTable
    <3>2. CASE status # "created"
      BY <1>4, <3>2, StampsTable DEF LeavingCreatedIsStamped
    <3>3. QED
      BY <3>1, <3>2
  <2>4. PausedAtTellsThePause'
    BY <1>4, StampsTable DEF PausedAtTellsThePause, Terminal
  <2>5. QED
    BY <1>1, <2>1, <2>2, <2>3, <2>4
<1>5. QED
  BY <1>3, <1>4, CallEffect

\* A loop that moves on, or begins a write, leaves the row alone.
LEMMA LoopKeepsInv ==
  ASSUME LifecycleInv, NEW l \in Loops, Launch(l) \/ LoopStep(l)
  PROVE  LifecycleInv'
<1> USE RunLifecycleAssumption DEF LifecycleInv
<1>1. phase[l] \notin Waiting
  BY LoopMoves
<1>2. ASSUME NEW next \in LoopPhases \ Waiting, Goto(l, next),
             next \in {"cycle", "last_cycle"} => status = "running"
      PROVE  LifecycleInv'
  <2>1. TypeOK'
    BY <1>1, <1>2, GotoKeepsTypes
  <2>2. CyclesRunOnStartedRuns'
    BY <1>2 DEF CyclesRunOnStartedRuns, Goto, TypeOK, Procs
  <2>3. WritersDecided'
    BY <1>2 DEF WritersDecided, Intended, Allowed, Goto, locals
  <2>4. /\ CreatedIsAllThatWasSeen' /\ LeavingCreatedIsStamped'
        /\ PausedAtTellsThePause'
    BY <1>2 DEF CreatedIsAllThatWasSeen, LeavingCreatedIsStamped,
                PausedAtTellsThePause, Terminal, Goto, locals
  <2>5. QED
    BY <2>1, <2>2, <2>3, <2>4
<1>3. ASSUME NEW next \in Waiting, NEW s \in {"running", "failed"},
             NEW first \in {"decide", "reread"},
             next = "top_start" => first = "reread",
             first = "reread" => s \in Intended(l)[status],
             StartCall(l, next, s, first)
      PROVE  LifecycleInv'
  <2>1. TypeOK'
    BY <1>1, <1>3, StartCallKeepsTypes
  <2>2. /\ phase' = [phase EXCEPT ![l] = next]
        /\ target' = [target EXCEPT ![l] = s]
        /\ seen' = [seen EXCEPT ![l] = IF first = "reread" THEN status ELSE None]
        /\ UNCHANGED <<status, stamps, prev, commands>>
    BY <1>3 DEF StartCall
  <2>3. WritersDecided'
    <3>1. \A q \in Procs : seen'[q] # None => target'[q] \in Intended(q)[seen'[q]]
      BY <1>3, <2>2 DEF WritersDecided, TypeOK, Procs
    <3>2. QED
      BY <3>1 DEF WritersDecided, Intended, Allowed
  <2>4. CyclesRunOnStartedRuns'
    BY <2>2 DEF CyclesRunOnStartedRuns, TypeOK, Waiting, Procs
  <2>5. CreatedIsAllThatWasSeen'
    BY <2>2 DEF CreatedIsAllThatWasSeen, TypeOK
  <2>6. LeavingCreatedIsStamped' /\ PausedAtTellsThePause'
    BY <2>2 DEF LeavingCreatedIsStamped, PausedAtTellsThePause, Terminal
  <2>7. QED
    BY <2>1, <2>3, <2>4, <2>5, <2>6
<1>4. QED
  BY <1>2, <1>3, LoopMoves

\* A command an operator issues touches nothing but its own call.
LEMMA IssueKeepsInv ==
  ASSUME LifecycleInv, TypeOK', NEW o \in Operators,
         NEW s \in {"running", "paused", "stopped"}, Issue(o, s)
  PROVE  LifecycleInv'
<1>1. /\ target' = [target EXCEPT ![o] = s] /\ seen[o] = None
      /\ UNCHANGED <<status, stamps, phase, seen, prev>>
  BY DEF Issue, LifecycleInv, TypeOK, Procs
<1>2. WritersDecided'
  <2>1. \A q \in Procs : seen'[q] # None => target'[q] \in Intended(q)[seen'[q]]
    BY <1>1 DEF LifecycleInv, WritersDecided, TypeOK
  <2>2. QED
    BY <2>1 DEF WritersDecided, Intended, Allowed
<1>3. /\ CreatedIsAllThatWasSeen' /\ LeavingCreatedIsStamped'
      /\ PausedAtTellsThePause' /\ CyclesRunOnStartedRuns'
  BY <1>1 DEF LifecycleInv, CreatedIsAllThatWasSeen, LeavingCreatedIsStamped,
              PausedAtTellsThePause, CyclesRunOnStartedRuns, Terminal
<1>4. QED
  BY <1>2, <1>3 DEF LifecycleInv

\* The death of a process takes its write with it.
LEMMA KilledKeepsInv ==
  ASSUME LifecycleInv, TypeOK', NEW p \in Procs, Killed(p)
  PROVE  LifecycleInv'
<1>1. PICK there \in {"shell", "exited"} :
        phase' = [phase EXCEPT ![p] = there]
  BY DEF Killed
<1>2. /\ \A q \in Procs : \/ seen'[q] = None /\ prev'[q] = None
                          \/ /\ seen'[q] = seen[q] /\ prev'[q] = prev[q]
                             /\ target'[q] = target[q]
      /\ UNCHANGED <<status, stamps>>
  BY DEF Killed, LifecycleInv, TypeOK
<1>3. WritersDecided'
  <2>1. \A q \in Procs : seen'[q] # None => target'[q] \in Intended(q)[seen'[q]]
    BY <1>2 DEF LifecycleInv, WritersDecided
  <2>2. QED
    BY <2>1 DEF WritersDecided, Intended, Allowed
<1>4. CyclesRunOnStartedRuns'
  BY <1>1, <1>2 DEF LifecycleInv, TypeOK, CyclesRunOnStartedRuns, Procs
<1>5. /\ CreatedIsAllThatWasSeen' /\ LeavingCreatedIsStamped'
      /\ PausedAtTellsThePause'
  BY <1>2 DEF LifecycleInv, CreatedIsAllThatWasSeen, LeavingCreatedIsStamped,
              PausedAtTellsThePause, Terminal
<1>6. QED
  BY <1>3, <1>4, <1>5 DEF LifecycleInv

\* A step that changes nothing keeps the invariant.
LEMMA StutterKeepsInv ==
  ASSUME LifecycleInv, UNCHANGED vars
  PROVE  LifecycleInv'
<1>1. WritersDecided'
  BY DEF LifecycleInv, WritersDecided, Intended, Allowed, vars
<1>2. TypeOK'
  BY DEF LifecycleInv, TypeOK, vars
<1>3. QED
  BY <1>1, <1>2 DEF LifecycleInv, vars, CreatedIsAllThatWasSeen, Terminal,
     LeavingCreatedIsStamped, PausedAtTellsThePause, CyclesRunOnStartedRuns

\* A run as it is created satisfies the invariant.
LEMMA InitEstablishesInv == Init => LifecycleInv
<1> SUFFICES ASSUME Init PROVE LifecycleInv
  OBVIOUS
<1>1. TypeOK
  BY InitEstablishesTypes
<1>2. /\ \A p \in Procs : seen[p] = None /\ prev[p] = None
      /\ \A l \in Loops : phase[l] = "off"
      /\ status = "created" /\ stamps = {}
  BY DEF Init, Procs
<1>3. QED
  BY <1>1, <1>2 DEF LifecycleInv, WritersDecided, CreatedIsAllThatWasSeen,
     LeavingCreatedIsStamped, PausedAtTellsThePause, CyclesRunOnStartedRuns, Terminal

\* Every step keeps the invariant: one case per kind of step.
LEMMA NextKeepsInv ==
  ASSUME LifecycleInv, [Next]_vars
  PROVE  LifecycleInv'
<1>1. TypeOK'
  BY NextKeepsTypes DEF LifecycleInv
<1>2. CASE \E p \in Procs : Call(p) \/ Killed(p)
  BY <1>1, <1>2, CallKeepsInv, KilledKeepsInv
<1>3. CASE \E o \in Operators, s \in {"running", "paused", "stopped"} : Issue(o, s)
  BY <1>1, <1>3, IssueKeepsInv
<1>4. CASE \E l \in Loops : Launch(l) \/ LoopStep(l)
  BY <1>4, LoopKeepsInv
<1>5. CASE Finished \/ UNCHANGED vars
  BY <1>5, StutterKeepsInv DEF Finished
<1>6. QED
  BY <1>2, <1>3, <1>4, <1>5 DEF Next

\* However any number of operators, loops and matrix workers interleave: the row
\* says how the run left "created", paused_at and terminal_reason tell the
\* status apart, no cycle runs on a run that was never started, and every write
\* on the way is one the table allowed when its writer looked.
THEOREM LifecycleIsSafe == Spec => []LifecycleInv
<1>1. Init => LifecycleInv
  BY InitEstablishesInv
<1>2. LifecycleInv /\ [Next]_vars => LifecycleInv'
  BY NextKeepsInv
<1>3. QED
  BY <1>1, <1>2, PTL DEF Spec

\* The row of a run that has left "created" always says how it left.
THEOREM LeavingCreatedIsAlwaysStamped == Spec => []LeavingCreatedIsStamped
BY LifecycleIsSafe, PTL DEF LifecycleInv

\* paused_at and terminal_reason always agree with the status.
THEOREM PausedAtAlwaysTellsThePause == Spec => []PausedAtTellsThePause
BY LifecycleIsSafe, PTL DEF LifecycleInv

\* No loop is ever in a cycle of a run that was never started.
THEOREM CyclesAlwaysRunOnStartedRuns == Spec => []CyclesRunOnStartedRuns
BY LifecycleIsSafe, PTL DEF LifecycleInv

\* An UPDATE that breaks the table of _transition is one whose writer was
\* overtaken: the row no longer held the status it had decided on.
THEOREM TableIsBrokenOnlyByOvertakenWriters ==
  Spec => OnlyOvertakenWritersBreakTheTable
<1> DEFINE A == status' # status =>
                  \E p \in Procs :
                    /\ call[p] = "write" /\ call'[p] = "idle"
                    /\ status' = target[p]
                    /\ seen[p] # status \/ status' \in Intended(p)[status]
<1>1. LifecycleInv /\ [Next]_vars => [A]_vars
  <2> SUFFICES ASSUME LifecycleInv, Next, status' # status
               PROVE  A
    BY DEF vars
  <2>1. ~(\E l \in Loops : Launch(l) \/ LoopStep(l))
    BY LoopMoves DEF LifecycleInv, Goto, StartCall
  <2>2. PICK p \in Procs : Call(p)
    BY <2>1 DEF Next, Issue, Killed, Finished, vars
  <2>3. /\ call[p] = "write" /\ call'[p] = "idle"
        /\ seen[p] # None /\ status' = target[p]
    BY <2>2, CallEffect DEF LifecycleInv
  <2>4. target[p] \in Intended(p)[seen[p]]
    BY <2>3 DEF LifecycleInv, WritersDecided
  <2>5. QED
    BY <2>3, <2>4
<1>2. QED
  BY <1>1, LifecycleIsSafe, PTL DEF Spec, OnlyOvertakenWritersBreakTheTable

-------------------------------------------------------------------------------
(* A run that one process alone drives, as every test of the repository does. *)

\* Nobody overtakes a sole process: what it saw is what the row holds.
SoleInv ==
  /\ LifecycleInv
  /\ \A p \in Procs : seen[p] # None => seen[p] = status
  /\ TerminalIsFinal

\* A step of the sole process's write keeps a terminal status terminal.
LEMMA SoleCallKeepsInv ==
  ASSUME NEW q, Procs = {q}, SoleInv, Call(q)
  PROVE  SoleInv'
<1>1. LifecycleInv'
  BY CallKeepsInv DEF SoleInv
<1>2. CASE /\ UNCHANGED <<status, stamps>>
           /\ seen'[q] = seen[q] \/ seen'[q] = status
  BY <1>1, <1>2 DEF SoleInv, TerminalIsFinal, Terminal
<1>3. CASE /\ seen[q] # None /\ seen'[q] = None
           /\ target[q] \in {"running", "paused", "stopped", "failed"}
           /\ status' = target[q]
           /\ stamps' = StampsAfter(stamps, prev[q], target[q])
  <2>1. target[q] \in Intended(q)[status]
    BY <1>3 DEF SoleInv, LifecycleInv, WritersDecided
  <2>2. status \notin Terminal
    BY <2>1, IntendedTable DEF Terminal
  <2>3. {"stopped_at", "failed_at"} \cap stamps = {}
    BY <2>2 DEF SoleInv, TerminalIsFinal
  <2>4. TerminalIsFinal'
    BY <1>3, <2>3, StampsTable DEF TerminalIsFinal, Terminal
  <2>5. QED
    BY <1>1, <1>3, <2>4 DEF SoleInv
<1>4. QED
  BY <1>2, <1>3, CallEffect DEF SoleInv, LifecycleInv

\* With a single process on the run a stopped or failed run is final, which is
\* what _transition's table promises: the counterexample to TerminalIsFinal
\* needs two of them.
THEOREM SoleProcessKeepsTerminalFinal ==
  ASSUME NEW q, Procs = {q}
  PROVE  Spec => []TerminalIsFinal
<1>1. Init => SoleInv
  <2> SUFFICES ASSUME Init PROVE SoleInv
    OBVIOUS
  <2>1. seen = [p \in Procs |-> None] /\ stamps = {}
    BY DEF Init
  <2>2. QED
    BY <2>1, InitEstablishesInv DEF SoleInv, TerminalIsFinal
<1>2. SoleInv /\ [Next]_vars => SoleInv'
  <2> SUFFICES ASSUME SoleInv, [Next]_vars PROVE SoleInv'
    OBVIOUS
  <2>1. LifecycleInv'
    BY NextKeepsInv DEF SoleInv
  <2>2. CASE \E p \in Procs : Call(p)
    BY <2>2, SoleCallKeepsInv
  <2>3. CASE /\ UNCHANGED <<status, stamps>>
             /\ \A p \in Procs : seen'[p] \in {seen[p], status, None}
    BY <2>1, <2>3 DEF SoleInv, TerminalIsFinal, Terminal
  <2>4. CASE \E l \in Loops : Launch(l) \/ LoopStep(l)
    <3>1. UNCHANGED <<status, stamps>>
      BY <2>4, LoopMoves DEF SoleInv, LifecycleInv, Goto, StartCall
    <3>2. \A p \in Procs : seen'[p] \in {seen[p], status, None}
      BY <2>4, LoopMoves DEF SoleInv, LifecycleInv, TypeOK, Goto, StartCall, locals
    <3>3. QED
      BY <2>3, <3>1, <3>2
  <2>5. CASE \E p \in Procs : Killed(p)
    BY <2>3, <2>5 DEF Killed, SoleInv, LifecycleInv, TypeOK
  <2>6. QED
    BY <2>2, <2>3, <2>4, <2>5 DEF Next, Issue, Finished, vars
<1>3. SoleInv => TerminalIsFinal
  BY DEF SoleInv
<1>4. QED
  BY <1>1, <1>2, <1>3, PTL DEF Spec

\* What a sole process has read, twice, is what the row holds.
ReadsAreCurrent == \A p \in Procs : {seen[p], prev[p]} \subseteq {status, None}

\* A step of a sole process's write is atomic.
LEMMA SoleCallIsAtomic ==
  ASSUME NEW q, Procs = {q}, LifecycleInv, ReadsAreCurrent, Call(q)
  PROVE  /\ ReadsAreCurrent'
         /\ \/ UNCHANGED <<status, stamps>>
            \/ \E p \in Procs : /\ status' \in Intended(p)[status]
                                /\ stamps' = StampsAfter(stamps, status, status')
<1>1. CASE /\ UNCHANGED <<status, stamps>>
           /\ seen'[q] \in {seen[q], status} /\ prev'[q] \in {prev[q], status}
  BY <1>1 DEF ReadsAreCurrent
<1>2. CASE /\ seen[q] # None /\ prev[q] # None
           /\ seen'[q] = None /\ prev'[q] = None
           /\ status' = target[q]
           /\ stamps' = StampsAfter(stamps, prev[q], target[q])
  <2>1. seen[q] = status /\ prev[q] = status
    BY <1>2 DEF ReadsAreCurrent
  <2>2. target[q] \in Intended(q)[status]
    BY <1>2, <2>1 DEF LifecycleInv, WritersDecided
  <2> QED
    BY <1>2, <2>1, <2>2 DEF ReadsAreCurrent
<1> QED
  BY <1>1, <1>2, CallEffect DEF LifecycleInv

\* WritesAreAtomic: with a single process on the run its row goes through the table of
\* _transition, one transaction after another; a kill drops a write or leaves it whole.
THEOREM SoleProcessWritesAtomically ==
  ASSUME NEW q, Procs = {q}
  PROVE  Spec => WritesAreAtomic
<1> DEFINE Atomic == \E p \in Procs : /\ status' \in Intended(p)[status]
                                      /\ stamps' = StampsAfter(stamps, status, status')
<1>1. Init => ReadsAreCurrent
  BY DEF Init, ReadsAreCurrent
<1>2. LifecycleInv /\ ReadsAreCurrent /\ [Next]_vars
        => ReadsAreCurrent' /\ [Atomic]_<<status, stamps>>
  <2> SUFFICES ASSUME LifecycleInv, ReadsAreCurrent, [Next]_vars
               PROVE  ReadsAreCurrent' /\ [Atomic]_<<status, stamps>>
    OBVIOUS
  <2>1. CASE \E p \in Procs : Call(p)
    BY <2>1, SoleCallIsAtomic
  <2>2. CASE /\ UNCHANGED <<status, stamps>>
             /\ \A p \in Procs : /\ seen'[p] \in {seen[p], status, None}
                                 /\ prev'[p] \in {prev[p], None}
    BY <2>2 DEF ReadsAreCurrent
  <2>3. CASE \E l \in Loops : Launch(l) \/ LoopStep(l)
    <3>1. UNCHANGED <<status, stamps, prev>>
      BY <2>3, LoopMoves DEF LifecycleInv, Goto, StartCall, locals
    <3>2. \A p \in Procs : seen'[p] \in {seen[p], status, None}
      BY <2>3, LoopMoves DEF LifecycleInv, TypeOK, Goto, StartCall, locals
    <3> QED
      BY <2>2, <3>1, <3>2
  <2>4. CASE \E p \in Procs : Killed(p)
    BY <2>2, <2>4 DEF Killed, LifecycleInv, TypeOK
  <2> QED
    BY <2>1, <2>2, <2>3, <2>4 DEF Next, Issue, Finished, vars, locals
<1> QED
  BY <1>1, <1>2, LifecycleIsSafe, PTL DEF Spec, WritesAreAtomic

-------------------------------------------------------------------------------
(* The composition and the lifecycle. *)

\* Seen without its routing, a step of a routed run is a step of the lifecycle.
LEMMA RoutedStepIsALifecycleStep ==
  ASSUME [RoutedNext]_routedVars
  PROVE  [Next]_vars
<1>1. CASE RoutedNext
  <2>1. CASE \/ \E w \in Patchers, p \in Requests : CheckPatch(w, p)
             \/ \E w \in Patchers : StorePatch(w) \/ LosePatch(w)
    BY <2>1 DEF CheckPatch, StorePatch, LosePatch
  <2>2. CASE \E l \in Loops : LaunchRouted(l)
    BY <2>2 DEF LaunchRouted, Next
  <2>3. QED
    BY <1>1, <2>1, <2>2 DEF RoutedNext, Next
<1>2. CASE UNCHANGED routedVars
  BY <1>2 DEF routedVars
<1>3. QED
  BY <1>1, <1>2

\* The composition implements RunLifecycle: whatever holds of every lifecycle
\* holds of a run whose routing is patched while it is driven.
THEOREM RoutedRunImplementsLifecycle == RoutedSpec => Spec
<1>1. RoutedInit => Init
  BY DEF RoutedInit
<1>2. [RoutedNext]_routedVars => [Next]_vars
  BY RoutedStepIsALifecycleStep
<1>3. QED
  BY <1>1, <1>2, PTL DEF RoutedSpec, Spec

\* The process of a loop comes with its launch only, and does not come back.
LEMMA LoopsComeAndGo ==
  ASSUME TypeOK, NEW l \in Loops,
         \/ \E p \in Procs : Call(p) \/ Killed(p)
         \/ \E o \in Operators, s \in {"running", "paused", "stopped"} : Issue(o, s)
         \/ \E k \in Loops : LoopStep(k)
  PROVE  /\ phase'[l] = "off" <=> phase[l] = "off"
         /\ phase[l] = "exited" => phase'[l] = "exited"
<1>1. ASSUME NEW p \in Procs, Call(p)
      PROVE  /\ phase'[l] = "off" <=> phase[l] = "off"
             /\ phase[l] = "exited" => phase'[l] = "exited"
  <2>1. CASE p # l
    BY <1>1, <2>1, CallEffect DEF Procs
  <2>2. CASE p = l
    <3>1. phase[l] \in Waiting
      BY <1>1, <2>2 DEF Call, Decide, Reread, Write, TypeOK
    <3>2. CASE Write(p)
      <4>1. PICK next \in LoopPhases \cup {"shell"} :
              Returned(p, next) /\ phase' = [phase EXCEPT ![p] = next]
        BY <3>2 DEF Write
      <4>2. next # "off"
        BY <2>2, <3>1, <4>1 DEF Returned, Waiting
      <4>3. QED
        BY <2>2, <3>1, <4>1, <4>2 DEF TypeOK, Waiting
    <3>3. CASE ~Write(p)
      <4>1. phase'[p] \in {phase[p], "handler", "exited"}
        BY <1>1, <3>3, CallEffect DEF Call, Decide, Reread
      <4>2. QED
        BY <2>2, <3>1, <4>1 DEF Waiting
    <3>4. QED
      BY <3>2, <3>3
  <2>3. QED
    BY <2>1, <2>2
<1>2. ASSUME NEW p \in Procs, Killed(p)
      PROVE  /\ phase'[l] = "off" <=> phase[l] = "off"
             /\ phase[l] = "exited" => phase'[l] = "exited"
  BY <1>2 DEF Killed, TypeOK, Procs
<1>3. ASSUME NEW k \in Loops, LoopStep(k)
      PROVE  /\ phase'[l] = "off" <=> phase[l] = "off"
             /\ phase[l] = "exited" => phase'[l] = "exited"
  <2>1. \E next \in LoopPhases \ {"off"} : phase' = [phase EXCEPT ![k] = next]
    BY <1>3 DEF LoopStep, Gate, Top, LoopEnds, LoopReturns, CycleEnds, CycleRaises,
                Handler, Goto, StartCall, LoopPhases
  <2>2. phase[k] \notin {"off", "exited"}
    BY <1>3 DEF LoopStep, Gate, Top, LoopEnds, CycleEnds, CycleRaises, Handler
  <2>3. QED
    BY <2>1, <2>2 DEF TypeOK, Procs
<1>4. QED
  BY <1>1, <1>2, <1>3 DEF Issue

-------------------------------------------------------------------------------
(* What a routing is made of. *)

\* A reference of the section is a configured backend, absent or refused.
LEMMA ReferenceIsConfigured ==
  ASSUME NEW name
  PROVE  Reference(name) \in Backends \cup {NoBackend, Broken}
BY RoutedAssumption DEF Reference

\* The loaded configuration routes both sides to configured backends.
LEMMA ConfigRouteIsConfigured ==
  ASSUME NEW s \in Sides, NEW k \in Links
  PROVE  /\ ConfigRoute[s][k] \in Backends \cup {NoBackend}
         /\ k = "primary" => ConfigRoute[s][k] # NoBackend
<1>1. ConfigRoute[s][k] \in Backends \cup {NoBackend, Broken}
  <2>1. CASE SharedForm
    <3>1. ConfigRoute[s][k] = Or(Reference(Section.override[s][k]),
                                 Reference(Section.default[k]))
      BY <2>1 DEF ConfigRoute
    <3>2. QED
      BY <3>1, ReferenceIsConfigured DEF Or
  <2>2. CASE ~SharedForm
    <3>1. ConfigRoute[s][k] = Reference(Section.legacy[s][k])
      BY <2>2 DEF ConfigRoute
    <3>2. QED
      BY <3>1, ReferenceIsConfigured
  <2>3. QED
    BY <2>1, <2>2
<1>2. ConfigRoute[s][k] # Broken /\ ConfigRoute[s]["primary"] # NoBackend
  BY RoutedAssumption DEF ConfigLoads
<1>3. QED
  BY <1>1, <1>2

\* A field of a request that resolves is what it defines, a configured backend or
\* the default it is given.
LEMMA SelectedFrom ==
  ASSUME NEW p, NEW f \in Fields, NEW default, Selected(p, f, default) # Broken
  PROVE  /\ \/ Selected(p, f, default) = AdhocName[f] /\ p.adhoc[f] # NoBackend
            \/ Selected(p, f, default) \in Backends
            \/ Selected(p, f, default) = default
         /\ f[2] = "primary" => Selected(p, f, default) # NoBackend
<1>1. AdhocName[f] # NoBackend /\ NoBackend \notin Backends
  BY RoutedAssumption DEF Named, Adhoc
<1>2. ASSUME NEW name, Listed(name) # Broken PROVE Listed(name) \in Backends
  BY <1>2, RoutedAssumption DEF Listed
<1>3. QED
  BY <1>1, <1>2 DEF Selected

\* A link of a request that resolves names a configured backend or one that the
\* request defines; only a fallback may be missing.
LEMMA RequestedLink ==
  ASSUME NEW p, ~RequestRaises(p), NEW s \in Sides, NEW k \in Links
  PROVE  LET r == RequestedRoute(p)[s][k]
         IN  /\ r \in Backends \cup Requested(p).scoped \cup {NoBackend}
             /\ k = "primary" => r # NoBackend
<1> DEFINE Defined == Requested(p).scoped
<1>1. \A f \in Consulted(p) : p.adhoc[f] # NoBackend => AdhocName[f] \in Defined
  BY DEF Requested
<1>2. /\ Shared(p)[k] \in Backends \cup Defined \cup {NoBackend}
      /\ k = "primary" => Shared(p)[k] # NoBackend
  <2>1. <<"both", k>> \in Consulted(p) /\ <<"both", k>>[2] = k
    BY DEF Consulted, Fields, Sides
  <2>2. Shared(p)[k] = Selected(p, <<"both", k>>, ConfigRoute["red"][k])
    BY DEF Shared
  <2>3. Shared(p)[k] # Broken
    BY DEF RequestRaises
  <2>4. QED
    BY <1>1, <2>1, <2>2, <2>3, SelectedFrom, ConfigRouteIsConfigured
    DEF Consulted, Sides
<1>3. CASE p.same
  BY <1>2, <1>3 DEF RequestedRoute
<1>4. CASE ~p.same
  <2>1. <<s, k>> \in Consulted(p) /\ <<s, k>>[2] = k
    BY <1>4 DEF Consulted, Fields, Sides
  <2>2. RequestedRoute(p)[s][k] = Selected(p, <<s, k>>, Shared(p)[k])
    BY <1>4 DEF RequestedRoute
  <2>3. RequestedRoute(p)[s][k] # Broken
    BY DEF RequestRaises
  <2>4. QED
    BY <1>1, <1>2, <2>1, <2>2, <2>3, SelectedFrom DEF Consulted
<1>5. QED
  BY <1>3, <1>4

\* What a request that resolves stores has its type, and a registry built from it
\* serves it.
LEMMA RequestedIsServed ==
  ASSUME NEW p, ~RequestRaises(p)
  PROVE  Requested(p) \in Routings /\ Served(Requested(p))
<1> DEFINE r == RequestedRoute(p)
<1>1. Requested(p).route = r /\ Requested(p).scoped \subseteq Adhoc
  BY DEF Requested, Consulted, Adhoc
<1>2. Requested(p) = [route |-> r, scoped |-> Requested(p).scoped]
  BY DEF Requested
<1>3. r \in Routes
  <2>1. r = [s \in Sides |-> [k \in Links |-> r[s][k]]]
    BY DEF RequestedRoute, Shared
  <2>2. \A s \in Sides, k \in Links : r[s][k] \in Named \cup {NoBackend}
    BY <1>1, RequestedLink DEF Named
  <2>3. \A s \in Sides : r[s]["primary"] # NoBackend
    BY RequestedLink DEF Links
  <2>4. r \in [Sides -> [Links -> Named \cup {NoBackend}]]
    BY <2>1, <2>2
  <2>5. QED
    BY <2>3, <2>4 DEF Routes
<1>4. Served(Requested(p))
  BY <1>1, RequestedLink DEF Served, Chain, Adapters
<1>5. QED
  BY <1>1, <1>2, <1>3, <1>4 DEF Routings

\* So do the configured routing and that of a matrix case.
LEMMA ConfiguredIsServed ==
  /\ ConfigRouting \in Routings /\ Served(ConfigRouting)
  /\ CaseRouting \in Routings /\ Served(CaseRouting)
<1>1. ConfigRoute \in Routes
  <2>1. ConfigRoute = [s \in Sides |-> [k \in Links |-> ConfigRoute[s][k]]]
    BY DEF ConfigRoute
  <2>2. ConfigRoute \in [Sides -> [Links -> Named \cup {NoBackend}]]
    BY <2>1, ConfigRouteIsConfigured DEF Named
  <2>3. QED
    BY <2>2, ConfigRouteIsConfigured DEF Routes, Links
<1>2. CaseRouting.route \in Routes
  <2>1. \A s \in Sides : /\ Case[s] \in Named /\ Case[s] # NoBackend
                        /\ ConfigRoute[s]["fallback"] \in Named \cup {NoBackend}
    BY RoutedAssumption, ConfigRouteIsConfigured DEF Named, Links
  <2>2. CaseRouting.route =
          [s \in Sides |-> [k \in Links |-> IF k = "primary" THEN Case[s]
                                          ELSE ConfigRoute[s]["fallback"]]]
    BY DEF CaseRouting
  <2>3. CaseRouting.route \in [Sides -> [Links -> Named \cup {NoBackend}]]
    BY <2>1, <2>2
  <2>4. \A s \in Sides : CaseRouting.route[s]["primary"] # NoBackend
    BY <2>1, <2>2 DEF Links
  <2>5. QED
    BY <2>3, <2>4 DEF Routes
<1>3. Served(ConfigRouting)
  BY ConfigRouteIsConfigured DEF Served, Chain, Adapters, ConfigRouting
<1>4. Served(CaseRouting)
  <2>1. \A s \in Sides, k \in Links :
          CaseRouting.route[s][k] \in Backends \cup {NoBackend}
    BY RoutedAssumption, ConfigRouteIsConfigured DEF CaseRouting, Links
  <2>2. QED
    BY <2>1 DEF Served, Chain, Adapters
<1>5. QED
  BY <1>1, <1>2, <1>3, <1>4 DEF Routings, ConfigRouting, CaseRouting

-------------------------------------------------------------------------------
(* Safety of the composition. *)

\* What makes the types and the service of every chain inductive: the row and the
\* patches on their way are as well formed as what a driver has read.
RoutingInv ==
  /\ RoutedTypeOK
  /\ Served(routing)
  /\ \A w \in Patchers : patch[w] # None => Served(patch[w])
  /\ EveryChainIsServed

\* A run as it is created, whoever creates it.
LEMMA RoutedInitEstablishesInv == RoutedInit => RoutingInv
<1> SUFFICES ASSUME RoutedInit PROVE RoutingInv
  OBVIOUS
<1>1. routing \in Routings /\ Served(routing)
  BY RequestedIsServed, ConfiguredIsServed DEF RoutedInit, FirstRoutings
<1>2. TypeOK
  BY InitEstablishesTypes DEF RoutedInit
<1>3. /\ patch = [w \in Patchers |-> None]
      /\ registry = [l \in Loops |-> None]
      /\ \A l \in Loops : phase[l] = "off"
      /\ patches \in 0..MaxPatches
  BY RoutedAssumption DEF RoutedInit, Init, Procs
<1>4. QED
  BY <1>1, <1>2, <1>3 DEF RoutingInv, RoutedTypeOK, EveryChainIsServed

\* A driver that is launched takes what the row or its case holds.
LEMMA LaunchKeepsInv ==
  ASSUME RoutingInv, TypeOK', NEW l \in Loops, LaunchRouted(l)
  PROVE  RoutingInv'
<1> DEFINE taken == IF l \in MatrixLoops THEN CaseRouting ELSE routing
<1>1. taken \in Routings /\ Served(taken) /\ taken # None
  BY ConfiguredIsServed, RoutedAssumption DEF RoutingInv, RoutedTypeOK
<1>2. /\ registry' = [registry EXCEPT ![l] = taken]
      /\ UNCHANGED <<routing, patch, patches>>
  BY DEF LaunchRouted
<1>3. PICK next \in {"top", "handler", "gate"} : phase' = [phase EXCEPT ![l] = next]
  BY DEF LaunchRouted, Launch, Goto
<1>4. RoutedTypeOK'
  BY <1>1, <1>2, <1>3 DEF RoutingInv, RoutedTypeOK, TypeOK, Procs
<1>5. QED
  BY <1>1, <1>2, <1>4 DEF RoutingInv, RoutedTypeOK, EveryChainIsServed, Served, Chain, Adapters

\* A patch, at each of its steps, only moves a routing that resolved.
LEMMA PatchKeepsInv ==
  ASSUME RoutingInv, NEW w \in Patchers,
         \/ \E p \in Requests : CheckPatch(w, p)
         \/ StorePatch(w)
         \/ LosePatch(w)
  PROVE  RoutingInv'
<1>1. TypeOK'
  BY DEF CheckPatch, StorePatch, LosePatch, RoutingInv, RoutedTypeOK, TypeOK, vars, locals
<1>2. CASE \E p \in Requests : CheckPatch(w, p)
  <2>1. PICK p \in Requests : CheckPatch(w, p)
    BY <1>2
  <2>2. /\ patches' \in 0..MaxPatches
        /\ UNCHANGED <<phase, routing, registry>>
    BY <2>1, RoutedAssumption DEF CheckPatch, RoutingInv, RoutedTypeOK, vars
  <2>3. \/ UNCHANGED patch
        \/ ~RequestRaises(p) /\ patch' = [patch EXCEPT ![w] = Requested(p)]
    BY <2>1 DEF CheckPatch
  <2>4. QED
    BY <1>1, <2>2, <2>3, RequestedIsServed
    DEF RoutingInv, RoutedTypeOK, EveryChainIsServed, Served, Chain, Adapters
<1>3. CASE StorePatch(w)
  <2>1. /\ patch[w] \in Routings /\ Served(patch[w])
        /\ routing' = patch[w] /\ patch' = [patch EXCEPT ![w] = None]
        /\ UNCHANGED <<phase, registry, patches>>
    BY <1>3 DEF StorePatch, RoutingInv, RoutedTypeOK, vars
  <2>2. QED
    BY <1>1, <2>1 DEF RoutingInv, RoutedTypeOK, EveryChainIsServed, Served, Chain, Adapters
<1>4. CASE LosePatch(w)
  <2>1. /\ patch' = [patch EXCEPT ![w] = None]
        /\ UNCHANGED <<phase, routing, registry, patches>>
    BY <1>4 DEF LosePatch, vars
  <2>2. QED
    BY <1>1, <2>1 DEF RoutingInv, RoutedTypeOK, EveryChainIsServed, Served, Chain, Adapters
<1>5. QED
  BY <1>2, <1>3, <1>4

\* A step of the lifecycle may only close a registry.
LEMMA LifecycleStepKeepsInv ==
  ASSUME RoutingInv, TypeOK', RegistriesClose, UNCHANGED <<routing, patch, patches>>,
         \A l \in Loops : /\ phase'[l] = "off" <=> phase[l] = "off"
                          /\ phase[l] = "exited" => phase'[l] = "exited"
  PROVE  RoutingInv'
<1>1. \A l \in Loops : registry'[l] = IF phase'[l] = "exited" THEN None ELSE registry[l]
  BY DEF RegistriesClose
<1>2. registry' \in [Loops -> Routings \cup {None}]
  BY DEF RegistriesClose, RoutingInv, RoutedTypeOK
<1>3. RoutedTypeOK'
  BY <1>1, <1>2 DEF RoutingInv, RoutedTypeOK
<1>4. QED
  BY <1>1, <1>3 DEF RoutingInv, EveryChainIsServed, Served, Chain, Adapters

\* Every step keeps the invariant.
LEMMA RoutedNextKeepsInv ==
  ASSUME RoutingInv, [RoutedNext]_routedVars
  PROVE  RoutingInv'
<1>1. TypeOK /\ TypeOK'
  BY RoutedStepIsALifecycleStep, NextKeepsTypes DEF RoutingInv, RoutedTypeOK
<1>2. CASE /\ \/ \E p \in Procs : Call(p) \/ Killed(p)
              \/ \E o \in Operators, s \in {"running", "paused", "stopped"} : Issue(o, s)
              \/ \E l \in Loops : LoopStep(l)
           /\ RegistriesClose
           /\ UNCHANGED <<routing, patch, patches>>
  BY <1>1, <1>2, LoopsComeAndGo, LifecycleStepKeepsInv
<1>3. CASE \E l \in Loops : LaunchRouted(l)
  BY <1>1, <1>3, LaunchKeepsInv
<1>4. CASE \/ \E w \in Patchers, p \in Requests : CheckPatch(w, p)
           \/ \E w \in Patchers : StorePatch(w) \/ LosePatch(w)
  BY <1>4, PatchKeepsInv
<1>5. CASE UNCHANGED routedVars
  BY <1>1, <1>5 DEF routedVars, routingVars, vars, RoutingInv, RoutedTypeOK,
     EveryChainIsServed, Served, Chain, Adapters
<1>6. QED
  BY <1>2, <1>3, <1>4, <1>5 DEF RoutedNext, Finished, routedVars

\* Whoever creates, patches and drives the run, and whenever they die.
THEOREM RoutingIsSafe == RoutedSpec => []RoutingInv
<1>1. RoutedInit => RoutingInv
  BY RoutedInitEstablishesInv
<1>2. RoutingInv /\ [RoutedNext]_routedVars => RoutingInv'
  BY RoutedNextKeepsInv
<1>3. QED
  BY <1>1, <1>2, PTL DEF RoutedSpec

\* The types of the composition.
THEOREM RoutedTypesAreCorrect == RoutedSpec => []RoutedTypeOK
BY RoutingIsSafe, PTL DEF RoutingInv

\* A driver never asks a backend that its registry does not hold.
THEOREM EveryChainIsAlwaysServed == RoutedSpec => []EveryChainIsServed
BY RoutingIsSafe, PTL DEF RoutingInv

\* The lifecycle never comes back to "created": the status a patch wants.
LEMMA CreatedIsLeftForGood ==
  ASSUME LifecycleInv, [Next]_vars, status # "created"
  PROVE  status' # "created"
<1>1. CASE \E p \in Procs : Call(p)
  BY <1>1, CallEffect DEF LifecycleInv
<1>2. CASE \E l \in Loops : Launch(l) \/ LoopStep(l)
  BY <1>2, LoopMoves DEF LifecycleInv, Goto, StartCall
<1>3. QED
  BY <1>1, <1>2 DEF Next, Killed, Issue, Finished, vars

\* Once the run has started and no patch is on its way, its routing is final.
THEOREM RoutingAlwaysSettles == RoutedSpec => RoutingSettles
<1>1. LifecycleInv /\ [RoutedNext]_routedVars
        => [Settled => Settled' /\ routing' = routing]_routedVars
  <2> SUFFICES ASSUME LifecycleInv, RoutedNext, Settled
               PROVE  Settled' /\ routing' = routing
    OBVIOUS
  <2>1. status' # "created"
    BY RoutedStepIsALifecycleStep, CreatedIsLeftForGood DEF Settled
  <2>2. UNCHANGED <<routing, patch>>
    BY DEF Settled, RoutedNext, LaunchRouted, CheckPatch, StorePatch, LosePatch,
           routingVars
  <2>3. QED
    BY <2>1, <2>2 DEF Settled
<1>2. RoutedSpec => []LifecycleInv
  BY RoutedRunImplementsLifecycle, LifecycleIsSafe
<1>3. QED
  BY <1>1, <1>2, PTL DEF RoutedSpec, RoutingSettles
===============================================================================
