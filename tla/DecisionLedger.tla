---------------------------- MODULE DecisionLedger -----------------------------
(***************************************************************************)
(* What the rows of a run's decisions promise to whoever reads them later:    *)
(* verdicts and invocations are only ever added, each true of the rows that are *)
(* there before it; an execution is opened once for an invocation and then only *)
(* moves on; and a cycle cites rows that stay as they are.                     *)
(***************************************************************************)
EXTENDS Integers, Sequences

CONSTANTS
  Coalitions,
  Numbers,    \* of cycles
  NoRow

VARIABLES
  judged,     \* the coalitions the verdicts are about
  asked,      \* the invocations
  executed,   \* the executions
  recorded    \* the cycles

LedgerInit ==
  /\ judged = <<>>
  /\ asked = <<>>
  /\ executed = <<>>
  /\ recorded = [c \in Numbers |-> NoRow]

\* One row more; those before it stay.
Adds(table) ==
  /\ Len(table') = Len(table) + 1
  /\ \A n \in DOMAIN table : table'[n] = table[n]

Newest(table) == table[Len(table)]

About(s) == {v \in DOMAIN judged : judged[v] = s}

SaveVerdict ==
  /\ Adds(judged)
  /\ Newest(judged)' \in Coalitions
  /\ UNCHANGED <<asked, executed, recorded>>

\* An invocation that succeeded has a verdict of its own, about its coalition.
SaveInvocation ==
  /\ Adds(asked)
  /\ LET i == Newest(asked)' IN
     /\ i.status = "succeeded" <=> i.verdict # 0
     /\ i.verdict # 0 => /\ i.verdict \in About(i.side)
                         /\ \A n \in DOMAIN asked : asked[n].verdict # i.verdict
  /\ UNCHANGED <<judged, executed, recorded>>

\* An answered invocation is executed once, with its verdict or a later one about its
\* coalition.
OpenExecution ==
  /\ Adds(executed)
  /\ LET x == Newest(executed)' IN
     /\ x.invocation \in DOMAIN asked
     /\ asked[x.invocation].verdict # 0
     /\ \A n \in DOMAIN executed : executed[n].invocation # x.invocation
     /\ x.verdict \in About(asked[x.invocation].side)
     /\ asked[x.invocation].verdict <= x.verdict
     /\ x.state = "pending"
  /\ UNCHANGED <<judged, asked, recorded>>

Follows(now, next) ==
  <<now, next>> \in {<<"pending", "in_flight">>,
                     <<"in_flight", "completed">>, <<"in_flight", "aborted">>}

\* An execution moves on and stays the execution of its invocation and verdict.
MoveExecution ==
  /\ \E n \in DOMAIN executed :
       /\ executed' = [executed EXCEPT ![n] = executed'[n]]
       /\ executed'[n].invocation = executed[n].invocation
       /\ executed'[n].verdict = executed[n].verdict
       /\ Follows(executed[n].state, executed'[n].state)
  /\ UNCHANGED <<judged, asked, recorded>>

\* A cycle cites an invocation of each coalition made for it, and its completed execution.
Cites(c, row) ==
  \A s \in Coalitions :
    /\ row.cited[s] \in DOMAIN asked
    /\ asked[row.cited[s]].side = s /\ asked[row.cited[s]].cycle = c
    /\ row.done[s] # 0 => /\ row.done[s] \in DOMAIN executed
                          /\ executed[row.done[s]].invocation = row.cited[s]
                          /\ executed[row.done[s]].state = "completed"

\* A cycle that is driven twice is recorded twice, and the second row replaces the first.
SaveCycle ==
  /\ \E c \in Numbers : /\ recorded'[c] # NoRow
                        /\ recorded' = [recorded EXCEPT ![c] = recorded'[c]]
                        /\ Cites(c, recorded'[c])
  /\ UNCHANGED <<judged, asked, executed>>

LedgerNext ==
  SaveVerdict \/ SaveInvocation \/ OpenExecution \/ MoveExecution \/ SaveCycle

LedgerSpec == LedgerInit /\ [][LedgerNext]_<<judged, asked, executed, recorded>>
===============================================================================
