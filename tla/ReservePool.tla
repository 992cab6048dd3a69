------------------------------ MODULE ReservePool ------------------------------
(***************************************************************************)
(* What the live loop promises of the reserves of a coalition: they are       *)
(* bought one at a time, each once, at its price, and what is bought is what  *)
(* is deployed.                                                               *)
(***************************************************************************)
EXTENDS Integers

CONSTANTS
  Pool,     \* the reserve groups of the coalition
  Price,    \* of each of them
  Funds0    \* the budget the coalition starts with

VARIABLES
  funds,
  available,
  deployed

PoolInit ==
  /\ funds = Funds0
  /\ available = Pool
  /\ deployed = {}

\* The funds may run out: each action of a batch is checked against the whole budget.
Deploy(r) ==
  /\ r \in available
  /\ funds' = funds - Price[r]
  /\ available' = available \ {r}
  /\ deployed' = deployed \cup {r}

PoolNext == \E r \in Pool : Deploy(r)

PoolSpec == PoolInit /\ [][PoolNext]_<<funds, available, deployed>>
===============================================================================
