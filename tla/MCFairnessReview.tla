--------------------------- MODULE MCFairnessReview ---------------------------
\* A run that has decided twice about one cycle, and may do so once more, is evaluated and
\* reviewed by two commands at a time.
EXTENDS FairnessReview, TLC

Contact(sector, low, stale) == [sector |-> sector, low |-> low, stale |-> stale]

Result(id, type, verdict, code, aim, place, group) ==
  [id |-> id, type |-> type, status |-> verdict, code |-> code, aim |-> aim,
   place |-> place, group |-> group]

Use(id, type, aim, place, group) == Result(id, type, "accepted", None, aim, place, group)

Decision(coalition, cycle, contacts, threats, acts) ==
  [obs   |-> [coalition |-> coalition, cycle |-> cycle, contacts |-> contacts,
              threats |-> threats, friends |-> [g \in {"g1"} |-> "west"]],
   batch |-> [coalition |-> coalition, cycle |-> cycle, results |-> acts]]

\* A reaction to a contact that was doubtful when it was decided; and, of the same cycle,
\* two more, one of them with the same id, and a move out of a sector that may hold an
\* unseen enemy, upon an observation that shows nothing.
Rush ==
  Decision("red", 2, {Contact("north", FALSE, TRUE)}, {"south"},
           {Use("a1", "set_sector_priority", "zone", "ridge", None)})

Retreat ==
  Decision("red", 2, {}, {"south"},
           {Use("a1", "set_sector_priority", "zone", "ridge", None),
            Use("a2", "reposition_group", "sector", "east", "g1"),
            Use("a3", "deploy_reserve_group", "control_point", "hill", None),
            Result("a4", "reposition_group", "rejected", "schema", "sector", "north", "g1")})

MCDecisions == {Rush, Retreat}
MCBegun == <<Rush, Rush>>

\* An enemy moves from west to north, and another one stays in south.
MCWorlds == <<[c \in Coalitions |-> {"south", "west"}], [c \in Coalitions |-> {"south", "north"}]>>

\* A run that stands still, decided twice about one cycle.
StillDecisions == {Rush}
StillWorlds    == <<[c \in Coalitions |-> {"south", "west"}]>>

MCPoints == [p \in {"hill"} |-> "north"]
MCZones  == [z \in {"ridge"} |-> "north"]
MCReserves == [c \in Coalitions |-> 1]

Symmetry == Permutations(Sessions)
===============================================================================
