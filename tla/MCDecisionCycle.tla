---------------------------- MODULE MCDecisionCycle ----------------------------
(***************************************************************************)
(* A live and a dry driver on one run.  Red asks a twice, in vain, then b    *)
(* once; blue asks c once.                                                   *)
(***************************************************************************)
EXTENDS DecisionCycle

Attempts == [b \in Backends |-> IF b = "a" THEN 1 ELSE 0]

Kinds ==
  [b \in Backends |-> CASE b = "a" -> {"bad"}
                        [] b = "b" -> {"good", "silent"}
                        [] b = "c" -> {"good", "alien"}]

Route(primary, fallback) == [primary |-> primary, fallback |-> fallback]

RunRoutings ==
  {[s \in Sides |-> IF s = "red" THEN Route("a", "b") ELSE Route("c", None)]}
===============================================================================
