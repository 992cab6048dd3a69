---------------------------- MODULE MCRunLifecycle ----------------------------
\* Two operator sessions, one CLI loop and one matrix loop on the same run, and
\* one web UI request that patches its routing.  A catalog entry names an
\* enabled backend, and one that is disabled a backend that is not.
EXTENDS RoutedRun

MCCatalog ==
  [local  |-> [backend |-> "b1", enabled |-> TRUE],
   hosted |-> [backend |-> "b3", enabled |-> FALSE]]

Nothing == [k \in Links |-> NoBackend]

MCSection ==
  [default  |-> [primary |-> "local", fallback |-> "b2"],
   override |-> [s \in Sides |-> Nothing],
   legacy   |-> [s \in Sides |-> Nothing]]

MCCase == [s \in Sides |-> IF s = "red" THEN "b1" ELSE "b2"]

MCAdhocName ==
  [f \in Fields |->
     CASE f = <<"both", "primary">>  -> "adhoc_shared_primary"
       [] f = <<"both", "fallback">> -> "adhoc_shared_fallback"
       [] f = <<"red", "primary">>   -> "adhoc_red_primary"
       [] f = <<"red", "fallback">>  -> "adhoc_red_fallback"
       [] f = <<"blue", "primary">>  -> "adhoc_blue_primary"
       [] f = <<"blue", "fallback">> -> "adhoc_blue_fallback"]

Request(same, picked, defined) ==
  [same  |-> same,
   pick  |-> [f \in Fields |-> IF f \in DOMAIN picked THEN picked[f] ELSE NoBackend],
   adhoc |-> [f \in Fields |-> IF f \in DOMAIN defined THEN defined[f] ELSE NoBackend]]

NoField == [f \in {} |-> NoBackend]

\* A shared ad-hoc fallback and a backend of its own for blue; a catalog entry
\* that is disabled; an ad-hoc backend that is not well formed.
MCRequests ==
  {Request(FALSE, [f \in {<<"red", "primary">>} |-> "local"],
           [f \in {<<"both", "fallback">>, <<"blue", "primary">>} |-> "valid"]),
   Request(TRUE, [f \in {<<"both", "primary">>} |-> "hosted"], NoField),
   Request(FALSE, NoField, [f \in {<<"red", "fallback">>} |-> "invalid"])}
===============================================================================
