--------------------------- MODULE MCActionValidator ---------------------------
(***************************************************************************)
(* Batches of up to three actions on the small front, on contexts that       *)
(* differ in what each stage looks at.                                       *)
(***************************************************************************)
EXTENDS ActionValidator, SmallFront

AtRest ==
  [budget   |-> 5,
   reserves |-> FrontReserves,
   rows     |-> FrontUnits \ {"fresh1", "fresh2"},
   place    |-> [u \in FrontUnits |-> CASE u \in {"armor", "scouts", "lost"} -> "west"
                                        [] u = "battery" -> "bridge"
                                        [] OTHER -> "mid"],
   world    |-> [u \in FrontUnits |-> None],
   hostile  |-> {},
   shown    |-> [depot |-> "friendly", bridge |-> "contested"]]

FrontViews ==
  {AtRest,
   [AtRest EXCEPT !.budget = 4],
   [AtRest EXCEPT !.budget = 1],
   [AtRest EXCEPT !.reserves = {"res1"}],
   [AtRest EXCEPT !.rows = @ \ {"scouts"}],
   [AtRest EXCEPT !.place["armor"] = None],
   [AtRest EXCEPT !.world["armor"] = "east"],
   [AtRest EXCEPT !.hostile = {"armor"}],
   [AtRest EXCEPT !.place["battery"] = "mid"],
   [AtRest EXCEPT !.shown["bridge"] = "unowned"]}

Deploy(r, s, role) == [type |-> "deploy", reserve |-> r, sector |-> s, role |-> role]
Reinforce(p, us)   == [type |-> "reinforce", point |-> p, groups |-> us]
Move(t, u, to)     == [type |-> t, group |-> u, to |-> to]

FrontLevels == {"high", "low"}
FrontMenu ==
  {Deploy("res1", "mid", "fires"), Deploy("res1", "nowhere", "support"),
   Deploy("res1", "west", "support"), Deploy("res2", "west", "fires"),
   Move("reposition", "armor", "ridge"), Move("withdraw", "armor", "depot"),
   Move("reposition", "scouts", "bridge"), Move("reposition", "battery", "mid"),
   [type |-> "posture", group |-> "armor", posture |-> "screening"],
   [type |-> "posture", group |-> "foe", posture |-> "screening"],
   Reinforce("bridge", <<"scouts", "armor">>), Reinforce("bridge", <<"armor", "armor">>),
   Reinforce("bridge", <<"battery">>),
   [type |-> "priority", sector |-> "mid", level |-> "high"],
   [type |-> "priority", sector |-> "mid", level |-> "low"],
   [type |-> "hold", scope |-> "group", at |-> "armor"],
   [type |-> "malformed"]}
===============================================================================
