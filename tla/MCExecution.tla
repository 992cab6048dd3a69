------------------------------ MODULE MCExecution ------------------------------
(***************************************************************************)
(* Payloads of one and two actions on the small front.                       *)
(***************************************************************************)
EXTENDS Execution, SmallFront

FrontHome ==
  [u \in FrontUnits |-> CASE u \in {"armor", "scouts", "lost"} -> "west"
                          [] u = "battery" -> "bridge"
                          [] u = "foe" -> "mid"
                          [] OTHER -> None]
FrontShown == [depot |-> "friendly", bridge |-> "contested"]

Deploy(r, s)     == [type |-> "deploy", reserve |-> r, sector |-> s, role |-> "support"]
Reinforce(p, us) == [type |-> "reinforce", point |-> p, groups |-> us]
Move(t, u, to)   == [type |-> t, group |-> u, to |-> to]
Posture(u, p)    == [type |-> "posture", group |-> u, posture |-> p]
Priority(s, l)   == [type |-> "priority", sector |-> s, level |-> l]

Forward == <<Move("reposition", "armor", "ridge")>>
Back    == <<Move("withdraw", "armor", "depot")>>

FrontBatches ==
  {Forward, Back,
   <<Deploy("res1", "mid"), Move("reposition", "fresh1", "bridge")>>,
   <<Deploy("res2", "west"), Posture("armor", "screening")>>,
   <<Reinforce("bridge", <<"scouts", "armor", "scouts">>), Priority("mid", "high")>>,
   <<Move("reposition", "fresh1", "bridge"), [type |-> "hold", scope |-> "none", at |-> None]>>}

ThereAndBack == {Forward, Back}
===============================================================================
