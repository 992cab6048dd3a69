--------------------------- MODULE MCScenarioStudio ---------------------------
\* Two sessions edit, save, delete and play two scenarios, one of them shipped.
EXTENDS ScenarioStudio, TLC

Sector(id, neighbors) == [id |-> id, neighbors |-> neighbors]
Side(id) == [id |-> id]

Reserve(id, allowed, available) ==
  [id |-> id, coalition |-> "red", allowed |-> allowed, available |-> available]

\* A scenario as it is shipped.
Base ==
  [summary        |-> "shipped",
   malformed      |-> {},
   sectors        |-> {Sector("north", {"south"}), Sector("south", {"north"})},
   control_points |-> {[id |-> "town", sector |-> "south", owner |-> Absent]},
   coalitions     |-> {Side("red"), Side("blue")},
   active_groups  |-> {[id |-> "g1", coalition |-> "red", posture |-> "hold",
                        sector |-> "north"]},
   reserve_groups |-> {Reserve("r1", {"north"}, TRUE)},
   zones          |-> {[id |-> "z1", sector |-> "south"]},
   restrictions   |-> {[id |-> "d1", coalition |-> Absent]}]

\* Edits: one that leaves a default out, a reserve allowed in a sector that is not
\* there, a coalition nobody knows, a sector given twice, a summary of two lines.
Edited   == [Base EXCEPT !.summary = "edited",
                         !.reserve_groups = {Reserve("r1", {"south"}, Absent)}]
Dangling == [Base EXCEPT !.reserve_groups = {Reserve("r1", {"west"}, TRUE)}]
Foreign  == [Base EXCEPT !.control_points =
               {[id |-> "town", sector |-> "south", owner |-> "green"]}]
Twice    == [Base EXCEPT !.sectors = @ \cup {Sector("south", {})}]
Lines    == [Base EXCEPT !.summary = "two lines"]

MCPayloads ==
  LET sent == {Base, Edited, Dangling, Foreign, Twice, Lines}
  IN  sent \cup {Definition(raw) : raw \in sent}

MCNames == {"north", "south", "west", "town", "red", "blue", "green", "hold",
            "g1", "r1", "z1", "d1"}
MCTexts == {raw.summary : raw \in MCPayloads}

MCShipped == [id \in {"base"} |-> Base]

Ask(op, draft, id, scenario, overwrite) ==
  [op |-> op, draft |-> draft, id |-> id, scenario |-> scenario,
   label |-> IF op = "rename" THEN "renamed" ELSE "draft", overwrite |-> overwrite]

MCRequests ==
  {Ask(op, None, id, Base, FALSE) : op \in {"create", "run"}, id \in Ids} \cup
  {Ask(op, d, "base", Base, FALSE) : op \in {"rename", "duplicate", "revert"}, d \in Drafts} \cup
  {Ask("update", d, "base", raw, FALSE) :
     d \in Drafts, raw \in {Edited, Dangling, Foreign, Twice, Lines}} \cup
  {Ask("save", d, id, Base, ow) : d \in Drafts, id \in Ids, ow \in BOOLEAN}

Symmetry == Permutations(Sessions) \cup Permutations(Drafts)
===============================================================================
