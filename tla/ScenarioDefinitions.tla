-------------------------- MODULE ScenarioDefinitions --------------------------
(***************************************************************************)
(* Authored scenarios: what load_scenario_definition_data accepts, what a     *)
(* saved file or registry holds when it is read back, and what a run can be   *)
(* seeded from.  A table is a set of rows; of a row the fields that refer to  *)
(* another row are kept, and whether a row is malformed (a field is missing   *)
(* or has the wrong type) is a fact about its table.                          *)
(***************************************************************************)
EXTENDS Naturals

CONSTANTS
  Coalitions,   \* the values of the enum Coalition
  Postures,     \* the values of the enum GroupPosture
  Names,        \* ids of sectors, groups, coalitions ... and what a field may hold
  Texts,        \* summaries
  LineBreaks,   \* summaries that hold a line break or another control character
  Absent,       \* a field that is not given
  Missing,      \* what reading a file that does not exist gives,
  Empty,        \* one that was cut and not filled,
  Garbled       \* one that is no TOML

\* The tables in the order in which they are parsed.
Tables == <<"sectors", "control_points", "coalitions", "active_groups",
            "reserve_groups", "zones", "restrictions">>

Required == {"sectors", "control_points", "coalitions"}

\* A payload, as a draft or a file may hold it.
RawScenario ==
  [summary        : Texts \cup {Absent},
   malformed      : SUBSET {Tables[n] : n \in DOMAIN Tables},
   sectors        : SUBSET [id : Names, neighbors : SUBSET Names],
   control_points : SUBSET [id : Names, sector : Names, owner : Names \cup {Absent}],
   coalitions     : SUBSET [id : Names],
   active_groups  : SUBSET [id : Names, coalition : Names, posture : Names,
                            sector : Names \cup {Absent}],
   reserve_groups : SUBSET [id : Names, coalition : Names, allowed : SUBSET Names,
                            available : BOOLEAN \cup {Absent}],
   zones          : SUBSET [id : Names, sector : Names],
   restrictions   : SUBSET [id : Names, coalition : Names \cup {Absent}]]

-------------------------------------------------------------------------------
(* Parsing. *)

\* An enum constructor raises ValueError on a value it does not know.
UnknownValue(raw, t) ==
  CASE t = "control_points" -> \E c \in raw[t] : c.owner \notin Coalitions \cup {Absent}
    [] t = "coalitions"     -> \E c \in raw[t] : c.id \notin Coalitions
    [] t = "active_groups"  -> \E g \in raw[t] : \/ g.coalition \notin Coalitions
                                                 \/ g.posture \notin Postures
    [] t = "reserve_groups" -> \E g \in raw[t] : g.coalition \notin Coalitions
    [] t = "restrictions"   -> \E r \in raw[t] : r.coalition \notin Coalitions \cup {Absent}
    [] OTHER                -> FALSE

Defect(raw, t) == t \in raw.malformed \/ UnknownValue(raw, t)

\* The table that stops the parse, if one does.
Stops(raw, n) ==
  /\ Defect(raw, Tables[n])
  /\ \A k \in 1..(n - 1) : ~Defect(raw, Tables[k])

Parses(raw) == \A n \in DOMAIN Tables : ~Defect(raw, Tables[n])

IdsOf(raw, t) == {row.id : row \in raw[t]}

MutReferencesWithoutReserves(raw) ==
  LET sectors == IdsOf(raw, "sectors")
      sides   == IdsOf(raw, "coalitions")
  IN  /\ \A s \in raw.sectors : s.neighbors \subseteq sectors
      /\ \A c \in raw.control_points : c.sector \in sectors
      /\ \A g \in raw.active_groups : /\ g.sector \in sectors \cup {Absent}
                                      /\ g.coalition \in sides
      /\ \A z \in raw.zones : z.sector \in sectors

\* The references the loader checks.  The control point of a group, the reserves
\* a coalition lists and what a restriction names are not among them.
ReferencesResolve(raw) ==
  LET sectors == IdsOf(raw, "sectors")
      sides   == IdsOf(raw, "coalitions")
  IN  /\ \A s \in raw.sectors : s.neighbors \subseteq sectors
      /\ \A c \in raw.control_points : c.sector \in sectors
      /\ \A g \in raw.active_groups : /\ g.sector \in sectors \cup {Absent}
                                      /\ g.coalition \in sides
      /\ \A g \in raw.reserve_groups : /\ g.coalition \in sides
                                       /\ g.allowed \subseteq sectors
      /\ \A z \in raw.zones : z.sector \in sectors

\* load_scenario_definition_data: it returns a definition, raises ConfigError, or
\* lets the ValueError of an enum through.
Outcome(raw) ==
  IF \E t \in Required : raw[t] = {} THEN "config_error"
  ELSE IF \E n \in DOMAIN Tables :
            Stops(raw, n) /\ Tables[n] \notin raw.malformed
       THEN "value_error"
  ELSE IF Parses(raw) /\ ReferencesResolve(raw) /\ raw.summary # Absent
       THEN "definition"
  ELSE "config_error"

Loads(raw) == Outcome(raw) = "definition"

\* The definition: what is not given takes its default.
Definition(raw) ==
  [raw EXCEPT !.reserve_groups =
     {[g EXCEPT !.available = IF @ = Absent THEN TRUE ELSE @] : g \in @}]

-------------------------------------------------------------------------------
(* Saving.  _toml_value escapes backslashes and quotes only, so a text with a line
   break makes a file that no TOML reader accepts. *)

\* What a reader of a scenario file or of the registry may find in place of a
\* definition or of entries.
Unreadable == {Missing, Empty, Garbled}

\* serialize_scenario_definition_toml, read back.
SavedDefinition(def) == IF def.summary \in LineBreaks THEN Garbled ELSE def

\* An entry of the registry repeats the summary of its scenario.
Entry(def) == def.summary

\* serialize_registry, read back.
SavedRegistry(entries) ==
  IF \E id \in DOMAIN entries : entries[id] \in LineBreaks THEN Garbled ELSE entries

-------------------------------------------------------------------------------
(* Seeding a run. *)

\* create_run_from_scenario inserts every row under the primary key of its table;
\* the loader does not look for two rows with one id.
Seedable(def) ==
  \A n \in DOMAIN Tables : \A r1, r2 \in def[Tables[n]] : r1.id = r2.id => r1 = r2
===============================================================================
