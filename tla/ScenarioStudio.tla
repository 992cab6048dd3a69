---------------------------- MODULE ScenarioStudio ----------------------------
(***************************************************************************)
(* Campaign Studio: the drafts of authored scenarios, the scenario files and  *)
(* their registry, and the runs seeded from them, under concurrent requests   *)
(* (threads of the web UI server, CLI commands).  A request that changes a    *)
(* draft reads the row on one connection and stores the whole row on          *)
(* another; save-as in between writes the scenario file, reads the registry   *)
(* and writes it back, and each of the two files is cut to nothing before it  *)
(* is filled.  Nothing is locked, and a thread may die at any step.           *)
(***************************************************************************)
EXTENDS ScenarioDefinitions

CONSTANTS
  Sessions,     \* concurrent requests
  Ids,          \* ids of scenarios; the file of id x is x.toml
  Drafts,       \* ids a draft may get
  Labels,       \* display names of drafts
  Payloads,     \* scenario payloads a draft may hold
  Requests,     \* what may be asked: [op, draft, id, scenario, label, overwrite]
  Shipped,      \* id -> definition of the scenarios of the repository
  MaxRequests,  \* bound on the requests of a behaviour
  None          \* no value

VARIABLES
  drafts,    \* table scenario_drafts: id -> row, or None
  used,      \* draft ids that were ever given out
  files,     \* id -> what reading the scenario file gives
  registry,  \* what reading index.toml gives: id -> entry, or None
  runs,      \* the scenarios that runs were seeded from
  pc,        \* the step a session's request has reached
  request,   \* the request of a session
  row,       \* the draft row it read
  known,     \* the registry it read
  loaded,    \* the scenario definition it holds
  requests,  \* requests made so far
  alone      \* history: the saves that no other save has overlapped

tables  == <<drafts, used, runs>>
disk    == <<files, registry>>
locals  == <<request, row, known, loaded>>
vars    == <<drafts, used, files, registry, runs, pc, request, row, known,
             loaded, requests, alone>>

DraftOps    == {"update", "rename", "duplicate", "revert", "save"}
ScenarioOps == {"create", "run"}

Steps == {"idle", "index", "file", "seed", "store", "check", "cut_file",
          "fill_file", "read_registry", "cut_registry", "fill_registry"}

Rows == [source : Ids, label : Labels, scenario : Payloads]

\* What the registry may list: for an id the entry of its scenario.
Listings == [Ids -> {Entry(raw) : raw \in Payloads} \cup {None}]

\* The shipped files hold definitions, and the definition a draft holds is a payload.
ASSUME StudioAssumption ==
  /\ Requests \subseteq [op : DraftOps \cup ScenarioOps, draft : Drafts \cup {None},
                         id : Ids, scenario : Payloads, label : Labels,
                         overwrite : BOOLEAN]
  /\ \A r \in Requests : r.op \in DraftOps => r.draft # None
  /\ Payloads \subseteq RawScenario
  /\ DOMAIN Shipped \subseteq Ids
  /\ \A id \in DOMAIN Shipped :
       /\ Shipped[id] \in Payloads
       /\ Loads(Shipped[id])
       /\ Shipped[id].summary \notin LineBreaks
  /\ \A raw \in Payloads : Loads(raw) => Definition(raw) \in Payloads
  /\ None \notin Drafts \cup Rows \cup Requests \cup Payloads \cup Listings \cup LineBreaks
  /\ Missing \notin {Empty, Garbled}
  /\ Unreadable \cap (Payloads \cup Listings) = {}
  /\ MaxRequests \in Nat

Readable(content) == content \notin Unreadable

StudioInit ==
  /\ drafts = [d \in Drafts |-> None]
  /\ used = {}
  /\ files = [id \in Ids |-> IF id \in DOMAIN Shipped THEN Shipped[id] ELSE Missing]
  /\ registry = [id \in Ids |->
                   IF id \in DOMAIN Shipped THEN Entry(Shipped[id]) ELSE None]
  /\ runs = {}
  /\ pc = [s \in Sessions |-> "idle"]
  /\ request = [s \in Sessions |-> None]
  /\ row = [s \in Sessions |-> None]
  /\ known = [s \in Sessions |-> None]
  /\ loaded = [s \in Sessions |-> None]
  /\ requests = 0
  /\ alone = {}

-------------------------------------------------------------------------------
(* A request, step by step. *)

Goto(s, step) == pc' = [pc EXCEPT ![s] = step]

\* The request answers, raises or dies: its locals are gone.
Ends(s) ==
  /\ alone' = alone \ {s}
  /\ Goto(s, "idle")
  /\ request' = [request EXCEPT ![s] = None]
  /\ row' = [row EXCEPT ![s] = None]
  /\ known' = [known EXCEPT ![s] = None]
  /\ loaded' = [loaded EXCEPT ![s] = None]

\* The sessions whose save goes on.
Saving == {s \in Sessions : pc[s] # "idle" /\ request[s].op = "save"}

\* A save that begins overlaps all that go on.
Overlaps(s, r) ==
  alone' = IF r.op # "save" THEN alone ELSE IF Saving = {} THEN {s} ELSE {}

First(op) == CASE op = "revert" -> "index" [] op = "save" -> "check" [] OTHER -> "store"

MutOpenDraftUnvalidated(s, r) ==
  /\ pc[s] = "idle" /\ requests < MaxRequests
  /\ r.op \in DraftOps
  /\ drafts[r.draft] # None
  /\ Goto(s, First(r.op))
  /\ request' = [request EXCEPT ![s] = r]
  /\ row' = [row EXCEPT ![s] = drafts[r.draft]]
  /\ loaded' = [loaded EXCEPT ![s] =
                  IF r.op = "save" THEN Definition(drafts[r.draft].scenario) ELSE None]
  /\ requests' = requests + 1
  /\ Overlaps(s, r)
  /\ UNCHANGED <<tables, disk, known>>

\* A request on a draft opens with get_scenario_draft, which raises for an unknown
\* id; save_as_scenario then validates what it read.
OpenDraft(s, r) ==
  /\ pc[s] = "idle" /\ requests < MaxRequests
  /\ r.op \in DraftOps
  /\ drafts[r.draft] # None
  /\ r.op = "save" => Loads(drafts[r.draft].scenario)
  /\ Goto(s, First(r.op))
  /\ request' = [request EXCEPT ![s] = r]
  /\ row' = [row EXCEPT ![s] = drafts[r.draft]]
  /\ loaded' = [loaded EXCEPT ![s] =
                  IF r.op = "save" THEN Definition(drafts[r.draft].scenario) ELSE None]
  /\ requests' = requests + 1
  /\ Overlaps(s, r)
  /\ UNCHANGED <<tables, disk, known>>

\* create_draft and create_run start from a published scenario.
OpenScenario(s, r) ==
  /\ pc[s] = "idle" /\ requests < MaxRequests
  /\ r.op \in ScenarioOps
  /\ Goto(s, "index")
  /\ request' = [request EXCEPT ![s] = r]
  /\ requests' = requests + 1
  /\ UNCHANGED <<tables, disk, row, known, loaded, alone>>

Wanted(s) == IF request[s].op = "revert" THEN row[s].source ELSE request[s].id

\* get_scenario_definition: the registry must be readable and list the id.
ReadIndex(s) ==
  /\ pc[s] = "index"
  /\ IF Readable(registry) /\ registry[Wanted(s)] # None
     THEN Goto(s, "file") /\ UNCHANGED <<locals, alone>>
     ELSE Ends(s)
  /\ UNCHANGED <<tables, disk, requests>>

\* load_scenario_definition: the file must be readable and hold a definition.
ReadFile(s) ==
  /\ pc[s] = "file"
  /\ IF Readable(files[Wanted(s)]) /\ Loads(files[Wanted(s)])
     THEN /\ Goto(s, IF request[s].op = "run" THEN "seed" ELSE "store")
          /\ loaded' = [loaded EXCEPT ![s] = Definition(files[Wanted(s)])]
          /\ UNCHANGED <<request, row, known, alone>>
     ELSE Ends(s)
  /\ UNCHANGED <<tables, disk, requests>>

\* create_run_from_scenario: one transaction, so a duplicate id leaves nothing.
SeedRun(s) ==
  /\ pc[s] = "seed"
  /\ runs' = IF Seedable(loaded[s]) THEN runs \cup {loaded[s]} ELSE runs
  /\ Ends(s)
  /\ UNCHANGED <<drafts, used, disk, requests>>

\* The row a request stores; the " Draft" and " Copy" of a new label are left out.
Stored(s) ==
  CASE request[s].op = "create" ->
         [source |-> request[s].id, label |-> request[s].label, scenario |-> loaded[s]]
    [] request[s].op = "rename" -> [row[s] EXCEPT !.label = request[s].label]
    [] request[s].op = "update" -> [row[s] EXCEPT !.scenario = request[s].scenario]
    [] request[s].op = "duplicate" -> row[s]
    [] OTHER -> [row[s] EXCEPT !.scenario = loaded[s]]

\* save_scenario_draft: an upsert of the whole row, under a new id for a new draft.
Store(s) ==
  /\ pc[s] = "store"
  /\ IF request[s].op \in {"create", "duplicate"}
     THEN \E d \in Drafts \ used : /\ drafts' = [drafts EXCEPT ![d] = Stored(s)]
                                   /\ used' = used \cup {d}
     ELSE drafts' = [drafts EXCEPT ![request[s].draft] = Stored(s)] /\ UNCHANGED used
  /\ Ends(s)
  /\ UNCHANGED <<disk, runs, requests>>

\* delete_draft: one DELETE, which raises for an unknown id.
Delete(s, d) ==
  /\ pc[s] = "idle" /\ requests < MaxRequests
  /\ drafts[d] # None
  /\ drafts' = [drafts EXCEPT ![d] = None]
  /\ requests' = requests + 1
  /\ UNCHANGED <<used, disk, runs, pc, locals, alone>>

-------------------------------------------------------------------------------
(* save_as_scenario. *)

\* Without overwrite, an existing file is refused.
CheckFile(s) ==
  /\ pc[s] = "check"
  /\ IF files[request[s].id] = Missing \/ request[s].overwrite
     THEN Goto(s, "cut_file") /\ UNCHANGED <<locals, alone>>
     ELSE Ends(s)
  /\ UNCHANGED <<tables, disk, requests>>

\* write_text opens the file ...
CutFile(s) ==
  /\ pc[s] = "cut_file"
  /\ files' = [files EXCEPT ![request[s].id] = Empty]
  /\ Goto(s, "fill_file")
  /\ UNCHANGED <<tables, registry, locals, requests, alone>>

\* ... and fills it from its start.  What another session has filled meanwhile may
\* stick out behind: a mix of the two that is no scenario.
FillFile(s) ==
  /\ pc[s] = "fill_file"
  /\ \E content \in {SavedDefinition(loaded[s])} \cup
                    IF files[request[s].id] = Empty THEN {} ELSE {Garbled} :
       files' = [files EXCEPT ![request[s].id] = content]
  /\ Goto(s, "read_registry")
  /\ UNCHANGED <<tables, registry, locals, requests, alone>>

MutReadRegistryUnchecked(s) ==
  /\ pc[s] = "read_registry"
  /\ known' = [known EXCEPT ![s] = registry]
  /\ Goto(s, "cut_registry")
  /\ UNCHANGED <<tables, disk, request, row, loaded, requests, alone>>

\* load_registry raises when index.toml cannot be read: the file stays unlisted.
ReadRegistry(s) ==
  /\ pc[s] = "read_registry"
  /\ IF Readable(registry)
     THEN /\ known' = [known EXCEPT ![s] = registry]
          /\ Goto(s, "cut_registry")
          /\ UNCHANGED <<request, row, loaded, alone>>
     ELSE Ends(s)
  /\ UNCHANGED <<tables, disk, requests>>

CutRegistry(s) ==
  /\ pc[s] = "cut_registry"
  /\ registry' = Empty
  /\ Goto(s, "fill_registry")
  /\ UNCHANGED <<tables, files, locals, requests, alone>>

MutEntriesReplaced(s) ==
  [id \in Ids |-> IF id = request[s].id THEN Entry(loaded[s]) ELSE None]

\* The entries that were read, that of the id replaced or added.
Entries(s) == [known[s] EXCEPT ![request[s].id] = Entry(loaded[s])]

FillRegistry(s) ==
  /\ pc[s] = "fill_registry"
  /\ \E content \in {SavedRegistry(Entries(s))} \cup
                    IF registry = Empty THEN {} ELSE {Garbled} :
       registry' = content
  /\ Goto(s, "store")
  /\ UNCHANGED <<tables, files, locals, requests, alone>>

-------------------------------------------------------------------------------
\* The thread dies: what it has written stays.
Killed(s) ==
  /\ pc[s] # "idle"
  /\ Ends(s)
  /\ UNCHANGED <<tables, disk, requests>>

SaveStep(s) ==
  \/ CheckFile(s)
  \/ CutFile(s)
  \/ FillFile(s)
  \/ ReadRegistry(s)
  \/ CutRegistry(s)
  \/ FillRegistry(s)

Finished ==
  /\ requests = MaxRequests
  /\ \A s \in Sessions : pc[s] = "idle"
  /\ UNCHANGED vars

StudioNext ==
  \/ \E s \in Sessions, r \in Requests : OpenDraft(s, r) \/ OpenScenario(s, r)
  \/ \E s \in Sessions :
       ReadIndex(s) \/ ReadFile(s) \/ SeedRun(s) \/ Store(s) \/ SaveStep(s) \/ Killed(s)
  \/ \E s \in Sessions, d \in Drafts : Delete(s, d)
  \/ Finished

StudioSpec == StudioInit /\ [][StudioNext]_vars
-------------------------------------------------------------------------------
(* Properties. *)

Contents == Payloads \cup Unreadable

Registries == Listings \cup Unreadable

\* What a request holds at its step.
Holds(s) ==
  /\ request[s] # None
  /\ request[s].op \in DraftOps => row[s] # None /\ request[s].draft \in used
  /\ pc[s] = "seed" => request[s].op = "run"
  /\ pc[s] = "store" => request[s].op # "run"
  /\ pc[s] \in {"index", "file"} => request[s].op \in {"create", "revert", "run"}
  /\ pc[s] \notin {"idle", "index", "file", "seed", "store"} => request[s].op = "save"
  /\ request[s].op = "save" \/ pc[s] = "seed" => loaded[s] # None
  /\ pc[s] = "store" /\ request[s].op \in {"create", "revert"} => loaded[s] # None
  /\ request[s].op = "save" /\ pc[s] \in {"cut_registry", "fill_registry", "store"}
       => known[s] # None

\* Every variable has its type, and a session holds what its step needs: a draft
\* row for every request on a draft, a definition from the moment it has one.
StudioTypeOK ==
  /\ drafts \in [Drafts -> Rows \cup {None}]
  /\ used \subseteq Drafts
  /\ \A d \in Drafts : drafts[d] # None => d \in used
  /\ files \in [Ids -> Contents]
  /\ registry \in Registries
  /\ runs \subseteq Payloads
  /\ pc \in [Sessions -> Steps]
  /\ request \in [Sessions -> Requests \cup {None}]
  /\ row \in [Sessions -> Rows \cup {None}]
  /\ known \in [Sessions -> Listings \cup {None}]
  /\ loaded \in [Sessions -> Payloads \cup {None}]
  /\ requests \in 0..MaxRequests
  /\ alone \subseteq Saving
  /\ \A s \in Sessions : pc[s] # "idle" => Holds(s)

\* However saves of any sessions overlap, and wherever they die, a scenario that
\* the registry lists has a file, and what is in that file is a scenario that
\* loads unless a save was torn there: nothing invalid is ever published.
ListedScenariosArePlayable ==
  Readable(registry) =>
    \A id \in Ids : registry[id] # None =>
      /\ files[id] # Missing
      /\ Readable(files[id]) => Loads(files[id])

\* A run is seeded whole, from one version of one file: its tables take every row
\* (no primary key is given twice), its groups fight for a coalition it has, and
\* every sector a reserve may go to is one of its own.
RunsAreWhole ==
  \A def \in runs :
    /\ Seedable(def)
    /\ \A g \in def.active_groups \cup def.reserve_groups :
         g.coalition \in IdsOf(def, "coalitions")
    /\ \A g \in def.reserve_groups : g.allowed \subseteq IdsOf(def, "sectors")

\* A save that no other save overlapped, and that got to storing its draft, has
\* published the scenario it validated, file and registry alike, and every other
\* scenario is listed as before, whatever was torn in the past and whatever the
\* drafts and the runs do meanwhile.  A line break in a summary breaks this.
AloneASaveIsComplete ==
  \A s \in alone :
    (pc[s] = "store" /\ loaded[s].summary \notin LineBreaks) =>
      /\ files[request[s].id] = loaded[s]
      /\ Readable(registry)
      /\ registry[request[s].id] = Entry(loaded[s])
      /\ \A id \in Ids \ {request[s].id} : registry[id] = known[s][id]
===============================================================================
