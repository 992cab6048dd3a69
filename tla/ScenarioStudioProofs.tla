------------------------ MODULE ScenarioStudioProofs ------------------------
(***************************************************************************)
(* Campaign Studio for any number of sessions, scenarios and drafts: what is  *)
(* published, and what a run is seeded from.                                  *)
(***************************************************************************)
EXTENDS ScenarioStudio, TLAPS

\* Filling in the defaults leaves every other table, and every other field of a
\* reserve, as it was.
LEMMA DefaultsOnly ==
  ASSUME NEW raw \in RawScenario
  PROVE  /\ Definition(raw).summary = raw.summary
         /\ Definition(raw).malformed = raw.malformed
         /\ Definition(raw).sectors = raw.sectors
         /\ Definition(raw).control_points = raw.control_points
         /\ Definition(raw).coalitions = raw.coalitions
         /\ Definition(raw).active_groups = raw.active_groups
         /\ Definition(raw).zones = raw.zones
         /\ Definition(raw).restrictions = raw.restrictions
         /\ \A g \in Definition(raw).reserve_groups :
              \E h \in raw.reserve_groups :
                g.id = h.id /\ g.coalition = h.coalition /\ g.allowed = h.allowed
<1> DEFINE filled(g) == [g EXCEPT !.available = IF @ = Absent THEN TRUE ELSE @]
<1>1. Definition(raw) = [raw EXCEPT !.reserve_groups = {filled(g) : g \in raw.reserve_groups}]
  BY DEF Definition, RawScenario
<1>2. \A h \in raw.reserve_groups :
        filled(h).id = h.id /\ filled(h).coalition = h.coalition /\ filled(h).allowed = h.allowed
  BY DEF RawScenario
<1>3. Definition(raw).reserve_groups = {filled(g) : g \in raw.reserve_groups}
  BY <1>1 DEF RawScenario
<1> HIDE DEF filled
<1>4. \A g \in Definition(raw).reserve_groups :
        \E h \in raw.reserve_groups :
          g.id = h.id /\ g.coalition = h.coalition /\ g.allowed = h.allowed
  BY <1>2, <1>3
<1> QED
  BY <1>1, <1>4 DEF RawScenario

\* A definition loads again: save_as_scenario can read back what it wrote.
LEMMA DefinitionLoads ==
  ASSUME NEW raw \in RawScenario, Loads(raw)
  PROVE  Loads(Definition(raw))
<1> DEFINE def == Definition(raw)
<1>1. /\ \A t \in Required : raw[t] # {}
      /\ Parses(raw) /\ ReferencesResolve(raw) /\ raw.summary # Absent
  BY DEF Loads, Outcome
<1>2. \A t \in Required : def[t] # {}
  BY <1>1, DefaultsOnly DEF Required
<1>3. Parses(def)
  <2> SUFFICES ASSUME NEW n \in 1..7 PROVE ~Defect(def, Tables[n])
    BY DEF Parses, Tables
  <2>1. ~Defect(raw, Tables[n])
    BY <1>1 DEF Parses, Tables
  <2>2. Tables[n] \notin def.malformed
    BY <2>1, DefaultsOnly DEF Defect
  <2>3. ~UnknownValue(def, Tables[n])
    <3>1. CASE n = 5
      <4>1. \A g \in raw.reserve_groups : g.coalition \in Coalitions
        BY <2>1, <3>1 DEF Defect, UnknownValue, Tables
      <4> QED
        BY <4>1, <3>1, DefaultsOnly DEF UnknownValue, Tables
    <3>2. CASE n = 2
      BY <2>1, <3>2, DefaultsOnly DEF Defect, UnknownValue, Tables
    <3>3. CASE n = 3
      BY <2>1, <3>3, DefaultsOnly DEF Defect, UnknownValue, Tables
    <3>4. CASE n = 4
      BY <2>1, <3>4, DefaultsOnly DEF Defect, UnknownValue, Tables
    <3>5. CASE n = 7
      BY <2>1, <3>5, DefaultsOnly DEF Defect, UnknownValue, Tables
    <3>6. CASE n \in {1, 6}
      BY <3>6 DEF UnknownValue, Tables
    <3> QED
      BY <3>1, <3>2, <3>3, <3>4, <3>5, <3>6
  <2> QED
    BY <2>2, <2>3 DEF Defect
<1>4. ReferencesResolve(def)
  <2>1. IdsOf(def, "sectors") = IdsOf(raw, "sectors") /\ IdsOf(def, "coalitions") = IdsOf(raw, "coalitions")
    BY DefaultsOnly DEF IdsOf
  <2>2. \A g \in def.reserve_groups : /\ g.coalition \in IdsOf(raw, "coalitions")
                                      /\ g.allowed \subseteq IdsOf(raw, "sectors")
    BY <1>1, DefaultsOnly DEF ReferencesResolve
  <2> QED
    BY <1>1, <2>1, <2>2, DefaultsOnly DEF ReferencesResolve
<1>5. ~\E n \in DOMAIN Tables : Stops(def, n) /\ Tables[n] \notin def.malformed
  BY <1>3 DEF Stops, Parses
<1>6. def.summary # Absent
  BY <1>1, DefaultsOnly
<1> QED
  BY <1>2, <1>3, <1>4, <1>5, <1>6 DEF Loads, Outcome

-------------------------------------------------------------------------------
(* Types. *)

SessionsOK ==
  /\ pc \in [Sessions -> Steps]
  /\ request \in [Sessions -> Requests \cup {None}]
  /\ row \in [Sessions -> Rows \cup {None}]
  /\ known \in [Sessions -> Listings \cup {None}]
  /\ loaded \in [Sessions -> Payloads \cup {None}]
  /\ alone \subseteq Saving
  /\ \A s \in Sessions : pc[s] # "idle" => Holds(s)

DataOK ==
  /\ drafts \in [Drafts -> Rows \cup {None}]
  /\ used \subseteq Drafts
  /\ \A d \in Drafts : drafts[d] # None => d \in used
  /\ files \in [Ids -> Contents]
  /\ registry \in Registries
  /\ runs \subseteq Payloads
  /\ requests \in 0..MaxRequests

LEMMA TypeParts ==
  /\ StudioTypeOK <=> SessionsOK /\ DataOK
  /\ StudioTypeOK' <=> SessionsOK' /\ DataOK'
BY DEF StudioTypeOK, SessionsOK, DataOK

\* A request that ends leaves the others as they are.
LEMMA EndsKeepsSessions ==
  ASSUME SessionsOK, NEW s \in Sessions, Ends(s), used \subseteq used'
  PROVE  SessionsOK'
<1>1. \A t \in Sessions \ {s} :
        /\ pc'[t] = pc[t] /\ request'[t] = request[t] /\ row'[t] = row[t]
        /\ known'[t] = known[t] /\ loaded'[t] = loaded[t]
  BY DEF SessionsOK, Ends, Goto
<1>2. pc'[s] = "idle"
  BY DEF SessionsOK, Ends, Goto
<1>3. /\ pc' \in [Sessions -> Steps]
      /\ request' \in [Sessions -> Requests \cup {None}]
      /\ row' \in [Sessions -> Rows \cup {None}]
      /\ known' \in [Sessions -> Listings \cup {None}]
      /\ loaded' \in [Sessions -> Payloads \cup {None}]
  BY DEF SessionsOK, Ends, Goto, Steps
<1>4. \A t \in Sessions : pc'[t] # "idle" => Holds(t)'
  BY <1>1, <1>2 DEF SessionsOK, Holds
<1>5. alone' \subseteq Saving'
  BY <1>1 DEF SessionsOK, Ends, Saving
<1> QED
  BY <1>3, <1>4, <1>5 DEF SessionsOK

\* A request whose locals stay goes on to a step it holds enough for.
LEMMA GotoKeepsSessions ==
  ASSUME SessionsOK, NEW s \in Sessions, pc[s] # "idle", NEW step \in Steps \ {"idle"},
         Goto(s, step), request' = request, row' = row, used' = used, alone' = alone,
         known' \in [Sessions -> Listings \cup {None}],
         loaded' \in [Sessions -> Payloads \cup {None}],
         \A t \in Sessions \ {s} : known'[t] = known[t] /\ loaded'[t] = loaded[t],
         Holds(s)'
  PROVE  SessionsOK'
<1>1. \A t \in Sessions \ {s} : pc'[t] = pc[t]
  BY DEF SessionsOK, Goto
<1>2. pc'[s] = step /\ pc' \in [Sessions -> Steps]
  BY DEF SessionsOK, Goto
<1>3. \A t \in Sessions : pc'[t] # "idle" => Holds(t)'
  BY <1>1 DEF SessionsOK, Holds
<1>4. Saving \subseteq Saving'
  BY <1>1, <1>2 DEF Saving
<1> QED
  BY <1>2, <1>3, <1>4 DEF SessionsOK

LEMMA NoneIsNoValue ==
  /\ \A raw \in Payloads : raw # None /\ Readable(raw)
  /\ \A r \in Rows : r # None
  /\ \A r \in Requests : r # None
  /\ \A l \in Listings : l # None /\ Readable(l)
BY StudioAssumption DEF Readable

LEMMA InitTypes == StudioInit => StudioTypeOK
<1> SUFFICES ASSUME StudioInit PROVE StudioTypeOK
  OBVIOUS
<1>1. files \in [Ids -> Contents]
  BY StudioAssumption DEF StudioInit, Contents, Unreadable
<1>2. registry \in Listings
  BY StudioAssumption DEF StudioInit, Listings
<1>3. DataOK
  BY <1>1, <1>2, StudioAssumption DEF StudioInit, DataOK, Registries
<1>4. SessionsOK
  BY DEF StudioInit, SessionsOK, Steps
<1> QED
  BY <1>3, <1>4, TypeParts

-------------------------------------------------------------------------------
LEMMA OpenKeepsTypes ==
  ASSUME StudioTypeOK, NEW s \in Sessions, NEW r \in Requests,
         OpenDraft(s, r) \/ OpenScenario(s, r)
  PROVE  StudioTypeOK'
<1> USE DEF tables, disk
<1>0. SessionsOK /\ DataOK
  BY TypeParts
<1>1. CASE OpenDraft(s, r)
  <2>0. r.draft \in Drafts /\ r.op \in DraftOps /\ drafts[r.draft] \in Rows
    BY <1>1, <1>0, StudioAssumption DEF OpenDraft, DataOK
  <2>1. DataOK'
    BY <1>0, <1>1, StudioAssumption DEF OpenDraft, DataOK
  <2>2. r.op = "save" => Definition(drafts[r.draft].scenario) \in Payloads
    BY <2>0, <1>1, StudioAssumption DEF OpenDraft, Rows
  <2>3. /\ pc' = [pc EXCEPT ![s] = First(r.op)]
        /\ request' = [request EXCEPT ![s] = r]
        /\ row' = [row EXCEPT ![s] = drafts[r.draft]]
        /\ loaded' = [loaded EXCEPT ![s] =
                        IF r.op = "save" THEN Definition(drafts[r.draft].scenario) ELSE None]
        /\ known' = known /\ used' = used /\ pc[s] = "idle"
    BY <1>1 DEF OpenDraft, Goto
  <2>4. First(r.op) \in {"index", "check", "store"}
    BY DEF First
  <2>5. /\ pc' \in [Sessions -> Steps]
        /\ request' \in [Sessions -> Requests \cup {None}]
        /\ row' \in [Sessions -> Rows \cup {None}]
        /\ loaded' \in [Sessions -> Payloads \cup {None}]
    BY <1>0, <2>0, <2>2, <2>3, <2>4 DEF SessionsOK, Steps
  <2>6. pc'[s] = First(r.op) /\ request'[s] = r /\ row'[s] # None
        /\ (r.op = "save" => loaded'[s] # None)
    BY <1>0, <2>0, <2>2, <2>3, NoneIsNoValue DEF SessionsOK
  <2>7. r.draft \in used
    BY <1>0, <2>0, NoneIsNoValue DEF DataOK
  <2>8. Holds(s)'
    BY <2>0, <2>3, <2>6, <2>7, NoneIsNoValue DEF Holds, First, DraftOps
  <2>9. \A t \in Sessions \ {s} : pc'[t] # "idle" => Holds(t)'
    BY <1>0, <2>3 DEF SessionsOK, Holds
  <2>10. alone' \subseteq Saving'
    <3>1. Saving \subseteq Saving'
      BY <1>0, <2>3 DEF Saving, SessionsOK
    <3>2. r.op = "save" => s \in Saving'
      BY <2>4, <2>6 DEF Saving
    <3>3. alone' = IF r.op # "save" THEN alone ELSE IF Saving = {} THEN {s} ELSE {}
      BY <1>1 DEF OpenDraft, Overlaps
    <3> QED
      BY <1>0, <3>1, <3>2, <3>3 DEF SessionsOK
  <2> QED
    BY <1>0, <2>1, <2>3, <2>5, <2>8, <2>9, <2>10, TypeParts DEF SessionsOK
<1>2. CASE OpenScenario(s, r)
  <2>1. DataOK'
    BY <1>0, <1>2, StudioAssumption DEF OpenScenario, DataOK
  <2>2. /\ pc' = [pc EXCEPT ![s] = "index"] /\ request' = [request EXCEPT ![s] = r]
        /\ row' = row /\ known' = known /\ loaded' = loaded /\ used' = used
        /\ alone' = alone /\ pc[s] = "idle" /\ r.op \in ScenarioOps
    BY <1>2 DEF OpenScenario, Goto
  <2>3. pc' \in [Sessions -> Steps] /\ request' \in [Sessions -> Requests \cup {None}]
        /\ pc'[s] = "index" /\ request'[s] = r
    BY <1>0, <2>2 DEF SessionsOK, Steps
  <2>4. Holds(s)'
    BY <2>2, <2>3, NoneIsNoValue DEF Holds, DraftOps, ScenarioOps
  <2>5. \A t \in Sessions \ {s} : pc'[t] # "idle" => Holds(t)'
    BY <1>0, <2>2 DEF SessionsOK, Holds
  <2>6. alone' \subseteq Saving'
    BY <1>0, <2>2 DEF SessionsOK, Saving
  <2> QED
    BY <1>0, <2>1, <2>2, <2>3, <2>4, <2>5, <2>6, TypeParts DEF SessionsOK
<1> QED
  BY <1>1, <1>2

-------------------------------------------------------------------------------
LEMMA ReadKeepsTypes ==
  ASSUME StudioTypeOK, NEW s \in Sessions, ReadIndex(s) \/ ReadFile(s) \/ SeedRun(s)
  PROVE  StudioTypeOK'
<1> USE DEF tables, disk, locals
<1>0. SessionsOK /\ DataOK
  BY TypeParts
<1>1. CASE ReadIndex(s)
  <2>1. DataOK' /\ used' = used
    BY <1>0, <1>1 DEF ReadIndex, DataOK
  <2>2. CASE Ends(s)
    BY <1>0, <2>1, <2>2, EndsKeepsSessions, TypeParts
  <2>3. CASE Goto(s, "file") /\ UNCHANGED <<locals, alone>>
    <3>1. Holds(s) /\ pc[s] = "index" /\ pc'[s] = "file"
      BY <1>0, <1>1, <2>3 DEF ReadIndex, SessionsOK, Goto
    <3>2. Holds(s)'
      BY <3>1, <2>1, <2>3 DEF Holds
    <3>3. SessionsOK'
      BY <1>0, <2>1, <2>3, <3>1, <3>2, GotoKeepsSessions DEF SessionsOK, Steps
    <3> QED
      BY <2>1, <3>3, TypeParts
  <2> QED
    BY <1>1, <2>2, <2>3 DEF ReadIndex
<1>2. CASE ReadFile(s)
  <2>1. DataOK' /\ used' = used
    BY <1>0, <1>2 DEF ReadFile, DataOK
  <2>2. CASE Ends(s)
    BY <1>0, <2>1, <2>2, EndsKeepsSessions, TypeParts
  <2>3. CASE ~Ends(s)
    <3>0. /\ Readable(files[Wanted(s)]) /\ Loads(files[Wanted(s)])
          /\ Goto(s, IF request[s].op = "run" THEN "seed" ELSE "store")
          /\ loaded' = [loaded EXCEPT ![s] = Definition(files[Wanted(s)])]
          /\ UNCHANGED <<request, row, known, alone>>
          /\ pc[s] = "file"
      BY <1>2, <2>3 DEF ReadFile
    <3>1. /\ Holds(s) /\ pc[s] = "file" /\ request[s] \in Requests
          /\ pc'[s] = IF request[s].op = "run" THEN "seed" ELSE "store"
      BY <1>0, <3>0 DEF SessionsOK, Goto, Holds
    <3>2. Wanted(s) \in Ids
      BY <1>0, <3>1, StudioAssumption DEF Wanted, Holds, SessionsOK, Rows, DraftOps
    <3>3. Definition(files[Wanted(s)]) \in Payloads
      BY <1>0, <3>0, <3>2, StudioAssumption DEF DataOK, Contents, Readable
    <3>4. loaded' \in [Sessions -> Payloads \cup {None}] /\ loaded'[s] # None
          /\ \A t \in Sessions \ {s} : loaded'[t] = loaded[t]
      BY <1>0, <3>0, <3>3, NoneIsNoValue DEF SessionsOK
    <3>5. Holds(s)'
      BY <2>1, <3>0, <3>1, <3>4 DEF Holds
    <3>6. SessionsOK'
      BY <1>0, <2>1, <3>0, <3>1, <3>4, <3>5, GotoKeepsSessions DEF SessionsOK, Steps
    <3> QED
      BY <2>1, <3>6, TypeParts
  <2> QED
    BY <2>2, <2>3
<1>3. CASE SeedRun(s)
  <2>1. loaded[s] \in Payloads
    BY <1>0, <1>3 DEF SeedRun, SessionsOK, Holds
  <2>2. DataOK' /\ used' = used
    BY <1>0, <1>3, <2>1 DEF SeedRun, DataOK
  <2> QED
    BY <1>0, <1>3, <2>2, EndsKeepsSessions, TypeParts DEF SeedRun
<1> QED
  BY <1>1, <1>2, <1>3

LEMMA StoredIsARow ==
  ASSUME StudioTypeOK, NEW s \in Sessions, pc[s] = "store"
  PROVE  Stored(s) \in Rows
<1>0. SessionsOK
  BY TypeParts
<1>1. Holds(s) /\ request[s] \in Requests /\ request[s].op # "run"
  BY <1>0 DEF SessionsOK, Holds
<1>2. /\ request[s].op \in DraftOps \cup ScenarioOps
      /\ request[s].id \in Ids /\ request[s].label \in Labels /\ request[s].scenario \in Payloads
  BY <1>1, StudioAssumption
<1>3. request[s].op \in DraftOps => row[s] \in Rows
  BY <1>0, <1>1 DEF Holds, SessionsOK
<1>4. request[s].op \in {"create", "revert", "save"} => loaded[s] \in Payloads
  BY <1>0, <1>1 DEF Holds, SessionsOK
<1>5. CASE request[s].op = "create"
  BY <1>2, <1>4, <1>5 DEF Stored, Rows
<1>6. CASE request[s].op = "rename"
  BY <1>2, <1>3, <1>6 DEF Stored, Rows, DraftOps
<1>7. CASE request[s].op = "update"
  BY <1>2, <1>3, <1>7 DEF Stored, Rows, DraftOps
<1>8. CASE request[s].op = "duplicate"
  BY <1>2, <1>3, <1>8 DEF Stored, Rows, DraftOps
<1>9. CASE request[s].op \in {"revert", "save"}
  BY <1>2, <1>3, <1>4, <1>9 DEF Stored, Rows, DraftOps
<1> QED
  BY <1>1, <1>2, <1>5, <1>6, <1>7, <1>8, <1>9 DEF DraftOps, ScenarioOps

LEMMA StoreKeepsTypes ==
  ASSUME StudioTypeOK, NEW s \in Sessions, Store(s)
  PROVE  StudioTypeOK'
<1> USE DEF disk
<1>0. SessionsOK /\ DataOK /\ Stored(s) \in Rows
  BY TypeParts, StoredIsARow DEF Store
<1>1. Holds(s) /\ request[s] \in Requests /\ pc[s] = "store"
  BY <1>0 DEF SessionsOK, Holds, Store
<1>2. DataOK' /\ used \subseteq used'
  <2>1. CASE request[s].op \in {"create", "duplicate"}
    <3>1. PICK d \in Drafts \ used : /\ drafts' = [drafts EXCEPT ![d] = Stored(s)]
                                     /\ used' = used \cup {d}
      BY <2>1 DEF Store
    <3> QED
      BY <1>0, <3>1 DEF DataOK, Store
  <2>2. CASE request[s].op \notin {"create", "duplicate"}
    <3>1. drafts' = [drafts EXCEPT ![request[s].draft] = Stored(s)] /\ used' = used
      BY <2>2 DEF Store
    <3>2. request[s].op \in DraftOps
      BY <1>1, <2>2, StudioAssumption DEF Holds, DraftOps, ScenarioOps
    <3>3. request[s].draft \in used
      BY <1>1, <3>2 DEF Holds
    <3> QED
      BY <1>0, <3>1, <3>3 DEF DataOK, Store
  <2> QED
    BY <2>1, <2>2
<1> QED
  BY <1>0, <1>2, EndsKeepsSessions, TypeParts DEF Store

LEMMA DeleteKeepsTypes ==
  ASSUME StudioTypeOK, NEW s \in Sessions, NEW d \in Drafts, Delete(s, d)
  PROVE  StudioTypeOK'
<1> USE DEF disk, locals
<1>0. SessionsOK /\ DataOK
  BY TypeParts
<1>1. DataOK'
  BY <1>0, StudioAssumption DEF Delete, DataOK
<1>2. SessionsOK'
  BY <1>0 DEF Delete, SessionsOK, Holds, Saving
<1> QED
  BY <1>1, <1>2, TypeParts

LEMMA SaveStepKeepsTypes ==
  ASSUME StudioTypeOK, NEW s \in Sessions, SaveStep(s)
  PROVE  StudioTypeOK'
<1> USE DEF tables, disk, locals
<1>0. SessionsOK /\ DataOK
  BY TypeParts
<1>1. /\ pc[s] \in {"check", "cut_file", "fill_file", "read_registry", "cut_registry",
                    "fill_registry"}
      /\ \/ used' = used /\ request' = request
         \/ Ends(s)
  BY DEF SaveStep, CheckFile, CutFile, FillFile, ReadRegistry, CutRegistry, FillRegistry
<1>2. /\ Holds(s) /\ request[s] \in Requests /\ request[s].id \in Ids
      /\ request[s].op = "save" /\ loaded[s] \in Payloads
  BY <1>0, <1>1, StudioAssumption DEF SessionsOK, Holds
<1>3. CASE Ends(s)
  <2>1. DataOK' /\ used' = used
    BY <1>0, <1>1, <1>3
       DEF SaveStep, CheckFile, CutFile, FillFile, ReadRegistry, CutRegistry, FillRegistry,
           DataOK, Ends, Goto, Steps, SessionsOK
  <2> QED
    BY <1>0, <1>3, <2>1, EndsKeepsSessions, TypeParts
<1>4. CASE CheckFile(s) /\ ~Ends(s)
  <2>1. DataOK' /\ Goto(s, "cut_file") /\ UNCHANGED <<locals, alone, used>>
    BY <1>0, <1>4 DEF CheckFile, DataOK
  <2>2. Holds(s)'
    BY <1>0, <1>2, <2>1 DEF Holds, SessionsOK, Goto
  <2>3. SessionsOK'
    BY <1>0, <1>1, <2>1, <2>2, GotoKeepsSessions DEF SessionsOK, Steps
  <2> QED
    BY <2>1, <2>3, TypeParts
<1>5. CASE CutFile(s)
  <2>1. DataOK' /\ Goto(s, "fill_file") /\ UNCHANGED <<locals, alone, used>>
    BY <1>0, <1>5 DEF CutFile, DataOK, Contents, Unreadable
  <2>2. Holds(s)'
    BY <1>0, <1>2, <2>1 DEF Holds, SessionsOK, Goto
  <2>3. SessionsOK'
    BY <1>0, <1>1, <2>1, <2>2, GotoKeepsSessions DEF SessionsOK, Steps
  <2> QED
    BY <2>1, <2>3, TypeParts
<1>6. CASE FillFile(s)
  <2>0. SavedDefinition(loaded[s]) \in Contents /\ Garbled \in Contents
    BY <1>2 DEF SavedDefinition, Contents, Unreadable
  <2>1. DataOK' /\ Goto(s, "read_registry") /\ UNCHANGED <<locals, alone, used>>
    BY <1>0, <1>6, <2>0 DEF FillFile, DataOK
  <2>2. Holds(s)'
    BY <1>0, <1>2, <2>1 DEF Holds, SessionsOK, Goto
  <2>3. SessionsOK'
    BY <1>0, <1>1, <2>1, <2>2, GotoKeepsSessions DEF SessionsOK, Steps
  <2> QED
    BY <2>1, <2>3, TypeParts
<1>7. CASE ReadRegistry(s) /\ ~Ends(s)
  <2>0. registry \in Listings
    BY <1>0, <1>7 DEF ReadRegistry, DataOK, Registries, Readable
  <2>1. /\ DataOK' /\ Goto(s, "cut_registry")
        /\ known' = [known EXCEPT ![s] = registry]
        /\ UNCHANGED <<request, row, loaded, alone, used>>
    BY <1>0, <1>7 DEF ReadRegistry, DataOK
  <2>2. /\ known' \in [Sessions -> Listings \cup {None}] /\ known'[s] # None
        /\ \A t \in Sessions \ {s} : known'[t] = known[t]
    BY <1>0, <2>0, <2>1, NoneIsNoValue DEF SessionsOK
  <2>3. Holds(s)'
    BY <1>0, <1>2, <2>1, <2>2 DEF Holds, SessionsOK, Goto
  <2>4. SessionsOK'
    BY <1>0, <1>1, <2>1, <2>2, <2>3, GotoKeepsSessions DEF SessionsOK, Steps
  <2> QED
    BY <2>1, <2>4, TypeParts
<1>8. CASE CutRegistry(s)
  <2>1. DataOK' /\ Goto(s, "fill_registry") /\ UNCHANGED <<locals, alone, used>>
    BY <1>0, <1>8 DEF CutRegistry, DataOK, Registries, Unreadable
  <2>2. Holds(s)'
    BY <1>0, <1>2, <1>8, <2>1 DEF Holds, SessionsOK, Goto, CutRegistry
  <2>3. SessionsOK'
    BY <1>0, <1>1, <2>1, <2>2, GotoKeepsSessions DEF SessionsOK, Steps
  <2> QED
    BY <2>1, <2>3, TypeParts
<1>9. CASE FillRegistry(s)
  <2>0. known[s] \in Listings
    BY <1>0, <1>2, <1>9 DEF FillRegistry, Holds, SessionsOK
  <2>1. Entries(s) \in Listings
    BY <1>2, <2>0 DEF Entries, Listings
  <2>2. SavedRegistry(Entries(s)) \in Registries /\ Garbled \in Registries
    BY <2>1 DEF SavedRegistry, Registries, Unreadable
  <2>3. DataOK' /\ Goto(s, "store") /\ UNCHANGED <<locals, alone, used>>
    BY <1>0, <1>9, <2>2 DEF FillRegistry, DataOK
  <2>4. Holds(s)'
    BY <1>0, <1>2, <1>9, <2>3 DEF Holds, SessionsOK, Goto, FillRegistry
  <2>5. SessionsOK'
    BY <1>0, <1>1, <2>3, <2>4, GotoKeepsSessions DEF SessionsOK, Steps
  <2> QED
    BY <2>3, <2>5, TypeParts
<1> QED
  BY <1>3, <1>4, <1>5, <1>6, <1>7, <1>8, <1>9 DEF SaveStep

LEMMA StutterKeepsTypes ==
  ASSUME StudioTypeOK, UNCHANGED vars
  PROVE  StudioTypeOK'
BY DEF StudioTypeOK, vars, Holds, Saving

LEMMA NextKeepsTypes ==
  ASSUME StudioTypeOK, [StudioNext]_vars
  PROVE  StudioTypeOK'
<1>1. ASSUME NEW s \in Sessions, Killed(s) PROVE StudioTypeOK'
  <2>0. SessionsOK /\ DataOK
    BY TypeParts
  <2>1. DataOK' /\ used' = used
    BY <1>1, <2>0 DEF Killed, DataOK, tables, disk
  <2> QED
    BY <1>1, <2>0, <2>1, EndsKeepsSessions, TypeParts DEF Killed
<1> QED
  BY <1>1, OpenKeepsTypes, ReadKeepsTypes, StoreKeepsTypes, DeleteKeepsTypes,
     SaveStepKeepsTypes, StutterKeepsTypes
     DEF StudioNext, Finished

\* The types of StudioTypeOK, for any number of sessions, scenarios and drafts:
\* whatever overlaps, no request goes on without the row, the registry or the
\* definition its next step uses.
THEOREM StudioTypesAreCorrect == StudioSpec => []StudioTypeOK
<1>1. StudioTypeOK /\ [StudioNext]_vars => StudioTypeOK'
  BY NextKeepsTypes
<1> QED
  BY <1>1, InitTypes, PTL DEF StudioSpec

-------------------------------------------------------------------------------
(* What is published, and what is seeded. *)

\* The step at which a request holds a definition that must load.
HoldsLoaded(s) ==
  pc[s] # "idle" /\ (request[s].op = "save" \/ pc[s] = "seed") => Loads(loaded[s])

\* The scenario file of a save is there once it has been cut, and stays.
FileIsThere(s) ==
  pc[s] \notin {"idle", "index", "file", "seed", "check", "cut_file"}
  /\ request[s].op = "save" => files[request[s].id] # Missing

\* What a save has read of the registry lists only scenarios with a file.
KnownHaveFiles(s) ==
  known[s] # None => \A id \in Ids : known[s][id] # None => files[id] # Missing

FilesLoad == \A id \in Ids : Readable(files[id]) => Loads(files[id])

ListedHaveFiles ==
  Readable(registry) => \A id \in Ids : registry[id] # None => files[id] # Missing

RunsLoad == \A def \in runs : Loads(def) /\ Seedable(def)

PublishInv ==
  /\ StudioTypeOK
  /\ FilesLoad /\ ListedHaveFiles /\ RunsLoad
  /\ \A s \in Sessions : HoldsLoaded(s) /\ FileIsThere(s) /\ KnownHaveFiles(s)

LEMMA InitPublishes == StudioInit => PublishInv
<1> SUFFICES ASSUME StudioInit PROVE PublishInv
  OBVIOUS
<1>1. StudioTypeOK
  BY InitTypes
<1>2. FilesLoad
  BY StudioAssumption DEF FilesLoad, StudioInit, Readable, Unreadable
<1>3. ListedHaveFiles
  <2>1. \A id \in DOMAIN Shipped : Shipped[id] # Missing
    BY StudioAssumption DEF Unreadable
  <2> QED
    BY <2>1, StudioAssumption DEF ListedHaveFiles, StudioInit
<1>4. RunsLoad /\ \A s \in Sessions : HoldsLoaded(s) /\ FileIsThere(s) /\ KnownHaveFiles(s)
  BY DEF StudioInit, RunsLoad, HoldsLoaded, FileIsThere, KnownHaveFiles
<1> QED
  BY <1>1, <1>2, <1>3, <1>4 DEF PublishInv

\* A request that ends while the files only grow keeps the sessions' parts.
LEMMA EndsKeepsPublished ==
  ASSUME PublishInv, NEW s \in Sessions, Ends(s), files' = files
  PROVE  \A t \in Sessions : (HoldsLoaded(t) /\ FileIsThere(t) /\ KnownHaveFiles(t))'
<1>0. SessionsOK
  BY TypeParts DEF PublishInv
<1>1. \A t \in Sessions \ {s} :
        /\ pc'[t] = pc[t] /\ request'[t] = request[t]
        /\ known'[t] = known[t] /\ loaded'[t] = loaded[t]
  BY <1>0 DEF SessionsOK, Ends, Goto
<1>2. pc'[s] = "idle" /\ known'[s] = None
  BY <1>0 DEF SessionsOK, Ends, Goto
<1> QED
  BY <1>1, <1>2 DEF PublishInv, HoldsLoaded, FileIsThere, KnownHaveFiles

LEMMA OpenKeepsPublished ==
  ASSUME PublishInv, StudioTypeOK', NEW s \in Sessions, NEW r \in Requests,
         OpenDraft(s, r) \/ OpenScenario(s, r)
  PROVE  PublishInv'
<1> USE DEF tables, disk
<1>0. SessionsOK /\ DataOK
  BY TypeParts DEF PublishInv
<1>1. files' = files /\ registry' = registry /\ runs' = runs /\ known' = known
  BY DEF OpenDraft, OpenScenario
<1>2. /\ pc[s] = "idle"
      /\ \A t \in Sessions \ {s} :
           pc'[t] = pc[t] /\ request'[t] = request[t] /\ loaded'[t] = loaded[t]
  BY <1>0 DEF OpenDraft, OpenScenario, Goto, SessionsOK
<1>3. pc'[s] \in {"index", "check", "store"} /\ request'[s] = r
      /\ (pc'[s] = "store" => r.op # "save")
  BY <1>0 DEF OpenDraft, OpenScenario, Goto, SessionsOK, First
<1>4. HoldsLoaded(s)'
  <2>1. CASE OpenDraft(s, r) /\ r.op = "save"
    <3>1. r.draft \in Drafts /\ drafts[r.draft] \in Rows
      BY <1>0, <2>1, StudioAssumption DEF OpenDraft, DataOK
    <3>2. drafts[r.draft].scenario \in RawScenario /\ Loads(drafts[r.draft].scenario)
      BY <2>1, <3>1, StudioAssumption DEF OpenDraft, Rows
    <3>3. loaded'[s] = Definition(drafts[r.draft].scenario)
      BY <1>0, <2>1 DEF OpenDraft, SessionsOK
    <3> QED
      BY <3>2, <3>3, DefinitionLoads DEF HoldsLoaded
  <2>2. CASE r.op # "save"
    BY <1>3, <2>2 DEF HoldsLoaded
  <2>3. CASE OpenScenario(s, r)
    BY <1>3, <2>3 DEF HoldsLoaded, OpenScenario, ScenarioOps
  <2> QED
    BY <2>1, <2>2, <2>3
<1>5. FileIsThere(s)'
  BY <1>3 DEF FileIsThere
<1> QED
  BY <1>1, <1>2, <1>4, <1>5
     DEF PublishInv, FilesLoad, ListedHaveFiles, RunsLoad, HoldsLoaded, FileIsThere, KnownHaveFiles

LEMMA ReadKeepsPublished ==
  ASSUME PublishInv, StudioTypeOK', NEW s \in Sessions,
         ReadIndex(s) \/ ReadFile(s) \/ SeedRun(s)
  PROVE  PublishInv'
<1> USE DEF tables, disk, locals
<1>0. SessionsOK /\ DataOK
  BY TypeParts DEF PublishInv
<1>1. files' = files /\ registry' = registry
  BY DEF ReadIndex, ReadFile, SeedRun
<1>2. RunsLoad'
  <2>1. CASE SeedRun(s)
    BY <2>1 DEF SeedRun, RunsLoad, PublishInv, HoldsLoaded
  <2>2. CASE ~SeedRun(s)
    BY <2>2 DEF ReadIndex, ReadFile, RunsLoad, PublishInv
  <2> QED
    BY <2>1, <2>2
<1>3. \A t \in Sessions : (HoldsLoaded(t) /\ FileIsThere(t) /\ KnownHaveFiles(t))'
  <2>1. CASE Ends(s)
    BY <1>1, <2>1, EndsKeepsPublished
  <2>2. CASE ReadIndex(s) /\ ~Ends(s)
    BY <1>0, <2>2 DEF ReadIndex, Goto, SessionsOK, PublishInv, HoldsLoaded, FileIsThere,
                      KnownHaveFiles
  <2>3. CASE ReadFile(s) /\ ~Ends(s)
    <3>0. /\ Readable(files[Wanted(s)]) /\ Loads(files[Wanted(s)]) /\ pc[s] = "file"
          /\ loaded' = [loaded EXCEPT ![s] = Definition(files[Wanted(s)])]
          /\ request' = request /\ known' = known
          /\ Goto(s, IF request[s].op = "run" THEN "seed" ELSE "store")
      BY <2>3 DEF ReadFile
    <3>1. /\ request[s] \in Requests /\ request[s].op \in {"create", "revert", "run"}
          /\ Holds(s)
      BY <1>0, <3>0 DEF SessionsOK, Holds
    <3>2. Wanted(s) \in Ids
      BY <1>0, <3>0, <3>1, StudioAssumption DEF Wanted, Holds, SessionsOK, Rows, DraftOps
    <3>3. files[Wanted(s)] \in RawScenario
      BY <1>0, <3>0, <3>2, StudioAssumption DEF DataOK, Contents, Readable
    <3>4. loaded'[s] = Definition(files[Wanted(s)]) /\ Loads(loaded'[s])
      BY <1>0, <3>0, <3>3, DefinitionLoads DEF SessionsOK
    <3>5. \A t \in Sessions \ {s} : pc'[t] = pc[t] /\ loaded'[t] = loaded[t]
      BY <1>0, <3>0 DEF SessionsOK, Goto
    <3>6. pc'[s] \in {"seed", "store"}
      BY <1>0, <3>0 DEF SessionsOK, Goto
    <3> QED
      BY <1>1, <3>0, <3>1, <3>4, <3>5, <3>6
         DEF PublishInv, HoldsLoaded, FileIsThere, KnownHaveFiles
  <2> QED
    BY <2>1, <2>2, <2>3 DEF SeedRun
<1> QED
  BY <1>1, <1>2, <1>3 DEF PublishInv, FilesLoad, ListedHaveFiles

LEMMA TableStepKeepsPublished ==
  ASSUME PublishInv, StudioTypeOK', NEW s \in Sessions,
         Store(s) \/ Killed(s) \/ \E d \in Drafts : Delete(s, d)
  PROVE  PublishInv'
<1> USE DEF tables, disk, locals
<1>1. files' = files /\ registry' = registry /\ runs' = runs
  BY DEF Store, Killed, Delete
<1>2. \A t \in Sessions : (HoldsLoaded(t) /\ FileIsThere(t) /\ KnownHaveFiles(t))'
  <2>1. CASE Ends(s)
    BY <1>1, <2>1, EndsKeepsPublished
  <2>2. CASE \E d \in Drafts : Delete(s, d)
    BY <2>2 DEF Delete, PublishInv, HoldsLoaded, FileIsThere, KnownHaveFiles
  <2> QED
    BY <2>1, <2>2 DEF Store, Killed
<1> QED
  BY <1>1, <1>2 DEF PublishInv, FilesLoad, ListedHaveFiles, RunsLoad

LEMMA SaveStepKeepsPublished ==
  ASSUME PublishInv, StudioTypeOK', NEW s \in Sessions, SaveStep(s)
  PROVE  PublishInv'
<1> USE DEF tables, disk, locals
<1>0. SessionsOK /\ DataOK
  BY TypeParts DEF PublishInv
<1>1. /\ pc[s] \in {"check", "cut_file", "fill_file", "read_registry", "cut_registry",
                    "fill_registry"}
      /\ runs' = runs
  BY DEF SaveStep, CheckFile, CutFile, FillFile, ReadRegistry, CutRegistry, FillRegistry
<1>2. /\ Holds(s) /\ request[s] \in Requests /\ request[s].id \in Ids
      /\ request[s].op = "save" /\ loaded[s] \in Payloads /\ Loads(loaded[s])
  BY <1>0, <1>1, StudioAssumption DEF SessionsOK, Holds, PublishInv, HoldsLoaded
<1>3. RunsLoad'
  BY <1>1 DEF RunsLoad, PublishInv
<1>5. CASE Ends(s)
  <2>1. files' = files /\ registry' = registry
    BY <1>0, <1>1, <1>5
       DEF SaveStep, CheckFile, CutFile, FillFile, ReadRegistry, CutRegistry, FillRegistry,
           Ends, Goto, SessionsOK
  <2> QED
    BY <1>3, <1>5, <2>1, EndsKeepsPublished DEF PublishInv, FilesLoad, ListedHaveFiles
<1>6. CASE CheckFile(s) /\ ~Ends(s)
  BY <1>0, <1>3, <1>6
     DEF CheckFile, Goto, SessionsOK, PublishInv, FilesLoad, ListedHaveFiles, HoldsLoaded,
         FileIsThere, KnownHaveFiles

<1>7. CASE CutFile(s)
  <2>1. /\ files' = [files EXCEPT ![request[s].id] = Empty]
        /\ registry' = registry /\ request' = request /\ known' = known /\ loaded' = loaded
        /\ pc' = [pc EXCEPT ![s] = "fill_file"]
    BY <1>7 DEF CutFile, Goto
  <2>2. /\ \A id \in Ids : files'[id] = Missing => files[id] = Missing
        /\ files'[request[s].id] = Empty
    BY <1>0, <1>2, <2>1, StudioAssumption DEF DataOK
  <2>3. FilesLoad'
    BY <1>0, <1>2, <2>1 DEF PublishInv, FilesLoad, DataOK, Readable, Unreadable
  <2>4. ListedHaveFiles'
    BY <2>1, <2>2 DEF PublishInv, ListedHaveFiles
  <2>5. \A t \in Sessions : (HoldsLoaded(t) /\ KnownHaveFiles(t))'
    BY <1>0, <1>2, <2>1, <2>2 DEF PublishInv, HoldsLoaded, KnownHaveFiles, SessionsOK
  <2>6. \A t \in Sessions : FileIsThere(t)'
    BY <1>0, <1>2, <2>1, <2>2, StudioAssumption DEF PublishInv, FileIsThere, SessionsOK, DataOK
  <2> QED
    BY <1>3, <2>3, <2>4, <2>5, <2>6 DEF PublishInv
<1>8. CASE FillFile(s)
  <2>0. PICK content \in {SavedDefinition(loaded[s]), Garbled} :
          files' = [files EXCEPT ![request[s].id] = content]
    BY <1>8 DEF FillFile
  <2>1. /\ registry' = registry /\ request' = request /\ known' = known /\ loaded' = loaded
        /\ pc' = [pc EXCEPT ![s] = "read_registry"]
    BY <1>8 DEF FillFile, Goto
  <2>2. content # Missing /\ (Readable(content) => Loads(content))
    BY <1>2, StudioAssumption DEF SavedDefinition, Readable, Unreadable
  <2>3. \A id \in Ids : files'[id] = IF id = request[s].id THEN content ELSE files[id]
    BY <1>0, <1>2, <2>0 DEF DataOK
  <2>4. FilesLoad'
    BY <2>2, <2>3 DEF PublishInv, FilesLoad, Readable
  <2>5. ListedHaveFiles'
    BY <2>1, <2>2, <2>3 DEF PublishInv, ListedHaveFiles
  <2>6. \A t \in Sessions : (HoldsLoaded(t) /\ KnownHaveFiles(t))'
    BY <1>0, <1>2, <2>1, <2>2, <2>3 DEF PublishInv, HoldsLoaded, KnownHaveFiles, SessionsOK
  <2>7. \A t \in Sessions : FileIsThere(t)'
    <3> TAKE t \in Sessions
    <3>1. CASE t = s
      BY <1>2, <2>1, <2>2, <2>3, <3>1 DEF FileIsThere
    <3>2. CASE t # s /\ request[t] # None
      <4>1. request[t].id \in Ids
        BY <1>0, <3>2, StudioAssumption DEF SessionsOK
      <4> QED
        BY <1>0, <2>1, <2>2, <2>3, <3>2, <4>1 DEF PublishInv, FileIsThere, SessionsOK
    <3>3. CASE t # s /\ request[t] = None
      BY <1>0, <2>1, <3>3 DEF FileIsThere, SessionsOK, Holds
    <3> QED
      BY <3>1, <3>2, <3>3
  <2> QED
    BY <1>3, <2>4, <2>5, <2>6, <2>7 DEF PublishInv
<1>9. CASE ReadRegistry(s) /\ ~Ends(s)
  <2>1. /\ Readable(registry) /\ known' = [known EXCEPT ![s] = registry]
        /\ files' = files /\ registry' = registry /\ request' = request /\ loaded' = loaded
        /\ pc' = [pc EXCEPT ![s] = "cut_registry"] /\ pc[s] = "read_registry"
    BY <1>9 DEF ReadRegistry, Goto
  <2>2. \A t \in Sessions : (HoldsLoaded(t) /\ FileIsThere(t))'
    BY <1>0, <1>2, <2>1 DEF PublishInv, HoldsLoaded, FileIsThere, SessionsOK
  <2>3. \A t \in Sessions : KnownHaveFiles(t)'
    BY <1>0, <2>1 DEF PublishInv, KnownHaveFiles, ListedHaveFiles, SessionsOK
  <2> QED
    BY <1>3, <2>1, <2>2, <2>3 DEF PublishInv, FilesLoad, ListedHaveFiles
<1>10. CASE CutRegistry(s)
  <2>1. /\ registry' = Empty /\ known' = known
        /\ files' = files /\ request' = request /\ loaded' = loaded
        /\ pc' = [pc EXCEPT ![s] = "fill_registry"] /\ pc[s] = "cut_registry"
    BY <1>10 DEF CutRegistry, Goto
  <2>2. \A t \in Sessions : (HoldsLoaded(t) /\ FileIsThere(t) /\ KnownHaveFiles(t))'
    BY <1>0, <1>2, <2>1 DEF PublishInv, HoldsLoaded, FileIsThere, KnownHaveFiles, SessionsOK
  <2> QED
    BY <1>3, <2>1, <2>2 DEF PublishInv, FilesLoad, ListedHaveFiles, Readable, Unreadable
<1>11. CASE FillRegistry(s)
  <2>1. /\ registry' \in {SavedRegistry(Entries(s)), Garbled} /\ known' = known
        /\ files' = files /\ request' = request /\ loaded' = loaded
        /\ pc' = [pc EXCEPT ![s] = "store"] /\ pc[s] = "fill_registry"
    BY <1>11 DEF FillRegistry, Goto
  <2>2. \A t \in Sessions : (HoldsLoaded(t) /\ FileIsThere(t) /\ KnownHaveFiles(t))'
    BY <1>0, <1>2, <2>1 DEF PublishInv, HoldsLoaded, FileIsThere, KnownHaveFiles, SessionsOK
  <2>3. known[s] \in Listings /\ files[request[s].id] # Missing
    BY <1>0, <1>2, <2>1 DEF Holds, SessionsOK, PublishInv, FileIsThere
  <2>4. \A id \in Ids : Entries(s)[id] # None => files[id] # Missing
    BY <1>2, <2>3, NoneIsNoValue DEF PublishInv, KnownHaveFiles, Entries, Listings
  <2>5. ListedHaveFiles'
    BY <2>1, <2>4 DEF ListedHaveFiles, SavedRegistry, Readable, Unreadable
  <2> QED
    BY <1>3, <2>1, <2>2, <2>5 DEF PublishInv, FilesLoad
<1> QED
  BY <1>5, <1>6, <1>7, <1>8, <1>9, <1>10, <1>11 DEF SaveStep

LEMMA NextKeepsPublished ==
  ASSUME PublishInv, [StudioNext]_vars
  PROVE  PublishInv'
<1>1. StudioTypeOK'
  BY NextKeepsTypes DEF PublishInv
<1>2. CASE UNCHANGED vars
  BY <1>1, <1>2 DEF PublishInv, FilesLoad, ListedHaveFiles, RunsLoad, HoldsLoaded, FileIsThere,
                    KnownHaveFiles, vars
<1> QED
  BY <1>1, <1>2, OpenKeepsPublished, ReadKeepsPublished, TableStepKeepsPublished,
     SaveStepKeepsPublished
     DEF StudioNext, Finished

LEMMA AlwaysPublished == StudioSpec => []PublishInv
<1>1. PublishInv /\ [StudioNext]_vars => PublishInv'
  BY NextKeepsPublished
<1> QED
  BY <1>1, InitPublishes, PTL DEF StudioSpec

\* However many saves overlap, and wherever they die, the registry lists only
\* scenarios whose file is there and, when it can be read, loads.
THEOREM ListedScenariosAreAlwaysPlayable == StudioSpec => []ListedScenariosArePlayable
<1>1. PublishInv => ListedScenariosArePlayable
  BY DEF PublishInv, FilesLoad, ListedHaveFiles, ListedScenariosArePlayable
<1> QED
  BY <1>1, AlwaysPublished, PTL

\* Every run is seeded whole, with the references of its rows within itself,
\* whatever the drafts, the files and the registry go through.
THEOREM RunsAreAlwaysWhole == StudioSpec => []RunsAreWhole
<1>1. ASSUME NEW def, Loads(def) PROVE ReferencesResolve(def)
  BY <1>1 DEF Loads, Outcome
<1>2. PublishInv => RunsAreWhole
  BY <1>1 DEF PublishInv, RunsLoad, RunsAreWhole, ReferencesResolve
<1> QED
  BY <1>2, AlwaysPublished, PTL

-------------------------------------------------------------------------------
(* A save that nothing overlaps. *)

\* How far the save of s has come, when no other save goes on.
SaveOnItsOwn(s) ==
  /\ \A t \in Saving : t = s
  /\ pc[s] = "fill_file" => files[request[s].id] = Empty
  /\ pc[s] \in {"read_registry", "cut_registry", "fill_registry", "store"}
       => files[request[s].id] = SavedDefinition(loaded[s])
  /\ pc[s] = "cut_registry" => registry = known[s]
  /\ pc[s] = "fill_registry" => registry = Empty
  /\ pc[s] = "store" => registry = SavedRegistry(Entries(s))

\* A registry that can be read holds no line break.
NoLineBreaks ==
  /\ Readable(registry) => \A id \in Ids : registry[id] \notin LineBreaks
  /\ \A s \in Sessions : known[s] # None => \A id \in Ids : known[s][id] \notin LineBreaks

AloneInv ==
  /\ StudioTypeOK
  /\ NoLineBreaks
  /\ \A s \in alone : SaveOnItsOwn(s)

LEMMA InitAlone == StudioInit => AloneInv
<1> SUFFICES ASSUME StudioInit PROVE AloneInv
  OBVIOUS
<1>1. NoLineBreaks
  BY StudioAssumption DEF NoLineBreaks, StudioInit, Entry
<1> QED
  BY <1>1, InitTypes DEF AloneInv, StudioInit

\* A step of a session that is not saving leaves an undisturbed save as it was.
LEMMA OthersKeepAlone ==
  ASSUME AloneInv, StudioTypeOK', NEW s \in Sessions, s \notin Saving,
         files' = files, registry' = registry,
         \A t \in Sessions \ {s} : /\ pc'[t] = pc[t] /\ request'[t] = request[t]
                                   /\ known'[t] = known[t] /\ loaded'[t] = loaded[t],
         known'[s] \in {known[s], None},
         s \notin Saving' /\ alone' \subseteq alone
  PROVE  AloneInv'
<1>1. NoLineBreaks'
  BY DEF AloneInv, NoLineBreaks
<1>2. ASSUME NEW t \in alone' PROVE SaveOnItsOwn(t)'
  <2>1. t \in Sessions \ {s} /\ SaveOnItsOwn(t)
    BY <1>2, TypeParts DEF AloneInv, SessionsOK, Saving
  <2>2. \A u \in Saving' : u \in Saving
    BY DEF Saving
  <2>3. Entries(t)' = Entries(t)
    BY <2>1 DEF Entries
  <2> QED
    BY <2>1, <2>2, <2>3 DEF SaveOnItsOwn
<1> QED
  BY <1>1, <1>2 DEF AloneInv

\* A save that ends leaves no save, or only overlapped ones.
LEMMA EndsKeepsAlone ==
  ASSUME AloneInv, StudioTypeOK', NEW s \in Sessions, Ends(s),
         files' = files, registry' = registry
  PROVE  AloneInv'
<1>0. SessionsOK
  BY TypeParts DEF AloneInv
<1>1. /\ pc'[s] = "idle" /\ known'[s] = None /\ alone' = alone \ {s}
      /\ \A t \in Sessions \ {s} : /\ pc'[t] = pc[t] /\ request'[t] = request[t]
                                   /\ known'[t] = known[t] /\ loaded'[t] = loaded[t]
  BY <1>0 DEF Ends, Goto, SessionsOK
<1>2. s \notin Saving'
  BY <1>1 DEF Saving
<1>3. CASE s \notin Saving
  BY <1>1, <1>2, <1>3, OthersKeepAlone
<1>4. CASE s \in Saving
  <2>1. alone' = {}
    BY <1>0, <1>1, <1>4 DEF AloneInv, SaveOnItsOwn, SessionsOK
  <2>2. NoLineBreaks'
    BY <1>1 DEF AloneInv, NoLineBreaks
  <2> QED
    BY <2>1, <2>2 DEF AloneInv
<1> QED
  BY <1>3, <1>4

LEMMA OpenKeepsAlone ==
  ASSUME AloneInv, StudioTypeOK', NEW s \in Sessions, NEW r \in Requests,
         OpenDraft(s, r) \/ OpenScenario(s, r)
  PROVE  AloneInv'
<1> USE DEF tables, disk
<1>0. SessionsOK
  BY TypeParts DEF AloneInv
<1>1. /\ files' = files /\ registry' = registry /\ known' = known /\ pc[s] = "idle"
      /\ \A t \in Sessions \ {s} :
           pc'[t] = pc[t] /\ request'[t] = request[t] /\ loaded'[t] = loaded[t]
      /\ request'[s] = r /\ s \notin Saving
  BY <1>0 DEF OpenDraft, OpenScenario, Goto, SessionsOK, Saving
<1>2. CASE r.op # "save"
  <2>1. alone' = alone /\ s \notin Saving'
    BY <1>1, <1>2 DEF OpenDraft, OpenScenario, Overlaps, Saving
  <2> QED
    BY <1>1, <2>1, OthersKeepAlone
<1>3. CASE r.op = "save"
  <2>1. OpenDraft(s, r)
    BY <1>3 DEF OpenScenario, ScenarioOps
  <2>2. alone' = IF Saving = {} THEN {s} ELSE {}
    BY <1>3, <2>1 DEF OpenDraft, Overlaps
  <2>3. pc'[s] = "check"
    BY <1>0, <1>3, <2>1 DEF OpenDraft, Goto, SessionsOK, First
  <2>4. Saving = {} => Saving' = {s}
    BY <1>1, <1>3, <2>3 DEF Saving
  <2>5. \A t \in alone' : SaveOnItsOwn(t)'
    BY <2>2, <2>3, <2>4 DEF SaveOnItsOwn
  <2> QED
    BY <1>1, <2>5 DEF AloneInv, NoLineBreaks
<1> QED
  BY <1>2, <1>3

LEMMA QuietKeepsAlone ==
  ASSUME AloneInv, StudioTypeOK', NEW s \in Sessions,
         ReadIndex(s) \/ ReadFile(s) \/ SeedRun(s) \/ Store(s) \/ Killed(s)
           \/ \E d \in Drafts : Delete(s, d)
  PROVE  AloneInv'
<1> USE DEF tables, disk, locals
<1>0. SessionsOK
  BY TypeParts DEF AloneInv
<1>1. files' = files /\ registry' = registry
  BY DEF ReadIndex, ReadFile, SeedRun, Store, Killed, Delete
<1>2. CASE Ends(s)
  BY <1>1, <1>2, EndsKeepsAlone
<1>3. CASE \E d \in Drafts : Delete(s, d)
  BY <1>3 DEF Delete, AloneInv, NoLineBreaks, SaveOnItsOwn, Saving, Entries
<1>4. CASE (ReadIndex(s) \/ ReadFile(s)) /\ ~Ends(s)
  <2>1. /\ alone' = alone /\ request' = request /\ known' = known
        /\ pc[s] \in {"index", "file"}
        /\ \A t \in Sessions \ {s} : pc'[t] = pc[t] /\ loaded'[t] = loaded[t]
    BY <1>0, <1>4 DEF ReadIndex, ReadFile, Goto, SessionsOK
  <2>2. request[s].op # "save"
    BY <1>0, <2>1 DEF SessionsOK, Holds
  <2>3. s \notin Saving /\ s \notin Saving'
    BY <2>1, <2>2 DEF Saving
  <2> QED
    BY <1>1, <2>1, <2>3, OthersKeepAlone
<1> QED
  BY <1>2, <1>3, <1>4 DEF SeedRun, Store, Killed

LEMMA SaveStepKeepsAlone ==
  ASSUME AloneInv, StudioTypeOK', NEW s \in Sessions, SaveStep(s)
  PROVE  AloneInv'
<1> USE DEF tables, disk, locals
<1>0. SessionsOK /\ DataOK
  BY TypeParts DEF AloneInv
<1>1. /\ pc[s] \in {"check", "cut_file", "fill_file", "read_registry", "cut_registry",
                    "fill_registry"}
  BY DEF SaveStep, CheckFile, CutFile, FillFile, ReadRegistry, CutRegistry, FillRegistry
<1>2. /\ Holds(s) /\ request[s] \in Requests /\ request[s].id \in Ids
      /\ request[s].op = "save" /\ loaded[s] \in Payloads /\ s \in Saving
  BY <1>0, <1>1, StudioAssumption DEF SessionsOK, Holds, Saving
<1>3. \A t \in alone : t = s
  BY <1>2 DEF AloneInv, SaveOnItsOwn
<1>4. CASE Ends(s)
  <2>1. files' = files /\ registry' = registry
    BY <1>0, <1>1, <1>4
       DEF SaveStep, CheckFile, CutFile, FillFile, ReadRegistry, CutRegistry, FillRegistry,
           Ends, Goto, SessionsOK
  <2> QED
    BY <1>4, <2>1, EndsKeepsAlone
<1>5. CASE ~Ends(s)
  <2>1. /\ alone' = alone /\ request' = request /\ loaded' = loaded /\ pc'[s] # "idle"
        /\ \A t \in Sessions \ {s} : pc'[t] = pc[t]
    BY <1>0, <1>5
       DEF SaveStep, CheckFile, CutFile, FillFile, ReadRegistry, CutRegistry, FillRegistry,
           Goto, SessionsOK
  <2>2. Saving' = Saving
    BY <1>1, <2>1 DEF Saving
  <2>3. NoLineBreaks'
    <3>1. CASE FillRegistry(s)
      <4>1. known' = known /\ registry' \in {SavedRegistry(Entries(s)), Garbled}
        BY <3>1 DEF FillRegistry
      <4>2. known[s] \in Listings
        BY <1>0, <1>2, <3>1 DEF FillRegistry, Holds, SessionsOK
      <4>3. Entries(s) \in [Ids -> {Entry(raw) : raw \in Payloads} \cup {None}]
        BY <1>2, <4>2 DEF Entries, Listings
      <4>4. Readable(registry') => \A id \in Ids : registry'[id] \notin LineBreaks
        BY <4>1, <4>3 DEF SavedRegistry, Readable, Unreadable
      <4> QED
        BY <4>1, <4>4 DEF NoLineBreaks, AloneInv, Readable
    <3>2. CASE ReadRegistry(s)
      <4>1. registry' = registry /\ known' = [known EXCEPT ![s] = registry] /\ Readable(registry)
        BY <1>5, <3>2 DEF ReadRegistry
      <4> QED
        BY <1>0, <4>1 DEF NoLineBreaks, AloneInv, SessionsOK
    <3>3. CASE CutRegistry(s)
      BY <3>3 DEF CutRegistry, NoLineBreaks, AloneInv, Readable, Unreadable
    <3>4. CASE CheckFile(s) \/ CutFile(s) \/ FillFile(s)
      BY <1>5, <3>4 DEF CheckFile, CutFile, FillFile, NoLineBreaks, AloneInv
    <3> QED
      BY <3>1, <3>2, <3>3, <3>4 DEF SaveStep
  <2>4. SaveOnItsOwn(s) => SaveOnItsOwn(s)'
    <3> SUFFICES ASSUME SaveOnItsOwn(s) PROVE SaveOnItsOwn(s)'
      OBVIOUS
    <3>1. CASE CheckFile(s)
      BY <1>0, <1>5, <2>1, <2>2, <3>1 DEF CheckFile, Goto, SessionsOK, SaveOnItsOwn
    <3>2. CASE CutFile(s)
      BY <1>0, <1>2, <2>1, <2>2, <3>2 DEF CutFile, Goto, SessionsOK, DataOK, SaveOnItsOwn
    <3>3. CASE FillFile(s)
      <4>1. files' = [files EXCEPT ![request[s].id] = SavedDefinition(loaded[s])]
        BY <3>3 DEF FillFile, SaveOnItsOwn
      <4> QED
        BY <1>0, <1>2, <2>1, <2>2, <3>3, <4>1
           DEF FillFile, Goto, SessionsOK, DataOK, SaveOnItsOwn
    <3>4. CASE ReadRegistry(s)
      BY <1>0, <1>2, <1>5, <2>1, <2>2, <3>4 DEF ReadRegistry, Goto, SessionsOK, SaveOnItsOwn
    <3>5. CASE CutRegistry(s)
      BY <1>0, <1>2, <2>1, <2>2, <3>5 DEF CutRegistry, Goto, SessionsOK, SaveOnItsOwn
    <3>6. CASE FillRegistry(s)
      <4>1. registry' = SavedRegistry(Entries(s)) /\ known' = known
        BY <3>6 DEF FillRegistry, SaveOnItsOwn
      <4>2. Entries(s)' = Entries(s)
        BY <2>1, <4>1 DEF Entries
      <4> QED
        BY <1>0, <1>2, <2>1, <2>2, <3>6, <4>1, <4>2
           DEF FillRegistry, Goto, SessionsOK, SaveOnItsOwn
    <3> QED
      BY <3>1, <3>2, <3>3, <3>4, <3>5, <3>6 DEF SaveStep
  <2> QED
    BY <1>3, <2>1, <2>3, <2>4 DEF AloneInv
<1> QED
  BY <1>4, <1>5

LEMMA NextKeepsAlone ==
  ASSUME AloneInv, [StudioNext]_vars
  PROVE  AloneInv'
<1>1. StudioTypeOK'
  BY NextKeepsTypes DEF AloneInv
<1>2. CASE UNCHANGED vars
  BY <1>1, <1>2 DEF AloneInv, NoLineBreaks, SaveOnItsOwn, Saving, Entries, vars
<1> QED
  BY <1>1, <1>2, OpenKeepsAlone, QuietKeepsAlone, SaveStepKeepsAlone
     DEF StudioNext, Finished

\* A save that no other save overlaps publishes what it validated and unlists
\* nothing, whatever torn files and whatever drafts it finds.
THEOREM AloneASaveIsAlwaysComplete == StudioSpec => []AloneASaveIsComplete
<1>1. AloneInv /\ [StudioNext]_vars => AloneInv'
  BY NextKeepsAlone
<1>2. ASSUME AloneInv PROVE AloneASaveIsComplete
  <2> SUFFICES ASSUME NEW s \in alone, pc[s] = "store", loaded[s].summary \notin LineBreaks
               PROVE  /\ files[request[s].id] = loaded[s]
                      /\ Readable(registry)
                      /\ registry[request[s].id] = Entry(loaded[s])
                      /\ \A id \in Ids \ {request[s].id} : registry[id] = known[s][id]
    BY DEF AloneASaveIsComplete
  <2>0. SessionsOK /\ s \in Saving /\ s \in Sessions
    BY <1>2, TypeParts DEF AloneInv, SessionsOK, Saving
  <2>1. /\ files[request[s].id] = SavedDefinition(loaded[s])
        /\ registry = SavedRegistry(Entries(s))
    BY <1>2 DEF AloneInv, SaveOnItsOwn
  <2>2. known[s] \in Listings /\ request[s].id \in Ids /\ loaded[s] \in Payloads
    BY <2>0, StudioAssumption DEF SessionsOK, Holds, Saving
  <2>3. Entries(s) \in Listings
    BY <2>2 DEF Entries, Listings
  <2>4. \A id \in Ids : Entries(s)[id] = IF id = request[s].id THEN Entry(loaded[s])
                                         ELSE known[s][id]
    BY <2>2 DEF Entries, Listings
  <2>5. \A id \in Ids : Entries(s)[id] \notin LineBreaks
    BY <1>2, <2>0, <2>2, <2>4, NoneIsNoValue DEF AloneInv, NoLineBreaks, Entry
  <2>6. DOMAIN Entries(s) = Ids
    BY <2>3 DEF Listings
  <2>7. registry = Entries(s)
    BY <2>1, <2>5, <2>6 DEF SavedRegistry
  <2> QED
    BY <2>1, <2>3, <2>4, <2>7, <2>2, NoneIsNoValue DEF SavedDefinition
<1> QED
  BY <1>1, <1>2, InitAlone, PTL DEF StudioSpec
===============================================================================
