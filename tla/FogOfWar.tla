------------------------------- MODULE FogOfWar -------------------------------
(***************************************************************************)
(* From the simulator to the two commanders' pictures: an ingest merges     *)
(* what Olympus and the gRPC streams report into the stored world and keeps  *)
(* it as evidence, sensor fusion turns world and evidence into the contact   *)
(* tracks of each coalition, and the observations of a decision cycle are    *)
(* built from one fusion.                                                    *)
(*                                                                           *)
(* A driver is a process: the live loop, or the commands that ingest and     *)
(* build observations by hand.  Each of its accesses to the database is a    *)
(* step (the reads that build one observation are one), and it may be killed *)
(* between any two.  Time is counted in ticks of a clock.                    *)
(***************************************************************************)
EXTENDS Naturals, Sequences, FiniteSets

CONSTANTS
  Drivers,    \* processes that drive the run
  Groups,     \* groups that exist in the mission
  Sectors,
  SideOf,     \* the coalition each group fights for
  Home,       \* where the scenario places the groups it knows
  Drift,      \* first neighbour of a sector, the sector itself if it has none
  Fresh, Decay, Archive, \* the windows of the fog-of-war policy
  Snapshots,  \* what Olympus may report: groups and their sectors, {} if it fails
  Streams,    \* what the unit stream may yield, <<>> if it fails
  Orders,     \* moves the execution of a cycle may make
  MaxClock,   \* bound on time
  MaxIngests, \* bound on the ingests that bring evidence
  MaxKills,   \* bound on the times a driver is killed
  None

VARIABLES
  clock,
  \* the store
  world,      \* world_groups
  lastIngest, \* world_state_snapshots.last_ingest_at
  evidence,   \* evidence_records about units
  tracks,     \* contact_tracks, rows are never deleted
  latest,     \* the latest row of fusion_updates, with what it was saved from
  obs,        \* the observation of the current cycle of each coalition
  \* a driver
  pc,
  stamp,      \* the time of its ingest, or of its pair of observations
  batch,      \* what its ingest fetched
  rows,       \* the world it read
  fusion,     \* the FusionUpdateResult it works with
  \* bounds
  ingests, kills

store  == <<world, lastIngest, evidence, tracks, latest, obs>>
locals == <<stamp, batch, rows, fusion>>
vars   == <<clock, store, pc, locals, ingests, kills>>

Sides == {"red", "blue"}

Row == [sector : Sectors, side : Sides \cup {None}, updated : 0..MaxClock]

\* A record of the unit stream: who reports which group where, and whose it
\* says the group is (None in what the DCS-gRPC normaliser makes).
Event == [group : Groups, seer : Sides, side : Sides \cup {None}, sector : Sectors]

\* An evidence record about a unit.  A sighting comes from the stream, the
\* rest from the complete picture of Olympus; slot tells apart the records of
\* one ingest, which a stream that reconnects may repeat.
Evidence == [ingest : Nat, slot : Nat, sighting : BOOLEAN, group : Groups,
             seer : Sides, sector : Sectors, at : 0..MaxClock]

ASSUME FogAssumption ==
  /\ Groups \cap {None} = {} /\ None \notin Row /\ None \notin 0..MaxClock
  /\ MaxClock \in Nat /\ MaxIngests \in Nat /\ MaxKills \in Nat
  /\ Fresh \in Nat /\ Decay \in Nat /\ Archive \in Nat
  /\ SideOf \in [Groups -> Sides]
  /\ Home \in [Groups -> Sectors \cup {None}]
  /\ Drift \in [Sectors -> Sectors]
  /\ \A s \in Snapshots : DOMAIN s \subseteq Groups /\ \A g \in DOMAIN s : s[g] \in Sectors
  /\ Orders \subseteq [group : Groups, sector : Sectors]
  \* The records of one poll agree about a group, and none changes sides.
  /\ Streams \subseteq Seq(Event)
  /\ \A ev \in Streams : \A i, j \in DOMAIN ev :
       /\ ev[i].side \in {None, SideOf[ev[i].group]}
       /\ ev[i].group = ev[j].group => ev[i].sector = ev[j].sector /\ ev[i].side = ev[j].side

-------------------------------------------------------------------------------
(* World ingest: WorldStateUpdater.apply_integration_updates. *)

\* What the stream of a batch says of a group.
Reports(b, g) == {b.stream[i] : i \in {j \in DOMAIN b.stream : b.stream[j].group = g}}

\* Rows for what Olympus reports, then rows for what the stream reports; the
\* other rows are kept as they were read.
MergedRow(row, b, g, now) ==
  LET known == IF row = None THEN None ELSE row.side
      side  == IF g \in DOMAIN b.snapshot THEN SideOf[g] ELSE known
  IN IF Reports(b, g) # {}
       THEN LET r == CHOOSE r \in Reports(b, g) : TRUE IN
            [sector |-> r.sector, side |-> IF r.side = None THEN side ELSE r.side, updated |-> now]
       ELSE IF g \in DOMAIN b.snapshot
         THEN [sector |-> b.snapshot[g], side |-> SideOf[g], updated |-> now]
         ELSE row

Merged(read, b, now) == [g \in Groups |-> MergedRow(read[g], b, g, now)]

EvidenceOf(b, n, now) ==
  {[ingest |-> n, slot |-> 0, sighting |-> FALSE, group |-> g, seer |-> SideOf[g],
    sector |-> b.snapshot[g], at |-> now] : g \in DOMAIN b.snapshot}
  \cup
  {[ingest |-> n, slot |-> i, sighting |-> TRUE, group |-> b.stream[i].group,
    seer |-> b.stream[i].seer, sector |-> b.stream[i].sector, at |-> now] :
      i \in DOMAIN b.stream}

-------------------------------------------------------------------------------
(* Sensor fusion: SensorFusionService.preview. *)

\* _visible_to_coalition, for a group of the other coalition.
MutVisible(c, e) == ~ e.sighting \/ e.seer = c

Visible(c, e) == e.seer = c

Enemies(c, w) == {g \in Groups : w[g] # None /\ w[g].side \notin {None, c}}

Backing(c, g, e) == {r \in e : r.group = g /\ Visible(c, r)}

Age(r, now) == IF now >= r.at THEN now - r.at ELSE 0

\* The last confirmation of a track is older than a window.
Past(backing, now, window) == \A r \in backing : Age(r, now) >= window

\* _confidence_for_age
Confidence(backing, now) ==
  IF ~ Past(backing, now, Fresh) THEN IF Cardinality(backing) > 1 THEN "high" ELSE "medium"
  ELSE IF ~ Past(backing, now, Decay) THEN "medium" ELSE "low"

\* _build_track: both places come from the row of the group in the world.
Track(backing, row, now) ==
  [backing |-> backing, confidence |-> Confidence(backing, now),
   stale |-> Past(backing, now, Decay), archived |-> Past(backing, now, Archive),
   last |-> row.sector,
   estimated |-> IF Past(backing, now, Decay) THEN Drift[row.sector] ELSE None]

\* _build_knowledge_state: the tracks of a coalition.
Knowledge(c, w, e, now) ==
  [g \in Groups |->
     IF g \in Enemies(c, w) /\ Backing(c, g, e) # {}
       THEN Track(Backing(c, g, e), w[g], now) ELSE None]

Fusion(w, e, now) == [c \in Sides |-> Knowledge(c, w, e, now)]

-------------------------------------------------------------------------------
(* Observations. *)

\* _build_enemy_contacts: the tracks that are not archived.
Contacts(known) ==
  [g \in Groups |-> IF known[g] # None /\ ~ known[g].archived THEN known[g] ELSE None]

Init ==
  /\ clock = 0
  /\ world = [g \in Groups |-> IF Home[g] = None THEN None
                ELSE [sector |-> Home[g], side |-> SideOf[g], updated |-> 0]]
  /\ lastIngest = None
  /\ evidence = {}
  /\ tracks = [c \in Sides |-> [g \in Groups |-> None]]
  /\ latest = None
  /\ obs = [c \in Sides |-> None]
  /\ pc = [d \in Drivers |-> "idle"]
  /\ stamp = [d \in Drivers |-> None]
  /\ batch = [d \in Drivers |-> None]
  /\ rows = [d \in Drivers |-> None]
  /\ fusion = [d \in Drivers |-> None]
  /\ ingests = 0
  /\ kills = 0

Step(d, from, to) == pc[d] = from /\ pc' = [pc EXCEPT ![d] = to]

Tick ==
  /\ clock < MaxClock
  /\ clock' = clock + 1
  /\ UNCHANGED <<store, pc, locals, ingests, kills>>

\* ingest_once takes the time and asks the sources, each of which may fail,
\* and apply_integration_updates reads the world.
Collect(d) ==
  /\ Step(d, "idle", "collected")
  /\ stamp' = [stamp EXCEPT ![d] = clock]
  /\ \E s \in Snapshots, ev \in Streams :
       /\ ev # <<>> \/ DOMAIN s # {} => ingests < MaxIngests
       /\ batch' = [batch EXCEPT ![d] = [snapshot |-> s, stream |-> ev]]
  /\ rows' = [rows EXCEPT ![d] = world]
  /\ UNCHANGED <<clock, store, fusion, ingests, kills>>

\* save_world_state_snapshot writes every row, also those that did not change,
\* and the time of the ingest, also when every source failed.
MutIngestTime(d) == IF batch[d].stream = <<>> /\ DOMAIN batch[d].snapshot = {} THEN lastIngest ELSE stamp[d]

IngestTime(d) == stamp[d]

MutRecorded(d) == EvidenceOf(batch[d], ingests, stamp[d])

Recorded(d) == evidence \cup EvidenceOf(batch[d], ingests, stamp[d])

SaveWorld(d) ==
  /\ Step(d, "collected", "ingested")
  /\ world' = Merged(rows[d], batch[d], stamp[d])
  /\ lastIngest' = IngestTime(d)
  /\ evidence' = Recorded(d)
  /\ ingests' = IF EvidenceOf(batch[d], ingests, stamp[d]) = {} THEN ingests ELSE ingests + 1
  /\ batch' = [batch EXCEPT ![d] = None]
  /\ rows' = [rows EXCEPT ![d] = None]
  /\ UNCHANGED <<clock, tracks, latest, obs, stamp, fusion, kills>>

\* build_observation_pair dates the pair by the last ingest.
MutPairTime == lastIngest

PairTime == IF lastIngest = None THEN clock ELSE lastIngest

Open(d) ==
  /\ pc[d] \in {"idle", "ingested"}
  /\ pc' = [pc EXCEPT ![d] = "opened"]
  /\ stamp' = [stamp EXCEPT ![d] = PairTime]
  /\ UNCHANGED <<clock, store, batch, rows, fusion, ingests, kills>>

Preview(d) ==
  /\ Step(d, "opened", "fused")
  /\ fusion' = [fusion EXCEPT ![d] = Fusion(world, evidence, stamp[d])]
  /\ UNCHANGED <<clock, store, stamp, batch, rows, ingests, kills>>

\* save_fusion_update upserts the tracks of the fusion.
Kept(old, new) == [g \in Groups |-> IF new[g] = None THEN old[g] ELSE new[g]]

SaveFusion(d) ==
  /\ Step(d, "fused", "red")
  /\ tracks' = [c \in Sides |-> Kept(tracks[c], fusion[d][c])]
  /\ latest' = fusion[d]
  /\ UNCHANGED <<clock, world, lastIngest, evidence, obs, locals, ingests, kills>>

\* build_observation, with the fusion of the pair; the artifact cites the
\* latest fusion update of the store.
MutPicture(d, c) == IF c = "blue" THEN Knowledge(c, world, evidence, clock) ELSE fusion[d][c]

Picture(d, c) == fusion[d][c]

MutArtifact(d, c) ==
  [at |-> clock, cites |-> latest, contacts |-> Contacts(Picture(d, c))]

Artifact(d, c) ==
  [at |-> stamp[d], cites |-> latest, contacts |-> Contacts(Picture(d, c))]

Observe(d) ==
  \E c \in Sides :
    /\ Step(d, c, IF c = "red" THEN "blue" ELSE "observed")
    /\ obs' = [obs EXCEPT ![c] = Artifact(d, c)]
    /\ UNCHANGED <<clock, world, lastIngest, evidence, tracks, latest, locals, ingests, kills>>

\* Actions of the cycle may move groups: execution writes where they are sent.
MutMoving(d) == pc[d] \in {"observed", "collected"}

Moving(d) == pc[d] = "observed"

Move(d) ==
  /\ Moving(d)
  /\ \E o \in Orders :
       /\ world[o.group] # None
       /\ world' = [world EXCEPT ![o.group] = [@ EXCEPT !.sector = o.sector, !.updated = clock]]
  /\ UNCHANGED <<clock, lastIngest, evidence, tracks, latest, obs, pc, locals, ingests, kills>>

EndCycle(d) ==
  /\ Step(d, "observed", "idle")
  /\ stamp' = [stamp EXCEPT ![d] = None]
  /\ fusion' = [fusion EXCEPT ![d] = None]
  /\ UNCHANGED <<clock, store, batch, rows, ingests, kills>>

\* The process is killed, or a step of it fails, and it starts over.
Killed(d) ==
  /\ pc[d] # "idle"
  /\ kills < MaxKills
  /\ pc' = [pc EXCEPT ![d] = "idle"]
  /\ stamp' = [stamp EXCEPT ![d] = None]
  /\ batch' = [batch EXCEPT ![d] = None]
  /\ rows' = [rows EXCEPT ![d] = None]
  /\ fusion' = [fusion EXCEPT ![d] = None]
  /\ kills' = kills + 1
  /\ UNCHANGED <<clock, store, ingests>>

Advance(d) == SaveWorld(d) \/ Preview(d) \/ SaveFusion(d) \/ Observe(d) \/ EndCycle(d)

Next ==
  \/ Tick
  \/ \E d \in Drivers : Collect(d) \/ Open(d) \/ Advance(d) \/ Move(d) \/ Killed(d)

Spec == Init /\ [][Next]_vars

\* The loop ingests in every cycle, whatever pictures are built between two
\* of its ingests, and a step it has begun is not put off for ever.
Fairness ==
  /\ WF_vars(Tick)
  /\ \A d \in Drivers : SF_vars(Collect(d)) /\ WF_vars(Open(d)) /\ WF_vars(Advance(d))

FairSpec == Spec /\ Fairness

-------------------------------------------------------------------------------
(* Properties. *)

Tracks == [backing : SUBSET Evidence, confidence : {"low", "medium", "high"},
           stale : BOOLEAN, archived : BOOLEAN, last : Sectors, estimated : Sectors \cup {None}]

Knowledges == [Sides -> [Groups -> Tracks \cup {None}]]

Artifacts == [at : 0..MaxClock, cites : Knowledges, contacts : [Groups -> Tracks \cup {None}]]

Batches == [snapshot : Snapshots, stream : Streams]

\* None is no value of the program.
ASSUME NoneAssumption ==
  /\ None \notin Tracks /\ None \notin Knowledges /\ None \notin Artifacts
  /\ None \notin Batches /\ None \notin [Groups -> Row \cup {None}]

Stages == {"idle", "collected", "ingested", "opened", "fused", "red", "blue", "observed"}

\* The store holds rows, evidence, tracks and observations of the shapes above,
\* and a driver has what its stage needs: the time of its work, the batch and
\* the world it merges, the fusion it shows.
TypeOK ==
  /\ clock \in 0..MaxClock
  /\ world \in [Groups -> Row \cup {None}]
  /\ lastIngest \in 0..MaxClock \cup {None}
  /\ evidence \subseteq Evidence
  /\ tracks \in Knowledges
  /\ latest \in Knowledges \cup {None}
  /\ obs \in [Sides -> Artifacts \cup {None}]
  /\ pc \in [Drivers -> Stages]
  /\ stamp \in [Drivers -> 0..MaxClock \cup {None}]
  /\ batch \in [Drivers -> Batches \cup {None}]
  /\ rows \in [Drivers -> [Groups -> Row \cup {None}] \cup {None}]
  /\ fusion \in [Drivers -> Knowledges \cup {None}]
  /\ ingests \in Nat
  /\ kills \in Nat
  /\ \A d \in Drivers :
       /\ pc[d] # "idle" => stamp[d] # None
       /\ pc[d] = "collected" => batch[d] # None /\ rows[d] # None
       /\ pc[d] \in {"fused", "red", "blue", "observed"} => fusion[d] # None
       /\ pc[d] \in {"red", "blue"} => latest # None

\* A commander is never shown an enemy that its own side has not sighted: every
\* contact of an observation stands for a group of the other coalition, is
\* backed by a sighting that this coalition reported, is not past the archive
\* window, and Olympus's complete picture of the enemy makes no contact
\* (OBSERVATION-SPEC.md:49, _visible_to_coalition).
OnlySightedContacts ==
  \A c \in Sides, g \in Groups :
    obs[c] # None /\ obs[c].contacts[g] # None =>
      /\ SideOf[g] # c
      /\ ~ obs[c].contacts[g].archived
      /\ \E r \in evidence : r.sighting /\ r.group = g /\ r.seer = c

\* The observation of a coalition cites the fusion update its contacts come
\* from (get_latest_fusion_update_id is asked after the fusion was saved).
CitesItsFusion ==
  \A c \in Sides : obs[c] # None => obs[c].contacts = Contacts(obs[c].cites[c])

\* Snapshot fairness: when the second observation of a cycle is saved, both
\* show the same fusion, of the same time, whatever was ingested or moved since
\* (ARCHITECTURE.md:292, build_observation_pair).
SnapshotFairness ==
  [][\A d \in Drivers : pc[d] = "blue" /\ pc'[d] = "observed" =>
       /\ obs'["red"].at = obs'["blue"].at
       /\ obs'["red"].cites = obs'["blue"].cites
       /\ \A c \in Sides : obs'[c].contacts = Contacts(fusion[d][c])]_vars

\* A stored track loses no evidence, and without a new confirmation it only
\* ages: it does not turn live again, leave the archive or gain confidence
\* (OBSERVATION-SPEC.md:242, "must never silently upgrade").
Rank(confidence) == CASE confidence = "low" -> 0 [] confidence = "medium" -> 1 [] OTHER -> 2

OnlyAges(old, new) ==
  /\ old.backing \subseteq new.backing
  /\ old.backing = new.backing =>
       /\ old.stale => new.stale
       /\ old.archived => new.archived
       /\ Rank(new.confidence) <= Rank(old.confidence)

TracksOnlyAge ==
  [][\A c \in Sides, g \in Groups :
       tracks[c][g] # None => tracks'[c][g] # None /\ OnlyAges(tracks[c][g], tracks'[c][g])]_tracks

\* No ingest overwrites a row of the world with an older one, although it
\* writes back every row it read before it asked for the store again
\* (apply_integration_updates, save_world_state_snapshot).
WorldNeverGoesBack ==
  [][\A g \in Groups : world[g] # None =>
       world'[g] # None /\ world'[g].updated >= world[g].updated]_world

\* A track that nobody confirms is archived once its window has passed, also
\* when the sources have gone silent (OBSERVATION-SPEC.md:401).
Due(track) == \A r \in track.backing : r.at + Archive <= MaxClock

UnconfirmedTracksAreArchived ==
  <>[](\A c \in Sides, g \in Groups :
         tracks[c][g] # None /\ Due(tracks[c][g]) => tracks[c][g].archived)

\* What OBSERVATION-SPEC.md:403 asks of a contact: its last known sector is one
\* in which the coalition has seen it.
LastKnownWasSeen ==
  \A c \in Sides, g \in Groups :
    obs[c] # None /\ obs[c].contacts[g] # None =>
      \E r \in obs[c].contacts[g].backing : r.sector = obs[c].contacts[g].last

===============================================================================
