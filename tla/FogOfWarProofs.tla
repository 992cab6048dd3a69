---------------------------- MODULE FogOfWarProofs ----------------------------
(***************************************************************************)
(* What the fog of war keeps from a commander, for every set of drivers, of  *)
(* groups and of sectors, every policy and every batch the sources report.   *)
(***************************************************************************)
EXTENDS FogOfWar, TLAPS

\* A merged row is a row, and groups do not change sides in it; what is merged anew
\* is dated by the ingest.
SidesKept(w) == \A g \in Groups : w[g] # None => w[g].side \in {None, SideOf[g]}

LEMMA MergedIsAWorld ==
  ASSUME NEW w \in [Groups -> Row \cup {None}], NEW b \in Batches,
         NEW now \in 0..MaxClock, SidesKept(w)
  PROVE  /\ Merged(w, b, now) \in [Groups -> Row \cup {None}]
         /\ SidesKept(Merged(w, b, now))
         /\ \A g \in Groups : \/ Merged(w, b, now)[g] = w[g]
                               \/ Merged(w, b, now)[g] \in {x \in Row : x.updated = now}
<1> USE FogAssumption
<1>1. ASSUME NEW g \in Groups
      PROVE  /\ MergedRow(w[g], b, g, now) \in Row \cup {None}
             /\ MergedRow(w[g], b, g, now) # None =>
                  MergedRow(w[g], b, g, now).side \in {None, SideOf[g]}
             /\ \/ MergedRow(w[g], b, g, now) = w[g]
                \/ MergedRow(w[g], b, g, now) \in {x \in Row : x.updated = now}
  <2> DEFINE known == IF w[g] = None THEN None ELSE w[g].side
             side  == IF g \in DOMAIN b.snapshot THEN SideOf[g] ELSE known
  <2>1. SideOf[g] \in Sides /\ side \in {None, SideOf[g]}
    BY DEF SidesKept
  <2>2. b.snapshot \in Snapshots /\ b.stream \in Streams
    BY DEF Batches
  <2>3. CASE Reports(b, g) # {}
    <3> DEFINE r == CHOOSE x \in Reports(b, g) : TRUE
    <3>1. r \in Reports(b, g)
      BY <2>3
    <3>2. PICK j \in DOMAIN b.stream : r = b.stream[j] /\ b.stream[j].group = g
      BY <3>1 DEF Reports
    <3>3. r \in Event /\ r.side \in {None, SideOf[g]}
      <4>1. b.stream \in Seq(Event)
        BY <2>2
      <4>2. b.stream[j] \in Event
        BY <4>1
      <4>3. b.stream[j].side \in {None, SideOf[b.stream[j].group]}
        BY <2>2
      <4> HIDE DEF r
      <4> QED
        BY <3>2, <4>2, <4>3
    <3>4. MergedRow(w[g], b, g, now) =
            [sector |-> r.sector, side |-> IF r.side = None THEN side ELSE r.side, updated |-> now]
      BY <2>3 DEF MergedRow
    <3> HIDE DEF side, r
    <3>5. r.sector \in Sectors
      BY <3>3 DEF Event
    <3> QED
      BY <2>1, <3>3, <3>4, <3>5 DEF Row
  <2>4. CASE Reports(b, g) = {} /\ g \in DOMAIN b.snapshot
    <3>1. MergedRow(w[g], b, g, now) =
            [sector |-> b.snapshot[g], side |-> SideOf[g], updated |-> now]
      BY <2>4 DEF MergedRow
    <3>2. b.snapshot[g] \in Sectors
      BY <2>2, <2>4
    <3> QED
      BY <2>1, <3>1, <3>2 DEF Row
  <2>5. CASE Reports(b, g) = {} /\ g \notin DOMAIN b.snapshot
    BY <2>5 DEF MergedRow, SidesKept
  <2> QED
    BY <2>3, <2>4, <2>5
<1> QED
  BY <1>1 DEF Merged, SidesKept

\* What an ingest records is evidence, and Olympus reports a group to its own
\* side only.
OwnPicture(e) == \A r \in e : ~ r.sighting => r.seer = SideOf[r.group]

LEMMA RecordedIsEvidence ==
  ASSUME NEW b \in Batches, NEW n \in Nat, NEW now \in 0..MaxClock
  PROVE  EvidenceOf(b, n, now) \subseteq Evidence /\ OwnPicture(EvidenceOf(b, n, now))
<1> USE FogAssumption
<1>1. b.snapshot \in Snapshots /\ b.stream \in Streams /\ b.stream \in Seq(Event)
  BY DEF Batches
<1>2. ASSUME NEW g \in DOMAIN b.snapshot
      PROVE  [ingest |-> n, slot |-> 0, sighting |-> FALSE, group |-> g, seer |-> SideOf[g],
              sector |-> b.snapshot[g], at |-> now] \in Evidence
  <2>1. g \in Groups /\ SideOf[g] \in Sides /\ b.snapshot[g] \in Sectors
    BY <1>1, <1>2
  <2> QED
    BY <2>1 DEF Evidence
<1>3. ASSUME NEW i \in DOMAIN b.stream
      PROVE  [ingest |-> n, slot |-> i, sighting |-> TRUE, group |-> b.stream[i].group,
              seer |-> b.stream[i].seer, sector |-> b.stream[i].sector, at |-> now] \in Evidence
  <2>1. b.stream[i] \in Event /\ i \in Nat
    BY <1>1, <1>3
  <2>2. /\ b.stream[i].group \in Groups
        /\ b.stream[i].seer \in Sides
        /\ b.stream[i].sector \in Sectors
    BY <2>1 DEF Event
  <2> QED
    BY <2>1, <2>2 DEF Evidence
<1> QED
  BY <1>2, <1>3 DEF EvidenceOf, OwnPicture

\* A contact of a coalition stands for a group of the other one that it sighted.
Sighted(c, g, e) == SideOf[g] # c /\ \E r \in e : r.sighting /\ r.group = g /\ r.seer = c

Sourced(f, e) == \A c \in Sides, g \in Groups : f[c][g] # None => Sighted(c, g, e)

LEMMA FusionIsSourced ==
  ASSUME NEW w \in [Groups -> Row \cup {None}], NEW e, e \subseteq Evidence, NEW now,
         SidesKept(w), OwnPicture(e)
  PROVE  Fusion(w, e, now) \in Knowledges /\ Sourced(Fusion(w, e, now), e)
<1>1. ASSUME NEW c \in Sides, NEW g \in Groups, g \in Enemies(c, w), Backing(c, g, e) # {}
      PROVE  Track(Backing(c, g, e), w[g], now) \in Tracks /\ Sighted(c, g, e)
  <2>1. w[g] \in Row /\ w[g].side \notin {None, c} /\ w[g].side \in {None, SideOf[g]}
    BY <1>1 DEF Enemies, SidesKept
  <2>2. Sighted(c, g, e)
    BY <1>1, <2>1 DEF Backing, Visible, OwnPicture, Sighted
  <2>3. w[g].sector \in Sectors /\ Drift[w[g].sector] \in Sectors
    BY <2>1, FogAssumption DEF Row
  <2>4. Backing(c, g, e) \subseteq Evidence
    BY DEF Backing
  <2>5. /\ Past(Backing(c, g, e), now, Decay) \in BOOLEAN
        /\ Past(Backing(c, g, e), now, Archive) \in BOOLEAN
    BY DEF Past
  <2>6. Confidence(Backing(c, g, e), now) \in {"low", "medium", "high"}
    BY DEF Confidence
  <2> QED
    BY <2>2, <2>3, <2>4, <2>5, <2>6 DEF Track, Tracks
<1> QED
  BY <1>1 DEF Fusion, Knowledge, Knowledges, Sourced

\* An observation shows tracks, and no archived one.
LEMMA ContactsAreLive ==
  ASSUME NEW known \in [Groups -> Tracks \cup {None}]
  PROVE  /\ Contacts(known) \in [Groups -> Tracks \cup {None}]
         /\ \A g \in Groups : Contacts(known)[g] # None =>
              known[g] # None /\ ~ Contacts(known)[g].archived
  BY DEF Contacts

-------------------------------------------------------------------------------
(* The inductive invariant.  An observation shows what a driver fused several *)
(* steps before, from a world it read or merged before that, so the invariant  *)
(* speaks of what each driver still holds.                                     *)

FogInv ==
  /\ TypeOK
  /\ SidesKept(world)
  /\ \A d \in Drivers : rows[d] # None => SidesKept(rows[d])
  /\ OwnPicture(evidence)
  /\ \A d \in Drivers : fusion[d] # None => Sourced(fusion[d], evidence)
  /\ OnlySightedContacts

LEMMA InitFog == Init => FogInv
<1> SUFFICES ASSUME Init PROVE FogInv
  OBVIOUS
<1> USE FogAssumption DEF Init
<1>1. world \in [Groups -> Row \cup {None}] /\ SidesKept(world)
  BY DEF Row, SidesKept
<1>2. tracks \in Knowledges
  BY DEF Knowledges
<1>3. TypeOK
  BY <1>1, <1>2 DEF TypeOK, Stages
<1> QED
  BY <1>1, <1>3 DEF FogInv, OwnPicture, OnlySightedContacts

\* Evidence is never dropped, and no step but the two that fuse and show
\* touches a fusion or an observation.
LEMMA SourcesStay ==
  ASSUME FogInv, evidence \subseteq evidence', OwnPicture(evidence'),
         \A d \in Drivers : fusion'[d] \in {fusion[d], None},
         obs' = obs, TypeOK', SidesKept(world'),
         \A d \in Drivers : rows'[d] # None => SidesKept(rows'[d])
  PROVE  FogInv'
<1>1. \A d \in Drivers : fusion'[d] # None => Sourced(fusion'[d], evidence')
  BY DEF FogInv, Sourced, Sighted
<1>2. OnlySightedContacts'
  BY DEF FogInv, OnlySightedContacts
<1> QED
  BY <1>1, <1>2 DEF FogInv

LEMMA SaveWorldKeeps ==
  ASSUME FogInv, NEW d \in Drivers, SaveWorld(d) PROVE FogInv'
<1> USE FogAssumption
<1>1. /\ batch[d] \in Batches /\ rows[d] \in [Groups -> Row \cup {None}]
      /\ stamp[d] \in 0..MaxClock /\ ingests \in Nat /\ SidesKept(rows[d])
  BY DEF FogInv, TypeOK, SaveWorld, Step
<1>2. world' \in [Groups -> Row \cup {None}] /\ SidesKept(world')
  BY <1>1, MergedIsAWorld DEF SaveWorld
<1>3. /\ EvidenceOf(batch[d], ingests, stamp[d]) \subseteq Evidence
      /\ OwnPicture(EvidenceOf(batch[d], ingests, stamp[d]))
  BY <1>1, RecordedIsEvidence
<1>4. evidence \subseteq evidence' /\ evidence' \subseteq Evidence /\ OwnPicture(evidence')
  BY <1>3 DEF SaveWorld, Recorded, FogInv, TypeOK, OwnPicture
<1>5. /\ lastIngest' \in 0..MaxClock \cup {None} /\ ingests' \in Nat
      /\ batch' \in [Drivers -> Batches \cup {None}]
      /\ rows' \in [Drivers -> [Groups -> Row \cup {None}] \cup {None}]
      /\ pc' \in [Drivers -> Stages]
  BY <1>1 DEF FogInv, TypeOK, SaveWorld, Step, IngestTime, Stages
<1>6. \A e \in Drivers :
        /\ pc'[e] # "idle" => stamp'[e] # None
        /\ pc'[e] = "collected" => batch'[e] # None /\ rows'[e] # None
        /\ pc'[e] \in {"fused", "red", "blue", "observed"} => fusion'[e] # None
        /\ pc'[e] \in {"red", "blue"} => latest' # None
  BY DEF FogInv, TypeOK, SaveWorld, Step
<1>7. TypeOK'
  BY <1>2, <1>4, <1>5, <1>6 DEF FogInv, TypeOK, SaveWorld
<1> QED
  BY <1>2, <1>4, <1>7, SourcesStay DEF SaveWorld, FogInv, TypeOK

LEMMA PreviewKeeps ==
  ASSUME FogInv, NEW d \in Drivers, Preview(d) PROVE FogInv'
<1>1. /\ Fusion(world, evidence, stamp[d]) \in Knowledges
      /\ Sourced(Fusion(world, evidence, stamp[d]), evidence)
  BY FusionIsSourced DEF FogInv, TypeOK
<1>2. /\ fusion' \in [Drivers -> Knowledges \cup {None}]
      /\ \A e \in Drivers : fusion'[e] # None => Sourced(fusion'[e], evidence)
      /\ fusion'[d] # None
  BY <1>1, NoneAssumption DEF FogInv, TypeOK, Preview
<1>3. TypeOK'
  BY <1>2 DEF FogInv, TypeOK, Preview, Step, Stages, store
<1> QED
  BY <1>2, <1>3 DEF FogInv, Preview, OnlySightedContacts, store

LEMMA SaveFusionKeeps ==
  ASSUME FogInv, NEW d \in Drivers, SaveFusion(d) PROVE FogInv'
<1>1. fusion[d] \in Knowledges /\ tracks \in Knowledges
  BY DEF FogInv, TypeOK, SaveFusion, Step
<1>2. tracks' \in Knowledges
  BY <1>1 DEF SaveFusion, Kept, Knowledges
<1>3. TypeOK'
  BY <1>1, <1>2, NoneAssumption DEF FogInv, TypeOK, SaveFusion, Step, Stages, locals
<1> QED
  BY <1>3, SourcesStay DEF FogInv, SaveFusion, TypeOK, locals

LEMMA ObserveKeeps ==
  ASSUME FogInv, NEW d \in Drivers, Observe(d) PROVE FogInv'
<1>1. PICK c \in Sides :
        /\ pc[d] = c
        /\ pc' = [pc EXCEPT ![d] = IF c = "red" THEN "blue" ELSE "observed"]
        /\ obs' = [obs EXCEPT ![c] = Artifact(d, c)]
        /\ UNCHANGED <<clock, world, lastIngest, evidence, tracks, latest, locals, ingests, kills>>
  BY DEF Observe, Step
<1>2. /\ fusion[d] \in Knowledges /\ stamp[d] \in 0..MaxClock /\ latest \in Knowledges
      /\ Sourced(fusion[d], evidence)
  BY <1>1 DEF FogInv, TypeOK, Sides
<1>3. /\ Contacts(Picture(d, c)) \in [Groups -> Tracks \cup {None}]
      /\ \A g \in Groups : Contacts(Picture(d, c))[g] # None =>
           Sighted(c, g, evidence) /\ ~ Contacts(Picture(d, c))[g].archived
  BY <1>2, ContactsAreLive DEF Picture, Knowledges, Sourced
<1>4. Artifact(d, c) \in Artifacts
  BY <1>2, <1>3 DEF Artifact, Artifacts
<1>5. obs' \in [Sides -> Artifacts \cup {None}]
  BY <1>1, <1>4 DEF FogInv, TypeOK
<1>6. OnlySightedContacts'
  <2> SUFFICES ASSUME NEW s \in Sides, NEW g \in Groups,
                      obs'[s] # None, obs'[s].contacts[g] # None
               PROVE  /\ SideOf[g] # s
                      /\ ~ obs'[s].contacts[g].archived
                      /\ \E r \in evidence' : r.sighting /\ r.group = g /\ r.seer = s
    BY DEF OnlySightedContacts
  <2>1. CASE s = c
    <3>1. obs'[s].contacts = Contacts(Picture(d, c))
      BY <1>1, <2>1 DEF FogInv, TypeOK, Artifact
    <3> QED
      BY <1>1, <1>3, <2>1, <3>1 DEF Sighted
  <2>2. CASE s # c
    <3>1. obs'[s] = obs[s] /\ evidence' = evidence
      BY <1>1, <2>2 DEF FogInv, TypeOK
    <3> QED
      BY <3>1 DEF FogInv, OnlySightedContacts
  <2> QED
    BY <2>1, <2>2
<1>7. TypeOK'
  BY <1>1, <1>5 DEF FogInv, TypeOK, locals, Stages, Sides
<1> QED
  BY <1>1, <1>6, <1>7 DEF FogInv, locals

LEMMA OthersKeep ==
  ASSUME FogInv, NEW d \in Drivers,
         Collect(d) \/ Open(d) \/ EndCycle(d) \/ Move(d) \/ Killed(d)
  PROVE  FogInv'
<1> USE FogAssumption
<1>2. CASE Collect(d)
  <2>1. PICK b \in Batches : batch' = [batch EXCEPT ![d] = b]
    BY <1>2 DEF Collect, Batches
  <2>2. rows' \in [Drivers -> [Groups -> Row \cup {None}] \cup {None}]
        /\ \A e \in Drivers : rows'[e] # None => SidesKept(rows'[e])
    BY <1>2 DEF FogInv, TypeOK, Collect
  <2>3. world # None /\ b # None
    BY NoneAssumption DEF FogInv, TypeOK
  <2>4. TypeOK'
    BY <1>2, <2>1, <2>2, <2>3 DEF FogInv, TypeOK, Collect, Step, Stages, store
  <2> QED
    BY <1>2, <2>2, <2>4, SourcesStay DEF FogInv, TypeOK, Collect, store
<1>3. CASE Open(d)
  <2>1. TypeOK'
    BY <1>3 DEF FogInv, TypeOK, Open, PairTime, Stages, store
  <2> QED
    BY <1>3, <2>1, SourcesStay DEF FogInv, TypeOK, Open, store
<1>4. CASE EndCycle(d)
  <2>1. TypeOK'
    BY <1>4 DEF FogInv, TypeOK, EndCycle, Step, Stages, store
  <2> QED
    BY <1>4, <2>1, SourcesStay DEF FogInv, TypeOK, EndCycle, store
<1>5. CASE Move(d)
  <2>1. PICK o \in Orders :
          /\ world[o.group] # None
          /\ world' = [world EXCEPT ![o.group] = [@ EXCEPT !.sector = o.sector, !.updated = clock]]
    BY <1>5 DEF Move
  <2>2. o.group \in Groups /\ o.sector \in Sectors /\ world[o.group] \in Row
    BY <2>1 DEF FogInv, TypeOK
  <2>3. [world[o.group] EXCEPT !.sector = o.sector, !.updated = clock] \in Row
    BY <2>2 DEF Row, FogInv, TypeOK
  <2>4. world' \in [Groups -> Row \cup {None}] /\ SidesKept(world')
    BY <2>1, <2>2, <2>3 DEF FogInv, TypeOK, SidesKept, Row
  <2>5. TypeOK'
    BY <1>5, <2>4 DEF FogInv, TypeOK, Move, Moving, locals
  <2> QED
    BY <1>5, <2>4, <2>5, SourcesStay DEF FogInv, TypeOK, Move, locals
<1>6. CASE Killed(d)
  <2>1. TypeOK'
    BY <1>6 DEF FogInv, TypeOK, Killed, Stages, store
  <2> QED
    BY <1>6, <2>1, SourcesStay DEF FogInv, TypeOK, Killed, store
<1> QED
  BY <1>2, <1>3, <1>4, <1>5, <1>6

LEMMA NextKeeps == FogInv /\ [Next]_vars => FogInv'
<1> SUFFICES ASSUME FogInv, [Next]_vars PROVE FogInv'
  OBVIOUS
<1>1. CASE Tick
  <2>1. TypeOK'
    BY <1>1, FogAssumption DEF FogInv, TypeOK, Tick, store, locals
  <2> QED
    BY <1>1, <2>1, SourcesStay DEF FogInv, TypeOK, Tick, store, locals
<1>2. CASE UNCHANGED vars
  BY <1>2 DEF vars, store, locals, FogInv, TypeOK, OnlySightedContacts
<1>3. ASSUME NEW d \in Drivers, Collect(d) \/ Open(d) \/ Advance(d) \/ Move(d) \/ Killed(d)
      PROVE FogInv'
  BY <1>3, SaveWorldKeeps, PreviewKeeps, SaveFusionKeeps, ObserveKeeps, OthersKeep DEF Advance
<1> QED
  BY <1>1, <1>2, <1>3 DEF Next

THEOREM FogInductive == Spec => []FogInv
  BY InitFog, NextKeeps, PTL DEF Spec

\* Type correctness of the store and of what the drivers hold.
THEOREM FogTypeCorrect == Spec => []TypeOK
<1>1. FogInv => TypeOK
  BY DEF FogInv
<1> QED
  BY <1>1, FogInductive, PTL

\* No commander is shown an enemy group that its own coalition has not sighted
\* (_visible_to_coalition), whichever processes ingest, fuse and build
\* observations at the same time, and wherever they are killed.
THEOREM CommandersSeeOnlySightedEnemies == Spec => []OnlySightedContacts
<1>1. FogInv => OnlySightedContacts
  BY DEF FogInv
<1> QED
  BY <1>1, FogInductive, PTL

-------------------------------------------------------------------------------
(* What one process drives.  Two that build observations of the same run may   *)
(* cite each other's fusion and pair observations of different fusions: the    *)
(* store asks for the latest fusion update, not for the one of the pair.       *)

Sole == \A d, e \in Drivers : d = e

\* Between the fusion and the second observation, the store holds the fusion of
\* the pair, and then also its first observation.
PairInv ==
  /\ FogInv
  /\ \A d \in Drivers : pc[d] \in {"red", "blue"} => latest = fusion[d]
  /\ \A d \in Drivers : pc[d] = "blue" =>
       /\ obs["red"] # None
       /\ obs["red"].at = stamp[d]
       /\ obs["red"].cites = fusion[d]
       /\ obs["red"].contacts = Contacts(fusion[d]["red"])
  /\ CitesItsFusion

\* A picture built from the fusion the store holds cites it.
LEMMA ArtifactCites ==
  ASSUME NEW d, NEW c, latest = fusion[d]
  PROVE  /\ Artifact(d, c).at = stamp[d]
         /\ Artifact(d, c).cites = fusion[d]
         /\ Artifact(d, c).contacts = Contacts(fusion[d][c])
  BY DEF Artifact, Picture

LEMMA ObserveKeepsPair ==
  ASSUME Sole, PairInv, NEW d \in Drivers, Observe(d), FogInv'
  PROVE  /\ PairInv'
         /\ pc[d] = "blue" =>
              /\ obs'["red"].at = obs'["blue"].at
              /\ obs'["red"].cites = obs'["blue"].cites
              /\ \A c \in Sides : obs'[c].contacts = Contacts(fusion[d][c])
<1>1. PICK c \in Sides :
        /\ pc[d] = c
        /\ pc' = [pc EXCEPT ![d] = IF c = "red" THEN "blue" ELSE "observed"]
        /\ obs' = [obs EXCEPT ![c] = Artifact(d, c)]
        /\ latest' = latest /\ fusion' = fusion /\ stamp' = stamp
  BY DEF Observe, Step, locals
<1>2. latest = fusion[d]
  BY <1>1 DEF PairInv, Sides
<1>3. /\ obs'[c].at = stamp[d]
      /\ obs'[c].cites = fusion[d]
      /\ obs'[c].contacts = Contacts(fusion[d][c])
  BY <1>1, <1>2, ArtifactCites DEF PairInv, FogInv, TypeOK
<1>4. \A s \in Sides \ {c} : obs'[s] = obs[s]
  BY <1>1 DEF PairInv, FogInv, TypeOK
<1>5. obs'[c] # None
  <2>1. obs'[c] = Artifact(d, c)
    BY <1>1 DEF PairInv, FogInv, TypeOK
  <2>2. fusion[d] \in Knowledges /\ stamp[d] \in 0..MaxClock
    BY <1>1 DEF PairInv, FogInv, TypeOK, Sides
  <2>3. Artifact(d, c) \in Artifacts
    BY <1>2, <2>2, ContactsAreLive DEF Artifact, Artifacts, Picture, Knowledges
  <2> QED
    BY <2>1, <2>3, NoneAssumption
<1>6. CitesItsFusion'
  BY <1>3, <1>4 DEF PairInv, CitesItsFusion
<1>7. \A e \in Drivers : pc'[e] = "blue" => c = "red" /\ e = d
  BY <1>1 DEF Sole, PairInv, FogInv, TypeOK
<1>8. PairInv'
  BY <1>1, <1>2, <1>3, <1>5, <1>6, <1>7 DEF PairInv, Sole
<1>9. ASSUME pc[d] = "blue"
      PROVE  /\ obs'["red"].at = obs'["blue"].at
             /\ obs'["red"].cites = obs'["blue"].cites
             /\ \A s \in Sides : obs'[s].contacts = Contacts(fusion[d][s])
  <2>1. c = "blue" /\ obs'["red"] = obs["red"]
    BY <1>1, <1>4, <1>9 DEF Sides
  <2> QED
    BY <1>3, <1>9, <2>1 DEF PairInv, Sides
<1> QED
  BY <1>8, <1>9

LEMMA StepKeepsPair ==
  ASSUME Sole, PairInv, [Next]_vars, FogInv' PROVE PairInv'
<1>1. ASSUME NEW d \in Drivers, Observe(d) PROVE PairInv'
  BY <1>1, ObserveKeepsPair
<1>2. ASSUME NEW d \in Drivers, SaveFusion(d) PROVE PairInv'
  <2>1. latest' = fusion'[d] /\ pc'[d] = "red" /\ obs' = obs
    BY <1>2 DEF SaveFusion, Step, locals, PairInv, FogInv, TypeOK
  <2> QED
    BY <2>1 DEF PairInv, Sole, CitesItsFusion
<1>3. ASSUME NEW d \in Drivers,
             Collect(d) \/ Open(d) \/ SaveWorld(d) \/ Preview(d) \/ EndCycle(d) \/ Move(d) \/ Killed(d)
      PROVE PairInv'
  <2>1. pc'[d] \notin {"red", "blue"} /\ obs' = obs
    BY <1>3 DEF Collect, Open, SaveWorld, Preview, EndCycle, Move, Moving, Killed, Step, store,
                PairInv, FogInv, TypeOK
  <2> QED
    BY <2>1 DEF PairInv, Sole, CitesItsFusion
<1>4. CASE Tick \/ UNCHANGED vars
  BY <1>4 DEF PairInv, CitesItsFusion, Tick, vars, store, locals
<1> QED
  BY <1>1, <1>2, <1>3, <1>4 DEF Next, Advance

LEMMA InitPair == Init => PairInv
<1>1. Init => FogInv
  BY InitFog
<1> QED
  BY <1>1 DEF Init, PairInv, CitesItsFusion

\* The inductive invariant of a run that one process drives.
LEMMA PairInductive ==
  ASSUME Sole PROVE Spec => []PairInv
<1>1. PairInv /\ [Next]_vars => PairInv'
  BY NextKeeps, StepKeepsPair DEF PairInv
<1> QED
  BY <1>1, InitPair, PTL DEF Spec

\* An observation cites the fusion update its contacts come from, in a run that
\* one process drives, wherever it was killed before.
THEOREM ObservationsCiteTheirFusion ==
  ASSUME Sole PROVE Spec => []CitesItsFusion
<1>1. PairInv => CitesItsFusion
  BY DEF PairInv
<1> QED
  BY <1>1, PairInductive, PTL

\* Snapshot fairness: both observations of a cycle show one fusion of one time,
\* in a run that one process drives.
THEOREM BothSidesSeeOneFusion ==
  ASSUME Sole PROVE Spec => SnapshotFairness
<1> DEFINE Fair == \A d \in Drivers : pc[d] = "blue" /\ pc'[d] = "observed" =>
                     /\ obs'["red"].at = obs'["blue"].at
                     /\ obs'["red"].cites = obs'["blue"].cites
                     /\ \A c \in Sides : obs'[c].contacts = Contacts(fusion[d][c])
<1>1. PairInv /\ [Next]_vars => [Fair]_vars
  <2> SUFFICES ASSUME PairInv, Next, NEW d \in Drivers, pc[d] = "blue", pc'[d] = "observed"
               PROVE  /\ obs'["red"].at = obs'["blue"].at
                      /\ obs'["red"].cites = obs'["blue"].cites
                      /\ \A c \in Sides : obs'[c].contacts = Contacts(fusion[d][c])
    OBVIOUS
  <2>1. FogInv'
    BY NextKeeps DEF PairInv
  <2>2. Observe(d)
    BY DEF Sole, Next, Advance, Tick, Collect, Open, SaveWorld, Preview, SaveFusion, EndCycle,
           Move, Moving, Killed, Step, PairInv, FogInv, TypeOK
  <2> QED
    BY <2>1, <2>2, ObserveKeepsPair
<1> QED
  BY <1>1, PairInductive, PTL DEF Spec, SnapshotFairness

-------------------------------------------------------------------------------
(* Time.  What one process writes is never older than what it replaces: no     *)
(* ingest or pair is dated after the clock or before the ingest before it, and *)
(* what is fused or merged is the store as it still is.                        *)

\* A track as it was at a time.
AgedAt(track, t) ==
  /\ track.confidence = Confidence(track.backing, t)
  /\ track.stale = Past(track.backing, t, Decay)
  /\ track.archived = Past(track.backing, t, Archive)

\* The tracks of a fusion made at a time from evidence that is there.
TracksOf(known, t) ==
  \A c \in Sides, g \in Groups : known[c][g] # None =>
    /\ known[c][g].backing = Backing(c, g, evidence) /\ known[c][g].backing # {}
    /\ AgedAt(known[c][g], t)

\* Stored tracks come from fusions not later than the last ingest.
TracksArePast ==
  \A c \in Sides, g \in Groups : tracks[c][g] # None =>
    /\ lastIngest # None
    /\ tracks[c][g].backing \subseteq Backing(c, g, evidence)
    /\ \E t \in 0..lastIngest : AgedAt(tracks[c][g], t)

RowsAreUpTo(w, t) == \A g \in Groups : w[g] # None => w[g].updated <= t

AgeInv ==
  /\ FogInv
  /\ lastIngest # None => lastIngest <= clock
  /\ lastIngest = None => evidence = {}
  /\ TracksArePast
  /\ RowsAreUpTo(world, clock)
  /\ \A d \in Drivers :
       /\ pc[d] = "collected" =>
            /\ rows[d] = world
            /\ stamp[d] <= clock
            /\ lastIngest # None => lastIngest <= stamp[d]
            /\ RowsAreUpTo(world, stamp[d])
       /\ pc[d] \in {"opened", "fused"} => (lastIngest # None => stamp[d] = lastIngest)
       /\ pc[d] = "fused" => TracksOf(fusion[d], stamp[d])

\* The older the view, the older the sightings: a window that has passed stays passed.
LEMMA PastStaysPast ==
  ASSUME NEW e, e \subseteq Evidence, NEW t \in 0..MaxClock, NEW u \in 0..MaxClock, t <= u,
         NEW window \in Nat, Past(e, t, window)
  PROVE  Past(e, u, window)
<1> SUFFICES ASSUME NEW r \in e PROVE Age(r, u) >= window
  BY DEF Past
<1>1. r.at \in Nat /\ t \in Nat /\ u \in Nat
  BY FogAssumption DEF Evidence
<1>2. Age(r, t) >= window
  BY DEF Past
<1> QED
  BY <1>1, <1>2 DEF Age

LEMMA AgeingOnlyAges ==
  ASSUME NEW old \in Tracks, NEW new \in Tracks, old.backing \subseteq new.backing,
         NEW t \in 0..MaxClock, NEW u \in 0..MaxClock, t <= u, AgedAt(old, t), AgedAt(new, u)
  PROVE  OnlyAges(old, new)
<1> SUFFICES ASSUME old.backing = new.backing
             PROVE  /\ old.stale => new.stale
                    /\ old.archived => new.archived
                    /\ Rank(new.confidence) <= Rank(old.confidence)
  BY DEF OnlyAges
<1> DEFINE e == old.backing
<1>1. e \subseteq Evidence
  BY DEF Tracks
<1>2. \A window \in {Fresh, Decay, Archive} : Past(e, t, window) => Past(e, u, window)
  BY <1>1, PastStaysPast, FogAssumption
<1>3. (old.stale => new.stale) /\ (old.archived => new.archived)
  BY <1>2 DEF AgedAt
<1>4. Rank(Confidence(e, u)) <= Rank(Confidence(e, t))
  BY <1>2 DEF Rank, Confidence
<1> QED
  BY <1>3, <1>4 DEF AgedAt

LEMMA InitAge == Init => AgeInv
<1> SUFFICES ASSUME Init PROVE AgeInv
  OBVIOUS
<1>1. FogInv
  BY InitFog
<1>2. TracksArePast
  BY DEF Init, TracksArePast
<1>3. RowsAreUpTo(world, clock)
  BY DEF Init, RowsAreUpTo
<1> QED
  BY <1>1, <1>2, <1>3 DEF AgeInv, Init

LEMMA CollectKeepsAge ==
  ASSUME Sole, AgeInv, NEW d \in Drivers, Collect(d), FogInv'
  PROVE  AgeInv'
<1>1. /\ pc'[d] = "collected" /\ stamp'[d] = clock /\ rows'[d] = world
      /\ UNCHANGED <<clock, store>>
  BY DEF Collect, Step, AgeInv, FogInv, TypeOK
<1>2. clock \in Nat
  BY FogAssumption DEF AgeInv, FogInv, TypeOK
<1>3. TracksArePast' /\ RowsAreUpTo(world, clock)'
  BY <1>1 DEF AgeInv, TracksArePast, RowsAreUpTo, store
<1> QED
  BY <1>1, <1>2, <1>3 DEF AgeInv, Sole, store, RowsAreUpTo

\* What a merge makes of a row is not older than the row, and not newer than the ingest.
LEMMA MergedRowIsNoOlder ==
  ASSUME NEW w \in [Groups -> Row \cup {None}], NEW b \in Batches, NEW now \in 0..MaxClock,
         SidesKept(w), RowsAreUpTo(w, now), NEW g \in Groups
  PROVE  /\ w[g] # None => /\ Merged(w, b, now)[g] # None
                           /\ Merged(w, b, now)[g].updated >= w[g].updated
         /\ Merged(w, b, now)[g] # None => Merged(w, b, now)[g].updated <= now
<1>1. now \in Nat
  BY FogAssumption
<1>2. \A r \in Row : r # None /\ r.updated \in Nat
  BY FogAssumption DEF Row
<1>3. \/ Merged(w, b, now)[g] = w[g]
      \/ Merged(w, b, now)[g] \in {x \in Row : x.updated = now}
  BY MergedIsAWorld
<1>4. w[g] # None => w[g] \in Row /\ w[g].updated <= now
  BY DEF RowsAreUpTo
<1> QED
  BY <1>1, <1>2, <1>3, <1>4

LEMMA SaveWorldKeepsAge ==
  ASSUME Sole, AgeInv, NEW d \in Drivers, SaveWorld(d), FogInv'
  PROVE  AgeInv'
<1>1. /\ pc[d] = "collected" /\ pc'[d] = "ingested" /\ clock' = clock /\ tracks' = tracks
      /\ world' = Merged(world, batch[d], stamp[d]) /\ lastIngest' = stamp[d]
      /\ evidence \subseteq evidence'
  BY DEF SaveWorld, Step, AgeInv, FogInv, TypeOK, IngestTime, Recorded
<1>2. /\ stamp[d] \in 0..MaxClock /\ stamp[d] <= clock /\ clock \in 0..MaxClock
      /\ lastIngest # None => lastIngest \in 0..MaxClock /\ lastIngest <= stamp[d]
      /\ batch[d] \in Batches /\ world \in [Groups -> Row \cup {None}] /\ SidesKept(world)
      /\ RowsAreUpTo(world, stamp[d])
  BY <1>1, FogAssumption DEF AgeInv, FogInv, TypeOK
<1>3. RowsAreUpTo(world, clock)'
  <2> SUFFICES ASSUME NEW g \in Groups, world'[g] # None PROVE world'[g].updated <= clock
    BY <1>1 DEF RowsAreUpTo
  <2>1. world'[g].updated <= stamp[d]
    BY <1>1, <1>2, MergedRowIsNoOlder
  <2>2. world'[g] \in Row
    BY DEF FogInv, TypeOK
  <2> QED
    BY <1>2, <2>1, <2>2, FogAssumption DEF Row
<1>4. TracksArePast'
  <2> SUFFICES ASSUME NEW c \in Sides, NEW g \in Groups, tracks'[c][g] # None
               PROVE  /\ lastIngest' # None
                      /\ tracks[c][g].backing \subseteq Backing(c, g, evidence')
                      /\ \E t \in 0..lastIngest' : AgedAt(tracks[c][g], t)
    BY <1>1 DEF TracksArePast
  <2>1. /\ lastIngest # None
        /\ tracks[c][g].backing \subseteq Backing(c, g, evidence)
        /\ \E t \in 0..lastIngest : AgedAt(tracks[c][g], t)
    BY <1>1 DEF AgeInv, TracksArePast
  <2>2. Backing(c, g, evidence) \subseteq Backing(c, g, evidence')
    BY <1>1 DEF Backing
  <2>3. 0..lastIngest \subseteq 0..lastIngest'
    BY <1>1, <1>2, <2>1, FogAssumption
  <2>4. lastIngest' # None
    BY <1>1, <1>2, FogAssumption
  <2> QED
    BY <2>1, <2>2, <2>3, <2>4
<1>5. \A e \in Drivers : e = d
  BY DEF Sole
<1> QED
  BY <1>1, <1>2, <1>3, <1>4, <1>5, FogAssumption DEF AgeInv

\* A picture is dated by the last ingest, if there was one.
LEMMA OpenKeepsAge ==
  ASSUME Sole, AgeInv, NEW d \in Drivers, Open(d), FogInv'
  PROVE  AgeInv'
<1>1. pc'[d] = "opened" /\ stamp'[d] = PairTime /\ UNCHANGED <<clock, store>>
  BY DEF Open, AgeInv, FogInv, TypeOK
<1>2. TracksArePast' /\ RowsAreUpTo(world, clock)'
  BY <1>1 DEF AgeInv, TracksArePast, RowsAreUpTo, store
<1> QED
  BY <1>1, <1>2 DEF AgeInv, Sole, store, PairTime

LEMMA FusionIsOfItsTime ==
  ASSUME NEW w, NEW now PROVE TracksOf(Fusion(w, evidence, now), now)
BY DEF TracksOf, Fusion, Knowledge, Track, AgedAt

LEMMA PreviewKeepsAge ==
  ASSUME Sole, AgeInv, NEW d \in Drivers, Preview(d), FogInv'
  PROVE  AgeInv'
<1>1. /\ pc[d] = "opened" /\ pc'[d] = "fused" /\ stamp' = stamp /\ UNCHANGED <<clock, store>>
      /\ fusion'[d] = Fusion(world, evidence, stamp[d])
  BY DEF Preview, Step, AgeInv, FogInv, TypeOK
<1>2. TracksArePast' /\ RowsAreUpTo(world, clock)'
  BY <1>1 DEF AgeInv, TracksArePast, RowsAreUpTo, store
<1>3. TracksOf(fusion[d], stamp[d])'
  BY <1>1, FusionIsOfItsTime DEF TracksOf, store
<1> QED
  BY <1>1, <1>2, <1>3 DEF AgeInv, Sole, store

\* A fusion is not older than what the tracks of the store come from.
LEMMA SaveFusionAges ==
  ASSUME AgeInv, NEW d \in Drivers, SaveFusion(d), FogInv'
  PROVE  /\ TracksArePast'
         /\ \A c \in Sides, g \in Groups : tracks[c][g] # None =>
              tracks'[c][g] # None /\ OnlyAges(tracks[c][g], tracks'[c][g])
<1>1. /\ pc[d] = "fused" /\ UNCHANGED <<lastIngest, evidence>>
      /\ tracks' = [c \in Sides |-> Kept(tracks[c], fusion[d][c])]
  BY DEF SaveFusion, Step
<1>2. /\ TracksOf(fusion[d], stamp[d]) /\ (lastIngest # None => stamp[d] = lastIngest)
      /\ (lastIngest = None => evidence = {})
      /\ evidence \subseteq Evidence /\ lastIngest \in 0..MaxClock \cup {None}
      /\ tracks \in Knowledges /\ tracks' \in Knowledges /\ fusion[d] \in Knowledges
  BY <1>1 DEF AgeInv, FogInv, TypeOK
<1> SUFFICES ASSUME NEW c \in Sides, NEW g \in Groups
             PROVE  /\ tracks'[c][g] # None =>
                         /\ lastIngest # None
                         /\ tracks'[c][g].backing \subseteq Backing(c, g, evidence)
                         /\ \E t \in 0..lastIngest : AgedAt(tracks'[c][g], t)
                    /\ tracks[c][g] # None =>
                         tracks'[c][g] # None /\ OnlyAges(tracks[c][g], tracks'[c][g])
  BY <1>1 DEF TracksArePast
<1>3. tracks[c][g] # None =>
        /\ lastIngest # None
        /\ tracks[c][g].backing \subseteq Backing(c, g, evidence)
        /\ \E t \in 0..lastIngest : AgedAt(tracks[c][g], t)
  BY DEF AgeInv, TracksArePast
<1>4. CASE fusion[d][c][g] = None
  <2>1. tracks'[c][g] = tracks[c][g]
    BY <1>1, <1>4 DEF Kept
  <2> QED
    BY <1>3, <2>1 DEF OnlyAges, Rank
<1>5. CASE fusion[d][c][g] # None
  <2>1. tracks'[c][g] = fusion[d][c][g]
    BY <1>1, <1>5 DEF Kept
  <2>2. /\ tracks'[c][g].backing = Backing(c, g, evidence) /\ tracks'[c][g].backing # {}
        /\ AgedAt(tracks'[c][g], stamp[d])
    BY <1>2, <1>5, <2>1 DEF TracksOf
  <2>3. lastIngest # None /\ stamp[d] = lastIngest /\ lastIngest \in 0..MaxClock
    BY <1>2, <2>2 DEF Backing
  <2>4. lastIngest \in 0..lastIngest
    BY <2>3, FogAssumption
  <2>5. ASSUME tracks[c][g] # None PROVE OnlyAges(tracks[c][g], tracks'[c][g])
    <3>1. PICK t \in 0..lastIngest : AgedAt(tracks[c][g], t)
      BY <1>3, <2>5
    <3>2. t \in 0..MaxClock /\ t <= lastIngest
      BY <2>3, FogAssumption
    <3>3. tracks[c][g] \in Tracks /\ tracks'[c][g] \in Tracks
      BY <1>2, <1>5, <2>1, <2>5 DEF Knowledges
    <3> QED
      BY <1>3, <2>2, <2>3, <2>5, <3>1, <3>2, <3>3, AgeingOnlyAges
  <2> QED
    BY <1>5, <2>1, <2>2, <2>3, <2>4, <2>5
<1> QED
  BY <1>4, <1>5

LEMMA SaveFusionKeepsAge ==
  ASSUME Sole, AgeInv, NEW d \in Drivers, SaveFusion(d), FogInv'
  PROVE  AgeInv'
<1>1. pc'[d] = "red" /\ UNCHANGED <<clock, world, lastIngest, evidence>>
  BY DEF SaveFusion, Step, AgeInv, FogInv, TypeOK
<1> QED
  BY <1>1, SaveFusionAges DEF AgeInv, Sole, RowsAreUpTo

\* A step that neither ingests nor fuses.
LEMMA OthersKeepAge ==
  ASSUME Sole, AgeInv, NEW d \in Drivers, Observe(d) \/ EndCycle(d) \/ Killed(d), FogInv'
  PROVE  AgeInv'
<1>1. /\ pc'[d] \in {"blue", "observed", "idle"}
      /\ UNCHANGED <<clock, world, lastIngest, evidence, tracks>>
  BY DEF Observe, EndCycle, Killed, Step, AgeInv, FogInv, TypeOK, store
<1>2. TracksArePast' /\ RowsAreUpTo(world, clock)'
  BY <1>1 DEF AgeInv, TracksArePast, RowsAreUpTo
<1> QED
  BY <1>1, <1>2 DEF AgeInv, Sole

\* An execution dates the row it writes by the clock.
LEMMA MoveGoesOn ==
  ASSUME AgeInv, NEW d \in Drivers, Move(d), FogInv'
  PROVE  /\ RowsAreUpTo(world, clock)'
         /\ \A g \in Groups : world[g] # None =>
              world'[g] # None /\ world'[g].updated >= world[g].updated
<1>1. PICK o \in Orders :
        /\ world[o.group] # None
        /\ world' = [world EXCEPT ![o.group] = [@ EXCEPT !.sector = o.sector, !.updated = clock]]
  BY DEF Move
<1>2. /\ o.group \in Groups /\ o.sector \in Sectors /\ world[o.group] \in Row
      /\ world \in [Groups -> Row \cup {None}] /\ clock \in 0..MaxClock /\ clock' = clock
  BY <1>1, FogAssumption DEF AgeInv, FogInv, TypeOK, Move
<1>3. \A r \in Row : r # None /\ r.updated \in Nat
  BY FogAssumption DEF Row
<1>4. [world[o.group] EXCEPT !.sector = o.sector, !.updated = clock] \in {r \in Row : r.updated = clock}
  BY <1>2 DEF Row
<1>5. \A g \in Groups : \/ world'[g] = world[g]
                        \/ world'[g] \in {r \in Row : r.updated = clock} /\ world[g] # None
  BY <1>1, <1>2, <1>4
<1>6. \A g \in Groups : world[g] # None => world[g] \in Row /\ world[g].updated <= clock
  BY <1>2 DEF AgeInv, RowsAreUpTo
<1>7. clock \in Nat
  BY <1>2, FogAssumption
<1> QED
  BY <1>2, <1>3, <1>5, <1>6, <1>7 DEF RowsAreUpTo

LEMMA MoveKeepsAge ==
  ASSUME Sole, AgeInv, NEW d \in Drivers, Move(d), FogInv'
  PROVE  AgeInv'
<1>1. /\ pc' = pc /\ pc[d] = "observed"
      /\ UNCHANGED <<clock, lastIngest, evidence, tracks>>
  BY DEF Move, Moving
<1>2. TracksArePast' /\ RowsAreUpTo(world, clock)'
  BY <1>1, MoveGoesOn DEF AgeInv, TracksArePast
<1> QED
  BY <1>1, <1>2 DEF AgeInv, Sole

LEMMA TickKeepsAge ==
  ASSUME AgeInv, Tick \/ UNCHANGED vars, FogInv'
  PROVE  AgeInv'
<1>1. /\ UNCHANGED <<store, pc, locals>> /\ clock' >= clock
      /\ clock \in Nat /\ clock' \in Nat
  BY FogAssumption DEF Tick, vars, AgeInv, FogInv, TypeOK
<1>2. TracksArePast'
  BY <1>1 DEF AgeInv, TracksArePast, store
<1>3. RowsAreUpTo(world, clock)'
  <2> SUFFICES ASSUME NEW g \in Groups, world[g] # None PROVE world[g].updated <= clock'
    BY <1>1 DEF RowsAreUpTo, store
  <2>1. world[g] \in Row /\ world[g].updated <= clock
    BY DEF AgeInv, FogInv, TypeOK, RowsAreUpTo
  <2> QED
    BY <1>1, <2>1, FogAssumption DEF Row
<1>4. \A d \in Drivers : stamp[d] \in 0..MaxClock \cup {None}
  BY DEF AgeInv, FogInv, TypeOK
<1>5. lastIngest # None => lastIngest' <= clock'
  BY <1>1, FogAssumption DEF AgeInv, FogInv, TypeOK, store
<1>6. \A d \in Drivers : pc'[d] = "collected" => stamp'[d] <= clock'
  <2> SUFFICES ASSUME NEW d \in Drivers, pc[d] = "collected" PROVE stamp[d] <= clock'
    BY <1>1 DEF locals
  <2>1. stamp[d] \in 0..MaxClock /\ stamp[d] <= clock
    BY DEF AgeInv, FogInv, TypeOK
  <2> QED
    BY <1>1, <2>1, FogAssumption
<1>7. \A d \in Drivers : pc'[d] = "fused" => TracksOf(fusion[d], stamp[d])'
  BY <1>1 DEF AgeInv, TracksOf, store, locals
<1> QED
  BY <1>1, <1>2, <1>3, <1>5, <1>6, <1>7 DEF AgeInv, store, locals, RowsAreUpTo

LEMMA StepKeepsAge ==
  ASSUME Sole, AgeInv, [Next]_vars PROVE AgeInv'
<1>1. FogInv'
  BY NextKeeps DEF AgeInv
<1>2. ASSUME NEW d \in Drivers, Collect(d) \/ Open(d) \/ Advance(d) \/ Move(d) \/ Killed(d)
      PROVE  AgeInv'
  BY <1>1, <1>2, CollectKeepsAge, OpenKeepsAge, SaveWorldKeepsAge, PreviewKeepsAge,
     SaveFusionKeepsAge, OthersKeepAge, MoveKeepsAge DEF Advance
<1> QED
  BY <1>1, <1>2, TickKeepsAge DEF Next

LEMMA AgeInductive ==
  ASSUME Sole PROVE Spec => []AgeInv
<1>1. AgeInv /\ [Next]_vars => AgeInv'
  BY StepKeepsAge
<1> QED
  BY <1>1, InitAge, PTL DEF Spec

\* A stored track loses no evidence and, unconfirmed, only ages (save_fusion_update
\* upserts whatever the fusion holds), in a run that one process drives.
THEOREM StoredTracksOnlyAge ==
  ASSUME Sole PROVE Spec => TracksOnlyAge
<1> DEFINE Ageing == \A c \in Sides, g \in Groups : tracks[c][g] # None =>
                       tracks'[c][g] # None /\ OnlyAges(tracks[c][g], tracks'[c][g])
<1>1. AgeInv /\ [Next]_vars => [Ageing]_tracks
  <2> SUFFICES ASSUME AgeInv, [Next]_vars, tracks' # tracks PROVE Ageing
    OBVIOUS
  <2>1. PICK d \in Drivers : SaveFusion(d)
    BY DEF Next, Advance, Tick, Collect, Open, SaveWorld, Preview, Observe, EndCycle, Move,
           Killed, vars, store
  <2>2. FogInv'
    BY NextKeeps DEF AgeInv
  <2> QED
    BY <2>1, <2>2, SaveFusionAges
<1> QED
  BY <1>1, AgeInductive, PTL DEF Spec, TracksOnlyAge

\* No row of the world is replaced by an older one, although an ingest writes back
\* every row it read before it asked for the store again (save_world_state_snapshot),
\* in a run that one process drives.
THEOREM WorldGoesOn ==
  ASSUME Sole PROVE Spec => WorldNeverGoesBack
<1> DEFINE On == \A g \in Groups : world[g] # None =>
                   world'[g] # None /\ world'[g].updated >= world[g].updated
<1>1. AgeInv /\ [Next]_vars => [On]_world
  <2> SUFFICES ASSUME AgeInv, [Next]_vars, world' # world PROVE On
    OBVIOUS
  <2>1. FogInv'
    BY NextKeeps DEF AgeInv
  <2>2. PICK d \in Drivers : SaveWorld(d) \/ Move(d)
    BY DEF Next, Advance, Tick, Collect, Open, Preview, SaveFusion, Observe, EndCycle,
           Killed, vars, store
  <2>3. CASE Move(d)
    BY <2>1, <2>3, MoveGoesOn
  <2>4. CASE SaveWorld(d)
    <3>1. world' = Merged(world, batch[d], stamp[d])
      BY <2>4 DEF SaveWorld, Step, AgeInv
    <3>2. /\ stamp[d] \in 0..MaxClock /\ batch[d] \in Batches
          /\ world \in [Groups -> Row \cup {None}] /\ SidesKept(world)
          /\ RowsAreUpTo(world, stamp[d])
      BY <2>4 DEF SaveWorld, Step, AgeInv, FogInv, TypeOK
    <3> QED
      BY <3>1, <3>2, MergedRowIsNoOlder
  <2> QED
    BY <2>2, <2>3, <2>4
<1> QED
  BY <1>1, AgeInductive, PTL DEF Spec, WorldNeverGoesBack

===============================================================================
