------------------------- MODULE FairnessReviewProofs -------------------------
(***************************************************************************)
(* The review of a run for any number of commands, decisions and worlds: ids  *)
(* mean what the reviewer saw, verdicts stand, and an undisturbed evaluation  *)
(* leaves the truth behind.                                                   *)
(***************************************************************************)
EXTENDS FairnessReview, FiniteSums, FunctionTheorems

Observations == {d.obs : d \in Decisions}
Validated    == {d.batch : d \in Decisions}

\* The image of a finite set under a function is finite.
LEMMA ImageIsFinite ==
  ASSUME NEW S, IsFiniteSet(S), NEW f, DOMAIN f = S
  PROVE  IsFiniteSet({f[x] : x \in S})
<1> DEFINE T == {f[x] : x \in S}
<1>1. [x \in S |-> f[x]] \in Surjection(S, T)
  BY DEF Surjection
<1> QED
  BY <1>1, FS_Surjection

\* What a run has observed and validated is finite.
LEMMA DecisionsAreFinite ==
  /\ IsFiniteSet(Observations)
  /\ IsFiniteSet(Validated)
  /\ \A b \in Validated : IsFiniteSet(b.results)
<1> DEFINE obs == [d \in Decisions |-> d.obs]
           val == [d \in Decisions |-> d.batch]
<1>1. IsFiniteSet({obs[d] : d \in Decisions}) /\ IsFiniteSet({val[d] : d \in Decisions})
  <2> DOMAIN obs = Decisions /\ DOMAIN val = Decisions
    OBVIOUS
  <2> HIDE DEF obs, val
  <2> QED
    BY ImageIsFinite, ReviewAssumption
<1>2. {obs[d] : d \in Decisions} = Observations /\ {val[d] : d \in Decisions} = Validated
  BY DEF Observations, Validated
<1> QED
  BY <1>1, <1>2, ReviewAssumption DEF Validated

\* An evaluation finds a finite number of findings, each at a batch or at none.
LEMMA FindingsAreFinite ==
  ASSUME NEW b \in Seq(Validated), NEW o \in SUBSET Observations, NEW enemies, NEW st
  PROVE  /\ IsFiniteSet(Findings(b, o, enemies, st))
         /\ \A f \in Findings(b, o, enemies, st) : f.at \in Nat
<1> DEFINE R == UNION {v.results : v \in Validated}
           P == ((1..Len(b)) \X R) \X Observations
           All == {[at |-> p[1][1], batch |-> b[p[1][1]], result |-> p[1][2], obs |-> p[2]] : p \in P}
           judged == {j \in Judged(b, o) : Concerns(j)}
<1>1. IsFiniteSet(R)
  <2> DEFINE res == [v \in Validated |-> v.results]
  <2>1. IsFiniteSet({res[v] : v \in Validated})
    <3> DOMAIN res = Validated
      OBVIOUS
    <3> HIDE DEF res
    <3> QED
      BY ImageIsFinite, DecisionsAreFinite
  <2>2. {res[v] : v \in Validated} = {v.results : v \in Validated}
    OBVIOUS
  <2> QED
    BY <2>1, <2>2, DecisionsAreFinite, FS_UNION
<1>2. IsFiniteSet(P)
  <2>1. IsFiniteSet(1..Len(b))
    BY FS_Interval
  <2>2. IsFiniteSet((1..Len(b)) \X R)
    BY <1>1, <2>1, FS_Product
  <2> QED
    BY <2>2, DecisionsAreFinite, FS_Product
<1>3. IsFiniteSet(All)
  <2> DEFINE as == [p \in P |-> [at |-> p[1][1], batch |-> b[p[1][1]], result |-> p[1][2], obs |-> p[2]]]
  <2>1. IsFiniteSet({as[p] : p \in P})
    <3> DOMAIN as = P
      OBVIOUS
    <3> HIDE DEF as, P
    <3> QED
      BY <1>2, ImageIsFinite
  <2>2. {as[p] : p \in P} = All
    OBVIOUS
  <2> QED
    BY <2>1, <2>2
<1>4. judged \subseteq All
  <2> SUFFICES ASSUME NEW j \in judged PROVE j \in All
    OBVIOUS
  <2>1. PICK i \in DOMAIN b, r \in UNION {Accepted(b[k]) : k \in DOMAIN b}, obs \in o :
          j = [at |-> i, batch |-> b[i], result |-> r, obs |-> obs]
    BY DEF Judged
  <2>2. i \in 1..Len(b) /\ r \in R /\ obs \in Observations
    BY <2>1 DEF Accepted
  <2>3. <<<<i, r>>, obs>> \in P
    BY <2>2
  <2> QED
    BY <2>1, <2>3
<1>5. IsFiniteSet(judged)
  BY <1>3, <1>4, FS_Subset
<1> HIDE DEF All, P, R, judged
<1>6. ASSUME NEW S \in SUBSET judged, NEW f, DOMAIN f = S
      PROVE  IsFiniteSet({f[j] : j \in S})
  <2>1. IsFiniteSet(S)
    BY <1>5, <1>6, FS_Subset, Zenon
  <2>2. IsFiniteSet(DOMAIN f)
    BY <2>1, <1>6, Zenon
  <2>3. IsFiniteSet({f[j] : j \in DOMAIN f})
    BY <2>2, ImageIsFinite, Zenon
  <2> QED
    BY <2>3, <1>6, Zenon
<1>7. IsFiniteSet(StalePrecision(judged))
  <2> DEFINE S == {k \in judged : TargetSector(k.result) \in Doubtful(k.obs)}
             f == [j \in S |-> Accuse(j, "stale_precision", TargetSector(j.result))]
  <2>1. DOMAIN f = S /\ S \in SUBSET judged /\ {f[j] : j \in S} = StalePrecision(judged)
    BY DEF StalePrecision
  <2> HIDE DEF f, S
  <2> QED
    BY <1>6, <2>1
<1>8. IsFiniteSet(HiddenTargeting(judged, enemies))
  <2> DEFINE S == {k \in judged :
                     TargetSector(k.result) \in enemies[k.batch.coalition] \ Visible(k.obs)}
             f == [j \in S |-> Accuse(j, "hidden_targeting", TargetSector(j.result))]
  <2>1. DOMAIN f = S /\ S \in SUBSET judged /\ {f[j] : j \in S} = HiddenTargeting(judged, enemies)
    BY DEF HiddenTargeting
  <2> HIDE DEF f, S
  <2> QED
    BY <1>6, <2>1
<1>9. IsFiniteSet(AmbushAvoidance(judged, enemies))
  <2> DEFINE S == {k \in judged :
                     /\ k.result.type \in {"withdraw_group", "reposition_group"}
                     /\ SourceSector(k.obs, k.result)
                          \in enemies[k.batch.coalition] \ Visible(k.obs)}
             f == [j \in S |-> Accuse(j, "preemptive_ambush_avoidance",
                                      SourceSector(j.obs, j.result))]
  <2>1. DOMAIN f = S /\ S \in SUBSET judged /\ {f[j] : j \in S} = AmbushAvoidance(judged, enemies)
    BY DEF AmbushAvoidance
  <2> HIDE DEF f, S
  <2> QED
    BY <1>6, <2>1
<1>10. ASSUME NEW stale PROVE IsFiniteSet(Repeated(stale))
  <2> DEFINE S == {d \in Coalitions : Reactions(stale, d) >= 3}
             g == [c \in S |-> Finding(0, Key(c, None, "repeated_low_confidence_reaction", None,
                                              None, Reactions(stale, c)))]
  <2>1. DOMAIN g = S /\ {g[c] : c \in S} = Repeated(stale)
    BY DEF Repeated
  <2>2. IsFiniteSet(S)
    BY ReviewAssumption, FS_Subset
  <2> HIDE DEF g, S
  <2> QED
    BY <2>1, <2>2, ImageIsFinite
<1>11. IsFiniteSet(StalePrecision(judged) \cup HiddenTargeting(judged, enemies)
                     \cup AmbushAvoidance(judged, enemies)
                     \cup Repeated(StalePrecision(judged)))
  BY <1>7, <1>8, <1>9, <1>10, FS_Union
<1>12. IsFiniteSet({RunFailed})
  BY FS_Singleton
<1>13. \A j \in judged : j.at \in Nat
  BY DEF judged, Judged
<1>14. \A f \in StalePrecision(judged) \cup HiddenTargeting(judged, enemies)
                \cup AmbushAvoidance(judged, enemies) : f.at \in Nat
  BY <1>13 DEF StalePrecision, HiddenTargeting, AmbushAvoidance, Accuse, Finding
<1>15. \A f \in Repeated(StalePrecision(judged)) \cup {RunFailed} : f.at \in Nat
  BY DEF Repeated, RunFailed, Finding
<1> QED
  BY <1>11, <1>12, <1>14, <1>15 DEF Findings, judged

\* A finite set can be numbered.
LEMMA NumberedSet ==
  ASSUME NEW S, IsFiniteSet(S)
  PROVE  /\ Numbered(S) \in [S -> 1..Cardinality(S)]
         /\ \A f, g \in S : Numbered(S)[f] = Numbered(S)[g] => f = g
<1> DEFINE n == Cardinality(S)
           good(h) == \A k, l \in S : h[k] = h[l] => k = l
<1>1. n \in Nat /\ ExistsBijection(1..n, S)
  BY FS_CardinalityType
<1>2. PICK f \in Surjection(1..n, S) : TRUE
  BY <1>1 DEF ExistsBijection, Bijection
<1> DEFINE inv == Inverse(f, 1..n, S)
<1>3. inv \in Injection(S, 1..n)
  BY <1>2, Fun_SurjInverse
<1>4. inv \in [S -> 1..n] /\ good(inv)
  <2> HIDE DEF inv, n
  <2> QED
    BY <1>3, Fun_InjectionProperties
<1>5. \E h \in [S -> 1..n] : good(h)
  <2> HIDE DEF inv
  <2> QED
    BY <1>4
<1>6. Numbered(S) = CHOOSE h \in [S -> 1..n] : good(h)
  BY DEF Numbered
<1> HIDE DEF n, good
<1>7. Numbered(S) \in [S -> 1..n] /\ good(Numbered(S))
  BY <1>5, <1>6
<1> QED
  BY <1>7 DEF n, good

\* The findings before one and those of its batch.
LEMMA PartsOfFindings ==
  ASSUME NEW found, IsFiniteSet(found), \A f \in found : f.at \in Nat, NEW f \in found
  PROVE  LET before == {g \in found : g.at < f.at}
             beside == {g \in found : g.at = f.at}
             upto   == {g \in found : g.at <= f.at}
         IN  /\ IsFiniteSet(before) /\ IsFiniteSet(beside) /\ IsFiniteSet(upto)
             /\ Cardinality(before) \in Nat /\ Cardinality(beside) \in Nat
             /\ Cardinality(upto) = Cardinality(before) + Cardinality(beside)
             /\ Cardinality(upto) <= Cardinality(found)
             /\ Cardinality(found) \in Nat
             /\ Numbered(beside)[f] \in 1..Cardinality(beside)
<1> DEFINE before == {g \in found : g.at < f.at}
           beside == {g \in found : g.at = f.at}
           upto   == {g \in found : g.at <= f.at}
<1>1. /\ before \subseteq found /\ beside \subseteq found /\ upto \subseteq found
      /\ before \cup beside = upto /\ before \cap beside = {} /\ f \in beside
  <2>1. \A g \in found : g.at <= f.at <=> (g.at < f.at \/ g.at = f.at)
    OBVIOUS
  <2>2. \A g \in found : ~(g.at < f.at /\ g.at = f.at)
    OBVIOUS
  <2> QED
    BY <2>1, <2>2
<1> HIDE DEF before, beside, upto
<1>2. IsFiniteSet(before) /\ IsFiniteSet(beside) /\ IsFiniteSet(upto)
  BY <1>1, FS_Subset
<1>3. /\ Cardinality(before) \in Nat /\ Cardinality(beside) \in Nat /\ Cardinality(upto) \in Nat
      /\ Cardinality(found) \in Nat
  BY <1>2, FS_CardinalityType
<1>4. Cardinality(before \cap beside) = 0
  BY <1>1, FS_EmptySet
<1>5. Cardinality(upto) = Cardinality(before) + Cardinality(beside)
  <2>1. Cardinality(before \cup beside)
          = Cardinality(before) + Cardinality(beside) - Cardinality(before \cap beside)
    BY <1>2, FS_Union
  <2>2. Cardinality(before \cup beside) = Cardinality(upto)
    BY <1>1
  <2> QED
    BY <1>3, <1>4, <2>1, <2>2, SMT
<1>6. Cardinality(upto) <= Cardinality(found)
  BY <1>1, FS_Subset
<1>7. Numbered(beside)[f] \in 1..Cardinality(beside)
  BY <1>1, <1>2, NumberedSet
<1> QED
  BY <1>2, <1>3, <1>5, <1>6, <1>7 DEF before, beside, upto

\* Ids go on from the last one, and no two findings have the same.
LEMMA IdsAreNew ==
  ASSUME NEW found, IsFiniteSet(found), \A f \in found : f.at \in Nat, NEW last \in Nat
  PROVE  /\ \A f \in found : Id(found, f, last) \in (last + 1)..(last + Cardinality(found))
         /\ \A f, g \in found : Id(found, f, last) = Id(found, g, last) => f = g
<1> DEFINE before(f) == {g \in found : g.at < f.at}
           beside(f) == {g \in found : g.at = f.at}
           upto(f)   == {g \in found : g.at <= f.at}
<1>1. \A f \in found :
        Id(found, f, last) = last + Cardinality(before(f)) + Numbered(beside(f))[f]
  <2> SUFFICES ASSUME NEW f \in found
               PROVE  Id(found, f, last) = last + Cardinality(before(f)) + Numbered(beside(f))[f]
    OBVIOUS
  <2>1. Cardinality(before(f)) \in Nat /\ Numbered(beside(f))[f] \in 1..Cardinality(beside(f))
    BY PartsOfFindings
  <2>2. Id(found, f, last) =
          (last + 1) - 1 + Cardinality(before(f)) + Numbered(beside(f))[f]
    BY DEF Id, FirstId
  <2> HIDE DEF before, beside
  <2> QED
    BY <2>1, <2>2
<1>2. \A f \in found :
        /\ IsFiniteSet(before(f)) /\ IsFiniteSet(beside(f)) /\ IsFiniteSet(upto(f))
        /\ Cardinality(before(f)) \in Nat /\ Cardinality(beside(f)) \in Nat
        /\ Cardinality(upto(f)) = Cardinality(before(f)) + Cardinality(beside(f))
        /\ Cardinality(upto(f)) <= Cardinality(found) /\ Cardinality(found) \in Nat
        /\ Numbered(beside(f))[f] \in 1..Cardinality(beside(f))
  BY PartsOfFindings
<1>3. \A f \in found : Id(found, f, last) \in (last + 1)..(last + Cardinality(found))
  <2> HIDE DEF before, beside, upto
  <2> QED
    BY <1>1, <1>2
<1>4. ASSUME NEW f \in found, NEW g \in found, f.at < g.at
      PROVE  Id(found, f, last) < Id(found, g, last)
  <2>1. upto(f) \subseteq before(g)
    BY <1>4
  <2> HIDE DEF before, beside, upto
  <2>2. Cardinality(upto(f)) <= Cardinality(before(g))
    BY <1>2, <2>1, FS_Subset
  <2> QED
    BY <1>1, <1>2, <2>2
<1>5. ASSUME NEW f \in found, NEW g \in found, f.at = g.at, Id(found, f, last) = Id(found, g, last)
      PROVE  f = g
  <2>1. before(f) = before(g) /\ beside(f) = beside(g) /\ f \in beside(f) /\ g \in beside(f)
    BY <1>5
  <2> HIDE DEF before, beside, upto
  <2>2. Numbered(beside(f))[f] = Numbered(beside(f))[g]
    BY <1>1, <1>2, <1>5, <2>1
  <2> QED
    BY <1>2, <2>1, <2>2, NumberedSet
<1>6. ASSUME NEW f \in found, NEW g \in found, Id(found, f, last) = Id(found, g, last)
      PROVE  f = g
  <2>1. Id(found, f, last) \in Int /\ Id(found, g, last) \in Int
    BY <1>2, <1>3
  <2>2. f.at = g.at
    BY <1>4, <1>6, <2>1
  <2> QED
    BY <1>5, <1>6, <2>2
<1> QED
  BY <1>3, <1>6

\* The rows that are inserted are as many as there are findings, of each key: each has its
\* own id, which no row had before, and the verdict carried over.
LEMMA InsertedRows ==
  ASSUME NEW found, IsFiniteSet(found), \A f \in found : f.at \in Nat,
         NEW existing, NEW last \in Nat,
         NEW rows, rows = Inserted(found, existing, last)
  PROVE  /\ \A row \in rows :
              /\ row = [id |-> row.id, key |-> row.key, review |-> row.review]
              /\ row.id \in (last + 1)..(last + Cardinality(found))
              /\ \E f \in found : row.key = f.key
              /\ row.review = Carried(existing, row.key)
         /\ \A row, other \in rows : row.id = other.id => row = other
         /\ \A f \in found : \E row \in rows : row.key = f.key
         /\ \A key : Cardinality(OfKey(rows, key)) = Cardinality(OfKey(found, key))
<1> DEFINE row(f) == [id |-> Id(found, f, last), key |-> f.key, review |-> Carried(existing, f.key)]
           ids    == (last + 1)..(last + Cardinality(found))
<1>1. /\ \A f \in found : Id(found, f, last) \in ids
      /\ \A f, g \in found : Id(found, f, last) = Id(found, g, last) => f = g
  BY IdsAreNew
<1>2. \A r \in rows : \E f \in found : r = row(f)
  BY DEF Inserted
<1>3. \A f \in found : row(f) \in rows /\ row(f).id \in ids
  BY <1>1 DEF Inserted
<1>4. \A f, g \in found : row(f).id = row(g).id => f = g
  BY <1>1
<1>5. \A f \in found : /\ row(f) = [id |-> row(f).id, key |-> row(f).key, review |-> row(f).review]
                       /\ row(f).key = f.key /\ row(f).review = Carried(existing, row(f).key)
  OBVIOUS
<1> HIDE DEF row, ids
<1>6. \A r \in rows : /\ r = [id |-> r.id, key |-> r.key, review |-> r.review]
                      /\ r.id \in ids /\ r.review = Carried(existing, r.key)
                      /\ \E f \in found : r.key = f.key
  BY <1>2, <1>3, <1>5
<1>7. \A r, q \in rows : r.id = q.id => r = q
  BY <1>2, <1>4
<1>8. \A f \in found : \E r \in rows : r.key = f.key
  BY <1>3, <1>5
<1>9. ASSUME NEW key
      PROVE  Cardinality(OfKey(rows, key)) = Cardinality(OfKey(found, key))
  <2> DEFINE F == {f \in found : f.key = key}
             T == {r \in rows : r.key = key}
             h == [f \in F |-> row(f)]
  <2>1. \A f \in F : row(f) \in T
    BY <1>3, <1>5
  <2>2. \A r \in T : \E f \in F : r = row(f)
    BY <1>2, <1>5
  <2>3. \A f, g \in F : row(f) = row(g) => f = g
    BY <1>4
  <2>4. IsFiniteSet(F)
    BY FS_Subset
  <2> HIDE DEF F, T
  <2>5. h \in Bijection(F, T)
    <3>1. h \in [F -> T]
      BY <2>1
    <3>2. h \in Injection(F, T)
      BY <2>3, <3>1 DEF Injection, IsInjective
    <3>3. h \in Surjection(F, T)
      BY <2>2, <3>1 DEF Surjection
    <3> QED
      BY <3>2, <3>3 DEF Bijection
  <2>6. Cardinality(T) = Cardinality(F)
    <3>1. ExistsBijection(F, T)
      BY <2>5 DEF ExistsBijection
    <3> HIDE DEF h
    <3> QED
      BY <2>4, <3>1, FS_Bijection
  <2> QED
    BY <2>6 DEF F, T, OfKey
<1> QED
  BY <1>6, <1>7, <1>8, <1>9 DEF ids

\* A set of positions has a greatest one.
LEMMA GreatestIsThere ==
  ASSUME NEW n \in Nat, NEW S \in SUBSET (1..n), S # {}
  PROVE  \E m \in S : \A k \in S : m >= k
<1> DEFINE T == {n - i : i \in S}
<1>1. IsWellFoundedOn(Below, Nat)
  BY NatLessThanWellFounded DEF OpToRel, Below
<1>2. T \subseteq Nat /\ T # {}
  <2>1. \A i \in S : i \in Int /\ 1 <= i /\ i <= n
    OBVIOUS
  <2>2. \A i \in S : n - i \in Nat
    BY <2>1, SMT
  <2>3. T \subseteq Nat
    BY <2>2, Zenon
  <2>4. PICK i \in S : TRUE
    BY Zenon
  <2>5. n - i \in T
    BY <2>4, Zenon
  <2> QED
    BY <2>3, <2>5, Zenon
<1>3. PICK m \in T : \A k \in T : ~(<<k, m>> \in Below)
  <2> HIDE DEF T
  <2> QED
    BY <1>1, <1>2, WFMin
<1>4. PICK x \in S : m = n - x
  BY <1>3
<1>5. \A y \in S : x >= y
  <2> SUFFICES ASSUME NEW y \in S PROVE x >= y
    OBVIOUS
  <2>1. n - y \in T /\ n - y \in Nat /\ n - x \in Nat /\ x \in Nat /\ y \in Nat
    OBVIOUS
  <2>2. ~(n - y < n - x)
    BY <1>3, <1>4, <2>1 DEF Below
  <2> QED
    BY <2>1, <2>2
<1> QED
  BY <1>5

\* One of some rows is the last.
LEMMA LastIsThere ==
  ASSUME NEW rows, rows # {}, NEW n \in Nat, \A row \in rows : row.id \in 1..n
  PROVE  /\ LastOf(rows) \in rows
         /\ \A other \in rows : other.id <= LastOf(rows).id
<1> DEFINE ids == {row.id : row \in rows}
<1>1. ids \in SUBSET (1..n) /\ ids # {}
  OBVIOUS
<1> HIDE DEF ids
<1>2. PICK m \in ids : \A k \in ids : m >= k
  BY <1>1, GreatestIsThere
<1>3. PICK row \in rows : row.id = m
  BY <1>2 DEF ids
<1>4. \A other \in rows : other.id <= row.id
  <2> SUFFICES ASSUME NEW other \in rows PROVE other.id <= row.id
    OBVIOUS
  <2>1. other.id \in ids /\ other.id \in Nat /\ m \in Nat
    BY <1>1, <1>2 DEF ids
  <2> QED
    BY <1>2, <1>3, <2>1
<1> QED
  BY <1>4 DEF LastOf

\* A verdict that is carried over is that of the last row with the key.
LEMMA CarriedFrom ==
  ASSUME NEW existing, NEW key, NEW n \in Nat, \A old \in existing : old.id \in 1..n
  PROVE  \/ /\ \A old \in existing : old.key # key
            /\ Carried(existing, key) = "pending_review"
         \/ \E old \in existing :
              /\ old.key = key /\ Carried(existing, key) = old.review
              /\ \A other \in existing : other.key = key => other.id <= old.id
<1> DEFINE same == {old \in existing : Carries(old, key)}
<1>1. CASE same = {}
  BY <1>1 DEF Carried, Carries
<1>2. CASE same # {}
  <2>1. LastOf(same) \in same /\ \A other \in same : other.id <= LastOf(same).id
    <3>1. \A row \in same : row.id \in 1..n
      OBVIOUS
    <3> HIDE DEF same
    <3> QED
      BY <1>2, <3>1, LastIsThere
  <2>2. Carried(existing, key) = LastOf(same).review
    BY <1>2 DEF Carried
  <2>3. \A old \in existing : old \in same <=> old.key = key
    BY DEF Carries
  <2>4. same \subseteq existing
    OBVIOUS
  <2> HIDE DEF same
  <2> QED
    BY <2>1, <2>2, <2>3, <2>4
<1> QED
  BY <1>1, <1>2

-------------------------------------------------------------------------------
(* Types. *)

RowShape(row) == row = [id |-> row.id, key |-> row.key, review |-> row.review]

\* What a session has read is part of what the run can produce.
EvidenceOK(e) ==
  /\ e = [status |-> e.status, observations |-> e.observations, batches |-> e.batches,
          enemies |-> e.enemies, existing |-> e.existing, persisted |-> e.persisted]
  /\ e.observations \subseteq Observations
  /\ e.batches \in Seq(Validated)
  /\ \A row \in e.existing \cup e.persisted : RowShape(row)

Shapes ==
  /\ DOMAIN seen = Sessions /\ DOMAIN asked = Sessions /\ DOMAIN overtaken = Sessions
  /\ \A s \in Sessions : EvidenceOK(seen[s])
  /\ \A row \in findings : RowShape(row)
  /\ \A s \in Sessions : pc[s] = "update" => asked[s].verdict \in Verdicts

TypeInv == ReviewTypeOK /\ Shapes

LEMMA NothingIsEvidence ==
  /\ EvidenceOK(Nothing) /\ Nothing.existing = {} /\ Nothing.persisted = {}
  BY DEF EvidenceOK, Nothing

\* The rows of an evaluation, when it comes to replace those of the table.
LEMMA FoundRows ==
  ASSUME TypeInv, NEW s \in Sessions,
         NEW rows, rows = Inserted(Found(s), seen[s].existing, lastId)
  PROVE  /\ Cardinality(Found(s)) \in Nat
         /\ \A row \in rows : /\ RowShape(row)
                              /\ row.id \in (lastId + 1)..(lastId + Cardinality(Found(s)))
                              /\ \E f \in Found(s) : row.key = f.key
                              /\ row.review = Carried(seen[s].existing, row.key)
                              /\ row.review \in Reviews
         /\ \A row, other \in rows : row.id = other.id => row = other
         /\ \A f \in Found(s) : \E row \in rows : row.key = f.key
         /\ \A key : Cardinality(OfKey(rows, key)) = Cardinality(OfKey(Found(s), key))
<1>1. lastId \in Nat
  BY DEF TypeInv, ReviewTypeOK
<1>2. seen[s].batches \in Seq(Validated) /\ seen[s].observations \in SUBSET Observations
  BY DEF TypeInv, Shapes, EvidenceOK
<1>3. IsFiniteSet(Found(s)) /\ \A f \in Found(s) : f.at \in Nat
  BY <1>2, FindingsAreFinite DEF Found
<1>4. Cardinality(Found(s)) \in Nat
  BY <1>3, FS_CardinalityType
<1>5. /\ \A row \in rows : /\ RowShape(row)
                           /\ row.id \in (lastId + 1)..(lastId + Cardinality(Found(s)))
                           /\ \E f \in Found(s) : row.key = f.key
                           /\ row.review = Carried(seen[s].existing, row.key)
      /\ \A row, other \in rows : row.id = other.id => row = other
      /\ \A f \in Found(s) : \E row \in rows : row.key = f.key
      /\ \A key : Cardinality(OfKey(rows, key)) = Cardinality(OfKey(Found(s), key))
  BY <1>1, <1>3, InsertedRows DEF RowShape
<1>6. \A old \in seen[s].existing : old.review \in Reviews /\ old.id \in 1..lastId
  BY DEF TypeInv, ReviewTypeOK, RowsOK
<1>7. \A key : Carried(seen[s].existing, key) \in Reviews
  BY <1>1, <1>6, CarriedFrom DEF Reviews
<1> QED
  BY <1>4, <1>5, <1>7

\* Rows stay in order while the counter grows.
LEMMA RowsStay ==
  ASSUME NEW rows, RowsOK(rows), lastId \in Nat, lastId' \in Nat, lastId' >= lastId
  PROVE  RowsOK(rows)'
  BY DEF RowsOK

LEMMA TypesHoldAtFirst ==
  ASSUME ReviewInit PROVE TypeInv
<1>1. /\ lastId \in Nat /\ RowsOK({}) /\ 1 \in DOMAIN Worlds
      /\ \A s \in Sessions : seen[s] = Nothing /\ pc[s] = "idle"
  BY ReviewAssumption DEF ReviewInit, RowsOK
<1>2. /\ observations \subseteq {d.obs : d \in Decisions}
      /\ batches \in Seq({d.batch : d \in Decisions})
  <2>1. \A i \in DOMAIN Begun : Begun[i] \in Decisions
    BY ReviewAssumption
  <2>2. DOMAIN Begun = 1..Len(Begun) /\ Len(Begun) \in Nat
    BY ReviewAssumption
  <2>3. [i \in 1..Len(Begun) |-> Begun[i].batch] \in Seq({d.batch : d \in Decisions})
    BY <2>1, <2>2
  <2> QED
    BY <2>1, <2>2, <2>3 DEF ReviewInit
<1>3. ReviewTypeOK
  <2>1. pc \in [Sessions -> Steps]
    BY DEF ReviewInit, Steps
  <2>2. status \in {"running", "failed"} /\ world \in DOMAIN Worlds
    BY <1>1 DEF ReviewInit
  <2>3. RowsOK(findings) /\ \A s \in Sessions : RowsOK(seen[s].existing) /\ RowsOK(seen[s].persisted)
    BY <1>1, NothingIsEvidence DEF ReviewInit
  <2>4. /\ calm \subseteq Sessions /\ settled \in BOOLEAN
        /\ requests \in 0..MaxRequests /\ moves \in 0..MaxMoves
    <3>1. calm = {} /\ settled = FALSE /\ requests = 0 /\ moves = 0
      BY DEF ReviewInit
    <3>2. 0 \in 0..MaxRequests /\ 0 \in 0..MaxMoves
      BY ReviewAssumption
    <3> QED
      BY <3>1, <3>2
  <2> QED
    BY <1>1, <1>2, <2>1, <2>2, <2>3, <2>4 DEF ReviewTypeOK
<1>4. Shapes
  BY <1>1, NothingIsEvidence DEF ReviewInit, Shapes
<1> QED
  BY <1>3, <1>4 DEF TypeInv

\* A command that ends leaves nothing behind of what it has read.
LEMMA EndedTypes ==
  ASSUME TypeInv, NEW s \in Sessions, Ends(s),
         UNCHANGED <<run, findings, lastId, requests>>,
         calm' \subseteq calm, settled' \in BOOLEAN
  PROVE  TypeInv'
<1>1. /\ pc' \in [Sessions -> Steps] /\ DOMAIN seen' = Sessions /\ DOMAIN asked' = Sessions
      /\ DOMAIN overtaken' = Sessions
  BY DEF Ends, Goto, TypeInv, ReviewTypeOK, Shapes, Steps
<1>2. /\ \A t \in Sessions : seen'[t] = Nothing \/ seen'[t] = seen[t]
      /\ \A t \in Sessions : pc'[t] = "update" => pc[t] = "update" /\ asked'[t] = asked[t]
  BY DEF Ends, Goto, TypeInv, ReviewTypeOK, Shapes
<1>3. RowsOK({})
  BY DEF RowsOK
<1>4. \A t \in Sessions : /\ EvidenceOK(seen'[t])
                          /\ RowsOK(seen'[t].existing) /\ RowsOK(seen'[t].persisted)
  BY <1>2, <1>3, NothingIsEvidence DEF TypeInv, ReviewTypeOK, Shapes
<1>5. ReviewTypeOK'
  BY <1>1, <1>2, <1>4 DEF run, TypeInv, ReviewTypeOK, RowsOK
<1>6. Shapes'
  BY <1>1, <1>2, <1>4 DEF run, TypeInv, Shapes, EvidenceOK, RowShape
<1> QED
  BY <1>5, <1>6 DEF TypeInv

\* Steps that leave the rows of the table alone.
LEMMA TypesAreKept ==
  ASSUME TypeInv, ReviewNext, ~(\E s \in Sessions : UpdateReview(s) \/ Replace(s))
  PROVE  TypeInv'
<1> USE DEF TypeInv
<1>1. CASE \E d \in Decisions : Observe(d) \/ Validate(d)
  <2>1. PICK d \in Decisions : Observe(d) \/ Validate(d)
    BY <1>1
  <2>2. /\ observations' \subseteq {e.obs : e \in Decisions}
        /\ batches' \in Seq({e.batch : e \in Decisions})
    BY <2>1, SMTT(30) DEF Observe, Validate, ReviewTypeOK
  <2>3. status' = status /\ world' = world
    BY <2>1 DEF Observe, Validate
  <2>4. RunMoves /\ moves' \in 0..MaxMoves
    BY <2>1, ReviewAssumption DEF Observe, Validate, EvidenceMoves, ReviewTypeOK
  <2> QED
    BY <2>2, <2>3, <2>4
       DEF RunMoves, Disturbed, results, ReviewTypeOK, Shapes, RowsOK, EvidenceOK, RowShape
<1>2. CASE Ingest \/ Fail
  <2>1. /\ RunMoves /\ status' \in {"running", "failed"} /\ world' \in DOMAIN Worlds
        /\ moves' \in 0..MaxMoves
    BY <1>2, ReviewAssumption DEF Ingest, Fail, EvidenceMoves, ReviewTypeOK
  <2>2. observations' = observations /\ batches' = batches
    BY <1>2 DEF Ingest, Fail
  <2> QED
    BY <2>1, <2>2
       DEF RunMoves, Disturbed, results, ReviewTypeOK, Shapes, RowsOK, EvidenceOK, RowShape
<1>3. CASE Finished
  BY <1>3 DEF Finished, vars, ReviewTypeOK, Shapes, RowsOK, EvidenceOK, RowShape
<1>4. ASSUME NEW s \in Sessions, AskEvaluation(s) \/ AskReview(s)
      PROVE  TypeInv'
  <2>1. /\ UNCHANGED <<run, results, seen, history>>
        /\ \E step \in Steps : Goto(s, step)
        /\ requests' = requests + 1 /\ requests < MaxRequests
    BY <1>4 DEF AskEvaluation, AskReview, Steps
  <2>2. \A t \in Sessions : pc'[t] = "update" =>
          asked'[t].id \in 1..lastId /\ asked'[t].verdict \in Verdicts
    <3> SUFFICES ASSUME NEW t \in Sessions, pc'[t] = "update"
                 PROVE  asked'[t].id \in 1..lastId /\ asked'[t].verdict \in Verdicts
      OBVIOUS
    <3>1. CASE AskEvaluation(s)
      BY <3>1 DEF AskEvaluation, Goto, ReviewTypeOK, Shapes
    <3>2. CASE AskReview(s)
      <4>1. PICK row \in Pending(findings), v \in Verdicts :
              asked' = [asked EXCEPT ![s] = [id |-> row.id, key |-> row.key, verdict |-> v]]
        BY <3>2 DEF AskReview
      <4>2. row.id \in 1..lastId
        BY DEF Pending, ReviewTypeOK, RowsOK
      <4>3. CASE t = s
        BY <4>1, <4>2, <4>3 DEF Shapes
      <4>4. CASE t # s
        BY <4>1, <4>4, <3>2 DEF AskReview, Goto, Shapes, ReviewTypeOK
      <4> QED
        BY <4>3, <4>4
    <3> QED
      BY <1>4, <3>1, <3>2
  <2>3. DOMAIN asked' = Sessions
    BY <1>4 DEF AskEvaluation, AskReview, Shapes
  <2>4. pc' \in [Sessions -> Steps] /\ requests' \in 0..MaxRequests
    BY <2>1, ReviewAssumption DEF Goto, ReviewTypeOK
  <2>5. ReviewTypeOK'
    BY <2>1, <2>2, <2>4 DEF run, results, history, ReviewTypeOK, RowsOK
  <2>6. Shapes'
    BY <2>1, <2>2, <2>3 DEF run, results, history, Shapes, EvidenceOK, RowShape
  <2> QED
    BY <2>5, <2>6
<1>5. ASSUME NEW s \in Sessions,
             \/ ReadStatus(s) \/ ReadObservations(s) \/ ReadBatches(s) \/ ReadWorld(s)
             \/ ReadFindings(s)
      PROVE  TypeInv'
  <2> DEFINE old == seen[s]
  <2>0. /\ old = [status |-> old.status, observations |-> old.observations, batches |-> old.batches,
                 enemies |-> old.enemies, existing |-> old.existing, persisted |-> old.persisted]
        /\ EvidenceOK(old) /\ RowsOK(old.existing) /\ RowsOK(old.persisted)
    BY DEF Shapes, EvidenceOK, ReviewTypeOK
  <2>1. \E step \in Steps \ {"update"} : \E e :
          /\ Goto(s, step) /\ seen' = [seen EXCEPT ![s] = e]
          /\ EvidenceOK(e) /\ RowsOK(e.existing) /\ RowsOK(e.persisted)
    <3>1. CASE ReadStatus(s)
      <4> DEFINE e == [status |-> status, observations |-> old.observations,
                       batches |-> old.batches, enemies |-> old.enemies,
                       existing |-> old.existing, persisted |-> old.persisted]
      <4>1. [seen[s] EXCEPT !.status = status] = e
        BY <2>0
      <4>2. EvidenceOK(e) /\ RowsOK(e.existing) /\ RowsOK(e.persisted)
        BY <2>0 DEF Shapes, EvidenceOK, ReviewTypeOK, Observations, Validated
      <4>3. Goto(s, "observations") /\ seen' = [seen EXCEPT ![s] = e]
        BY <3>1, <4>1 DEF ReadStatus, Reads
      <4>4. "observations" \in Steps \ {"update"}
        BY DEF Steps
      <4> HIDE DEF e
      <4> QED
        BY <4>2, <4>3, <4>4
    <3>2. CASE ReadObservations(s)
      <4> DEFINE e == [status |-> old.status, observations |-> observations,
                       batches |-> old.batches, enemies |-> old.enemies,
                       existing |-> old.existing, persisted |-> old.persisted]
      <4>1. [seen[s] EXCEPT !.observations = observations] = e
        BY <2>0
      <4>2. EvidenceOK(e) /\ RowsOK(e.existing) /\ RowsOK(e.persisted)
        BY <2>0 DEF Shapes, EvidenceOK, ReviewTypeOK, Observations, Validated
      <4>3. Goto(s, "batches") /\ seen' = [seen EXCEPT ![s] = e]
        BY <3>2, <4>1 DEF ReadObservations, Reads
      <4>4. "batches" \in Steps \ {"update"}
        BY DEF Steps
      <4> HIDE DEF e
      <4> QED
        BY <4>2, <4>3, <4>4
    <3>3. CASE ReadBatches(s)
      <4> DEFINE e == [status |-> old.status, observations |-> old.observations,
                       batches |-> batches, enemies |-> old.enemies,
                       existing |-> old.existing, persisted |-> old.persisted]
      <4>1. [seen[s] EXCEPT !.batches = batches] = e
        BY <2>0
      <4>2. EvidenceOK(e) /\ RowsOK(e.existing) /\ RowsOK(e.persisted)
        BY <2>0 DEF Shapes, EvidenceOK, ReviewTypeOK, Observations, Validated
      <4>3. Goto(s, "world") /\ seen' = [seen EXCEPT ![s] = e]
        BY <3>3, <4>1 DEF ReadBatches, Reads
      <4>4. "world" \in Steps \ {"update"}
        BY DEF Steps
      <4> HIDE DEF e
      <4> QED
        BY <4>2, <4>3, <4>4
    <3>4. CASE ReadWorld(s)
      <4> DEFINE e == [status |-> old.status, observations |-> old.observations,
                       batches |-> old.batches, enemies |-> Worlds[world],
                       existing |-> old.existing, persisted |-> old.persisted]
      <4>1. [seen[s] EXCEPT !.enemies = Worlds[world]] = e
        BY <2>0
      <4>2. EvidenceOK(e) /\ RowsOK(e.existing) /\ RowsOK(e.persisted)
        BY <2>0 DEF Shapes, EvidenceOK, ReviewTypeOK, Observations, Validated
      <4>3. Goto(s, "findings") /\ seen' = [seen EXCEPT ![s] = e]
        BY <3>4, <4>1 DEF ReadWorld, Reads
      <4>4. "findings" \in Steps \ {"update"}
        BY DEF Steps
      <4> HIDE DEF e
      <4> QED
        BY <4>2, <4>3, <4>4
    <3>5. CASE ReadFindings(s)
      <4> DEFINE e == [status |-> old.status, observations |-> old.observations,
                       batches |-> old.batches, enemies |-> old.enemies,
                       existing |-> findings, persisted |-> old.persisted]
      <4>1. [seen[s] EXCEPT !.existing = findings] = e
        BY <2>0
      <4>2. EvidenceOK(e) /\ RowsOK(e.existing) /\ RowsOK(e.persisted)
        BY <2>0 DEF Shapes, EvidenceOK, ReviewTypeOK, Observations, Validated
      <4>3. Goto(s, "replace") /\ seen' = [seen EXCEPT ![s] = e]
        BY <3>5, <4>1 DEF ReadFindings, Reads
      <4>4. "replace" \in Steps \ {"update"}
        BY DEF Steps
      <4> HIDE DEF e
      <4> QED
        BY <4>2, <4>3, <4>4
    <3> QED
      BY <1>5, <3>1, <3>2, <3>3, <3>4, <3>5
  <2>2. UNCHANGED <<run, results, asked, requests, settled>>
    BY <1>5 DEF ReadStatus, ReadObservations, ReadBatches, ReadWorld, ReadFindings, Reads
  <2>3. DOMAIN overtaken' = Sessions /\ calm' \subseteq Sessions
    BY <1>5 DEF ReadStatus, ReadObservations, ReadBatches, ReadWorld, ReadFindings, Shapes, ReviewTypeOK
  <2>4. \A t \in Sessions : /\ EvidenceOK(seen'[t])
                            /\ RowsOK(seen'[t].existing) /\ RowsOK(seen'[t].persisted)
    BY <2>1 DEF Shapes, ReviewTypeOK
  <2>5. \A t \in Sessions : pc'[t] = "update" => pc[t] = "update"
    BY <2>1 DEF Goto, ReviewTypeOK
  <2>6. ReviewTypeOK'
    <3> pc' \in [Sessions -> Steps]
      BY <2>1 DEF Goto, ReviewTypeOK
    <3> QED
      BY <2>2, <2>3, <2>4, <2>5 DEF run, results, ReviewTypeOK, RowsOK
  <2>7. Shapes'
    <3>1. DOMAIN seen' = Sessions
      BY <2>1 DEF Shapes
    <3> QED
      BY <2>2, <2>3, <2>4, <2>5, <3>1 DEF run, results, Shapes, EvidenceOK, RowShape
  <2> QED
    BY <2>6, <2>7
<1>6. ASSUME NEW s \in Sessions, SaveMetrics(s)
      PROVE  TypeInv'
  <2>1. /\ UNCHANGED <<run, findings, lastId, asked, seen, requests, overtaken>>
        /\ Goto(s, "summary") /\ calm' \subseteq calm /\ settled' \in BOOLEAN
    BY <1>6 DEF SaveMetrics
  <2>2. pc' \in [Sessions -> Steps] /\ \A t \in Sessions : pc'[t] = "update" => pc[t] = "update"
    BY <2>1 DEF Goto, ReviewTypeOK, Steps
  <2> QED
    BY <2>1, <2>2 DEF run, ReviewTypeOK, Shapes, RowsOK, EvidenceOK, RowShape
<1>7. ASSUME NEW s \in Sessions, SaveSummary(s) \/ Killed(s)
      PROVE  TypeInv'
  <2>1. Ends(s) /\ UNCHANGED <<run, findings, lastId, requests>>
    BY <1>7 DEF SaveSummary, Killed, results
  <2>2. calm' \subseteq calm
    BY <1>7 DEF SaveSummary, Killed
  <2>3. settled' \in BOOLEAN
    <3>1. CASE SaveSummary(s)
      <4>1. settled' = (s \in calm)
        BY <3>1 DEF SaveSummary
      <4>2. (s \in calm) \in BOOLEAN
        OBVIOUS
      <4> QED
        BY <4>1, <4>2, Zenon
    <3>2. CASE Killed(s)
      <4>1. settled' = settled
        BY <3>2 DEF Killed
      <4>2. settled \in BOOLEAN
        BY DEF ReviewTypeOK
      <4> QED
        BY <4>1, <4>2, Zenon
    <3> QED
      BY <1>7, <3>1, <3>2
  <2> QED
    BY <2>1, <2>2, <2>3, EndedTypes
<1> QED
  BY <1>1, <1>2, <1>3, <1>4, <1>5, <1>6, <1>7 DEF ReviewNext, Evaluate

\* The rows after a verdict on one of them.
LEMMA MarkedRows ==
  ASSUME NEW rows, \A row \in rows : RowShape(row), NEW id, NEW v
  PROVE  /\ \A m \in Marked(rows, id, v) : RowShape(m) /\ \E row \in rows :
              /\ m.id = row.id /\ m.key = row.key
              /\ m.review = IF row.id = id THEN v ELSE row.review
         /\ \A row \in rows : \E m \in Marked(rows, id, v) :
              /\ m.id = row.id /\ m.key = row.key
              /\ m.review = IF row.id = id THEN v ELSE row.review
<1> DEFINE mark(row) == IF row.id = id THEN [row EXCEPT !.review = v] ELSE row
<1>1. \A row \in rows : /\ RowShape(mark(row)) /\ mark(row).id = row.id /\ mark(row).key = row.key
                        /\ mark(row).review = IF row.id = id THEN v ELSE row.review
  <2> SUFFICES ASSUME NEW row \in rows
               PROVE  /\ RowShape(mark(row))
                      /\ mark(row).id = row.id /\ mark(row).key = row.key
                      /\ mark(row).review = IF row.id = id THEN v ELSE row.review
    OBVIOUS
  <2>1. row = [id |-> row.id, key |-> row.key, review |-> row.review]
    BY DEF RowShape
  <2>2. [row EXCEPT !.review = v] = [id |-> row.id, key |-> row.key, review |-> v]
    BY <2>1
  <2> QED
    BY <2>1, <2>2 DEF RowShape
<1>2. Marked(rows, id, v) = {mark(row) : row \in rows}
  BY DEF Marked
<1> HIDE DEF mark
<1>3. /\ \A m \in Marked(rows, id, v) : RowShape(m) /\ \E row \in rows :
           /\ m.id = row.id /\ m.key = row.key
           /\ m.review = IF row.id = id THEN v ELSE row.review
      /\ \A row \in rows : \E m \in Marked(rows, id, v) :
           /\ m.id = row.id /\ m.key = row.key
           /\ m.review = IF row.id = id THEN v ELSE row.review
  BY <1>1, <1>2
<1> QED
  BY <1>3

LEMMA TypesAreKeptByReviews ==
  ASSUME TypeInv, NEW s \in Sessions, UpdateReview(s)
  PROVE  TypeInv'
<1>1. CASE \E row \in findings : row.id = asked[s].id
  <2> DEFINE v == asked[s].verdict
  <2>1. /\ findings' = Marked(findings, asked[s].id, v)
        /\ calm' = {} /\ settled' = FALSE /\ Goto(s, "run") /\ UNCHANGED <<asked, seen>>
        /\ UNCHANGED <<run, lastId, requests>> /\ DOMAIN overtaken' = Sessions
    BY <1>1 DEF UpdateReview, Disturbed, TypeInv, Shapes
  <2>2. v \in Reviews
    BY DEF UpdateReview, TypeInv, Shapes, Reviews
  <2>3. /\ \A m \in findings' : RowShape(m) /\ \E row \in findings :
             /\ m.id = row.id /\ m.key = row.key
             /\ m.review = IF row.id = asked[s].id THEN v ELSE row.review
    <3>1. \A row \in findings : RowShape(row)
      BY DEF TypeInv, Shapes
    <3> HIDE DEF v
    <3> QED
      BY <2>1, <3>1, MarkedRows
  <2>4. RowsOK(findings)
    BY DEF TypeInv, ReviewTypeOK
  <2>5. \A m, n \in findings' : m.id = n.id => m = n
    <3> SUFFICES ASSUME NEW m \in findings', NEW n \in findings', m.id = n.id
                 PROVE  m = n
      OBVIOUS
    <3>1. PICK row \in findings : /\ m.id = row.id /\ m.key = row.key
                                  /\ m.review = IF row.id = asked[s].id THEN v ELSE row.review
      BY <2>3
    <3>2. PICK other \in findings : /\ n.id = other.id /\ n.key = other.key
                                    /\ n.review = IF other.id = asked[s].id THEN v ELSE other.review
      BY <2>3
    <3>3. row = other
      BY <2>4, <3>1, <3>2 DEF RowsOK
    <3> QED
      BY <2>3, <3>1, <3>2, <3>3 DEF RowShape
  <2>6. RowsOK(findings)'
    BY <2>1, <2>2, <2>3, <2>4, <2>5 DEF RowsOK
  <2>7. pc' \in [Sessions -> Steps] /\ \A t \in Sessions : pc'[t] = "update" => pc[t] = "update"
    BY <2>1 DEF Goto, TypeInv, ReviewTypeOK, Steps
  <2>8. ReviewTypeOK'
    BY <2>1, <2>6, <2>7, ZenonT(40) DEF run, TypeInv, ReviewTypeOK, RowsOK
  <2>9. Shapes'
    BY <2>1, <2>3, <2>7 DEF run, TypeInv, Shapes, EvidenceOK, RowShape
  <2> QED
    BY <2>8, <2>9 DEF TypeInv
<1>2. CASE ~\E row \in findings : row.id = asked[s].id
  <2>1. Ends(s) /\ UNCHANGED <<run, findings, lastId, requests, calm, settled>>
    BY <1>2 DEF UpdateReview
  <2>2. settled' \in BOOLEAN
    BY <2>1 DEF TypeInv, ReviewTypeOK
  <2> QED
    BY <2>1, <2>2, EndedTypes
<1> QED
  BY <1>1, <1>2

LEMMA TypesAreKeptByReplacing ==
  ASSUME TypeInv, NEW s \in Sessions, Replace(s)
  PROVE  TypeInv'
<1> DEFINE rows == Inserted(Found(s), seen[s].existing, lastId)
           n    == Cardinality(Found(s))
<1>1. /\ findings' = rows /\ lastId' = lastId + n
      /\ seen' = [seen EXCEPT ![s] = Persisted(s, rows)]
      /\ calm' \subseteq calm /\ settled' = FALSE /\ Goto(s, "metrics")
      /\ UNCHANGED <<run, asked, requests, overtaken>>
  BY DEF Replace
<1> HIDE DEF rows, n
<1>2. /\ n \in Nat
      /\ \A row \in rows : /\ RowShape(row) /\ row.id \in (lastId + 1)..(lastId + n)
                           /\ row.review \in Reviews
      /\ \A row, other \in rows : row.id = other.id => row = other
  BY FoundRows DEF rows, n
<1>3. lastId \in Nat /\ lastId' \in Nat /\ lastId' >= lastId
  BY <1>1, <1>2 DEF TypeInv, ReviewTypeOK
<1>4. RowsOK(findings)'
  BY <1>1, <1>2, <1>3 DEF RowsOK
<1>5. /\ EvidenceOK(Persisted(s, rows))
      /\ Persisted(s, rows).existing = {} /\ Persisted(s, rows).persisted = rows
  <2>1. Persisted(s, rows) = [status |-> seen[s].status, observations |-> {},
                              batches |-> seen[s].batches, enemies |-> None,
                              existing |-> {}, persisted |-> rows]
    BY DEF Persisted
  <2>2. seen[s].batches \in Seq(Validated)
    BY DEF TypeInv, Shapes, EvidenceOK
  <2> QED
    BY <1>2, <2>1, <2>2 DEF EvidenceOK
<1>6. RowsOK({})'
  BY DEF RowsOK
<1>7. \A t \in Sessions : seen'[t] = IF t = s THEN Persisted(s, rows) ELSE seen[t]
  BY <1>1 DEF TypeInv, Shapes
<1>8. \A t \in Sessions : RowsOK(seen[t].existing)' /\ RowsOK(seen[t].persisted)'
  <2> SUFFICES ASSUME NEW t \in Sessions
               PROVE  RowsOK(seen[t].existing)' /\ RowsOK(seen[t].persisted)'
    OBVIOUS
  <2>1. CASE t = s
    BY <1>1, <1>4, <1>5, <1>6, <1>7, <2>1 DEF RowsOK
  <2>2. CASE t # s
    <3>1. RowsOK(seen[t].existing) /\ RowsOK(seen[t].persisted)
      BY DEF TypeInv, ReviewTypeOK
    <3> QED
      BY <1>3, <1>7, <2>2, <3>1 DEF RowsOK
  <2> QED
    BY <2>1, <2>2
<1>9. pc' \in [Sessions -> Steps] /\ \A t \in Sessions : pc'[t] = "update" => pc[t] = "update"
  BY <1>1 DEF Goto, TypeInv, ReviewTypeOK, Steps
<1>10. ReviewTypeOK'
  <2>1. \A t \in Sessions : pc'[t] = "update" => asked'[t].id \in 1..lastId'
    BY <1>1, <1>3, <1>9 DEF TypeInv, ReviewTypeOK
  <2> QED
    BY <1>1, <1>3, <1>4, <1>8, <1>9, <2>1 DEF run, TypeInv, ReviewTypeOK
<1>11. Shapes'
  <2>1. DOMAIN seen' = Sessions /\ \A t \in Sessions : EvidenceOK(seen'[t])
    BY <1>1, <1>5, <1>7 DEF TypeInv, Shapes
  <2>2. \A row \in findings' : RowShape(row)
    BY <1>1, <1>2
  <2> QED
    BY <1>1, <1>9, <2>1, <2>2 DEF run, TypeInv, Shapes, EvidenceOK, RowShape
<1> QED
  BY <1>10, <1>11 DEF TypeInv

\* The types are an invariant.
LEMMA TypesAreInvariant ==
  ASSUME TypeInv, [ReviewNext]_vars PROVE TypeInv'
<1>1. CASE \E s \in Sessions : UpdateReview(s)
  BY <1>1, TypesAreKeptByReviews
<1>2. CASE \E s \in Sessions : Replace(s)
  BY <1>2, TypesAreKeptByReplacing
<1>3. CASE UNCHANGED vars
  BY <1>3 DEF vars, TypeInv, ReviewTypeOK, Shapes, RowsOK, EvidenceOK, RowShape
<1> QED
  BY <1>1, <1>2, <1>3, TypesAreKept

\* ReviewTypeOK: every variable has its type, and no two rows of the findings share an id,
\* however many share a key.
THEOREM ReviewTypesAreCorrect == ReviewSpec => []ReviewTypeOK
<1>1. ReviewInit => TypeInv
  BY TypesHoldAtFirst
<1>2. TypeInv /\ [ReviewNext]_vars => TypeInv'
  BY TypesAreInvariant
<1>3. TypeInv => ReviewTypeOK
  BY DEF TypeInv
<1> QED
  BY <1>1, <1>2, <1>3, PTL DEF ReviewSpec

-------------------------------------------------------------------------------
(* Verdicts.  Beside the two properties: what a command has read of the table shows *)
(* no verdict nobody gave, and when it comes to replace the rows it has read every   *)
(* verdict that stands, but those that were given since, on the last row of its key.                             *)

ReadVerdictsWereGiven ==
  \A s \in Sessions : \A row \in seen[s].existing :
    row.review # "pending_review" => [key |-> row.key, review |-> row.review] \in given

\* The last row of the key of a verdict shows it.
LastShows(rows, p) ==
  \E row \in rows : /\ row.key = p.key /\ row.review = p.review
                    /\ \A other \in rows : other.key = p.key => other.id <= row.id

StandingVerdictsAreRead ==
  \A s \in Sessions : pc[s] = "replace" =>
    \A p \in standing : p.key \notin overtaken[s] => LastShows(seen[s].existing, p)

VerdictInv ==
  /\ ReviewsHitTheirFinding
  /\ VerdictsStand
  /\ ReadVerdictsWereGiven
  /\ StandingVerdictsAreRead

LEMMA StandingIsShown ==
  VerdictsStand <=>
    /\ \A p \in standing : LastShows(findings, p)
    /\ \A row \in findings :
         row.review # "pending_review" => [key |-> row.key, review |-> row.review] \in given
BY DEF VerdictsStand, LastShows, Counts

\* Steps that touch neither the table nor what matters of the commands.
LEMMA QuietSteps ==
  ASSUME VerdictInv, UNCHANGED <<findings, given, standing>>,
         \A t \in Sessions :
           /\ pc'[t] = "update" => pc[t] = "update" /\ asked'[t] = asked[t]
           /\ seen'[t].existing = {} \/ seen'[t].existing = seen[t].existing
           /\ pc'[t] = "replace" => /\ pc[t] = "replace" /\ overtaken'[t] = overtaken[t]
                                    /\ seen'[t].existing = seen[t].existing
  PROVE  VerdictInv'
<1>1. ReviewsHitTheirFinding'
  BY DEF VerdictInv, ReviewsHitTheirFinding
<1>2. VerdictsStand'
  BY DEF VerdictInv, VerdictsStand, Counts
<1>3. ReadVerdictsWereGiven'
  BY DEF VerdictInv, ReadVerdictsWereGiven
<1>4. StandingVerdictsAreRead'
  BY DEF VerdictInv, StandingVerdictsAreRead
<1> QED
  BY <1>1, <1>2, <1>3, <1>4 DEF VerdictInv

\* A command that ends touches nothing of that.
LEMMA EndsQuietly ==
  ASSUME TypeInv, VerdictInv, NEW s \in Sessions, Ends(s),
         UNCHANGED <<findings, given, standing>>
  PROVE  VerdictInv'
<1>1. \A t \in Sessions :
        /\ pc'[t] = IF t = s THEN "idle" ELSE pc[t]
        /\ t # s => asked'[t] = asked[t] /\ seen'[t] = seen[t] /\ overtaken'[t] = overtaken[t]
        /\ seen'[s] = Nothing
  BY DEF Ends, Goto, TypeInv, ReviewTypeOK, Shapes
<1> QED
  BY <1>1, QuietSteps, NothingIsEvidence

LEMMA VerdictsAtFirst ==
  ASSUME ReviewInit PROVE VerdictInv
<1>1. \A s \in Sessions : pc[s] = "idle" /\ seen[s] = Nothing
  BY DEF ReviewInit
<1>2. findings = {} /\ standing = {}
  BY DEF ReviewInit
<1> QED
  BY <1>1, <1>2, NothingIsEvidence
     DEF VerdictInv, ReviewsHitTheirFinding, VerdictsStand, ReadVerdictsWereGiven,
         StandingVerdictsAreRead

\* A verdict is stored.
LEMMA VerdictsAreGiven ==
  ASSUME TypeInv, VerdictInv, NEW s \in Sessions, UpdateReview(s)
  PROVE  VerdictInv'
<1>1. CASE ~\E row \in findings : row.id = asked[s].id
  <2>1. Ends(s) /\ UNCHANGED <<findings, given, standing>>
    BY <1>1 DEF UpdateReview
  <2> QED
    BY <2>1, EndsQuietly
<1>2. CASE \E row \in findings : row.id = asked[s].id
  <2> DEFINE v   == asked[s].verdict
             key == asked[s].key
             given2 == [key |-> key, review |-> v]
             counted == \E row \in findings : row.id = asked[s].id /\ Counts(row)
  <2>1. /\ pc[s] = "update" /\ findings' = Marked(findings, asked[s].id, v)
        /\ given' = given \cup {given2}
        /\ counted => /\ standing' = {p \in standing : p.key # key} \cup {given2}
                      /\ overtaken' = [t \in Sessions |-> overtaken[t] \cup {key}]
        /\ ~counted => standing' = standing /\ overtaken' = overtaken
        /\ Goto(s, "run") /\ UNCHANGED <<asked, seen>>
    BY <1>2 DEF UpdateReview
  <2>2. /\ \A m \in findings' : \E row \in findings :
             /\ m.id = row.id /\ m.key = row.key
             /\ m.review = IF row.id = asked[s].id THEN v ELSE row.review
        /\ \A row \in findings : \E m \in findings' :
             /\ m.id = row.id /\ m.key = row.key
             /\ m.review = IF row.id = asked[s].id THEN v ELSE row.review
    <3>1. \A row \in findings : RowShape(row)
      BY DEF TypeInv, Shapes
    <3> HIDE DEF v
    <3> QED
      BY <2>1, <3>1, MarkedRows
  <2>3. PICK hit \in findings : /\ hit.id = asked[s].id /\ hit.key = key
                                /\ \A row \in findings : row.id = hit.id => row = hit
    <3>1. PICK hit \in findings : hit.id = asked[s].id
      BY <1>2
    <3>2. hit.key = key
      BY <2>1, <3>1 DEF VerdictInv, ReviewsHitTheirFinding
    <3>3. \A row \in findings : row.id = hit.id => row = hit
      BY DEF TypeInv, ReviewTypeOK, RowsOK
    <3> QED
      BY <3>1, <3>2, <3>3
  <2>4. \A t \in Sessions : pc'[t] = IF t = s THEN "run" ELSE pc[t]
    BY <2>1 DEF Goto, TypeInv, ReviewTypeOK
  <2>5. ReviewsHitTheirFinding'
    BY <2>1, <2>2, <2>4 DEF VerdictInv, ReviewsHitTheirFinding
  <2>6. counted <=> Counts(hit)
    BY <2>3
  <2>7. ASSUME NEW p, NEW row \in findings, row.id # hit.id,
               row.key = p.key, row.review = p.review,
               \A other \in findings : other.key = p.key => other.id <= row.id
        PROVE  LastShows(findings', p)
    <3>1. PICK m \in findings' : m.id = row.id /\ m.key = row.key /\ m.review = row.review
      BY <2>2, <2>3, <2>7
    <3>2. \A other \in findings' : other.key = p.key => other.id <= m.id
      BY <2>2, <2>7, <3>1
    <3> QED
      BY <2>7, <3>1, <3>2 DEF LastShows
  <2>8. ASSUME NEW p \in standing'
        PROVE  LastShows(findings', p)
    <3>1. ASSUME p \in standing PROVE LastShows(findings, p)
      BY <3>1, StandingIsShown DEF VerdictInv
    <3>2. CASE counted /\ p = given2
      <4>1. PICK m \in findings' : m.id = hit.id /\ m.key = hit.key /\ m.review = v
        BY <2>2, <2>3
      <4>2. \A other \in findings' : other.key = key => other.id <= m.id
        BY <2>2, <2>3, <2>6, <3>2, <4>1 DEF Counts
      <4> QED
        BY <2>3, <3>2, <4>1, <4>2 DEF LastShows
    <3>3. CASE counted /\ p \in standing /\ p.key # key
      <4>1. PICK row \in findings :
              /\ row.key = p.key /\ row.review = p.review
              /\ \A other \in findings : other.key = p.key => other.id <= row.id
        BY <3>1, <3>3 DEF LastShows
      <4>2. row.id # hit.id
        BY <2>3, <3>3, <4>1
      <4> QED
        BY <2>7, <4>1, <4>2
    <3>4. CASE ~counted
      <4>1. p \in standing
        BY <2>1, <3>4
      <4>2. PICK row \in findings :
              /\ row.key = p.key /\ row.review = p.review
              /\ \A other \in findings : other.key = p.key => other.id <= row.id
        BY <3>1, <4>1 DEF LastShows
      <4>3. row.id # hit.id
        BY <2>3, <2>6, <3>4, <4>2 DEF Counts
      <4> QED
        BY <2>7, <4>2, <4>3
    <3> QED
      BY <2>1, <3>2, <3>3, <3>4
  <2>9. ASSUME NEW m \in findings', m.review # "pending_review"
        PROVE  [key |-> m.key, review |-> m.review] \in given'
    <3>1. PICK row \in findings : /\ m.key = row.key
                                  /\ m.review = IF row.id = asked[s].id THEN v ELSE row.review
      BY <2>2
    <3>2. CASE row.id = asked[s].id
      BY <2>1, <2>3, <3>1, <3>2
    <3>3. CASE row.id # asked[s].id
      BY <2>1, <2>9, <3>1, <3>3 DEF VerdictInv, VerdictsStand
    <3> QED
      BY <3>2, <3>3
  <2>10. VerdictsStand'
    BY <2>8, <2>9 DEF VerdictsStand, LastShows, Counts
  <2>11. ReadVerdictsWereGiven'
    BY <2>1 DEF VerdictInv, ReadVerdictsWereGiven
  <2>12. StandingVerdictsAreRead'
    <3> SUFFICES ASSUME NEW t \in Sessions, pc'[t] = "replace",
                        NEW p \in standing', p.key \notin overtaken'[t]
                 PROVE  LastShows(seen'[t].existing, p)
      BY DEF StandingVerdictsAreRead, LastShows
    <3>1. p \in standing /\ p.key \notin overtaken[t] /\ pc[t] = "replace"
      <4>1. CASE counted
        BY <2>1, <2>4, <4>1
      <4>2. CASE ~counted
        BY <2>1, <2>4, <4>2
      <4> QED
        BY <4>1, <4>2
    <3> QED
      BY <2>1, <3>1 DEF VerdictInv, StandingVerdictsAreRead
  <2> QED
    BY <2>5, <2>10, <2>11, <2>12 DEF VerdictInv
<1> QED
  BY <1>1, <1>2

\* The rows are replaced: every verdict that stands is carried over.
LEMMA VerdictsAreCarried ==
  ASSUME TypeInv, VerdictInv, NEW s \in Sessions, Replace(s)
  PROVE  VerdictInv'
<1> DEFINE rows == Inserted(Found(s), seen[s].existing, lastId)
<1>1. /\ pc[s] = "replace" /\ findings' = rows
      /\ seen' = [seen EXCEPT ![s] = Persisted(s, rows)]
      /\ standing' = {p \in standing : p.key \in {f.key : f \in Found(s)} \ overtaken[s]}
      /\ Goto(s, "metrics") /\ UNCHANGED <<asked, given, overtaken>>
  BY DEF Replace
<1> HIDE DEF rows
<1>2. /\ Cardinality(Found(s)) \in Nat
      /\ \A row \in rows : /\ row.id \in (lastId + 1)..(lastId + Cardinality(Found(s)))
                           /\ row.review = Carried(seen[s].existing, row.key)
      /\ \A f \in Found(s) : \E row \in rows : row.key = f.key
  BY FoundRows DEF rows
<1>3. \A t \in Sessions : /\ pc'[t] = IF t = s THEN "metrics" ELSE pc[t]
                          /\ t # s => seen'[t] = seen[t]
  BY <1>1 DEF Goto, TypeInv, ReviewTypeOK, Shapes
<1>4. seen'[s].existing = {}
  BY <1>1 DEF Persisted, TypeInv, Shapes
<1>5. ReviewsHitTheirFinding'
  <2> SUFFICES ASSUME NEW t \in Sessions, pc'[t] = "update", NEW row \in findings'
               PROVE  row.id # asked'[t].id
    BY DEF ReviewsHitTheirFinding
  <2>1. pc[t] = "update" /\ asked'[t] = asked[t]
    BY <1>1, <1>3
  <2>2. asked[t].id \in 1..lastId /\ lastId \in Nat
    BY <2>1 DEF TypeInv, ReviewTypeOK
  <2> QED
    BY <1>1, <1>2, <2>1, <2>2
<1>6. VerdictsStand'
  <2>0. /\ \A old \in seen[s].existing : old.id \in 1..lastId
        /\ \A old, other \in seen[s].existing : old.id = other.id => old = other
        /\ lastId \in Nat
    BY DEF TypeInv, ReviewTypeOK, RowsOK
  <2>1. ASSUME NEW p \in standing'
        PROVE  LastShows(rows, p)
    <3>1. p \in standing /\ p.key \in {f.key : f \in Found(s)} /\ p.key \notin overtaken[s]
      BY <1>1
    <3>2. PICK old \in seen[s].existing :
            /\ old.key = p.key /\ old.review = p.review
            /\ \A other \in seen[s].existing : other.key = p.key => other.id <= old.id
      BY <1>1, <3>1 DEF VerdictInv, StandingVerdictsAreRead, LastShows
    <3>3. Carried(seen[s].existing, p.key) = old.review
      <4> DEFINE existing == seen[s].existing
                 key      == p.key
      <4>4. \E row \in existing : row.key = key
        BY <3>2
      <4>5. \A row \in existing : row.id \in 1..lastId
        BY <2>0
      <4> HIDE DEF existing, key
      <4>1. PICK last \in existing :
              /\ last.key = key /\ Carried(existing, key) = last.review
              /\ \A other \in existing : other.key = key => other.id <= last.id
        BY <2>0, <4>4, <4>5, CarriedFrom
      <4> USE DEF existing, key
      <4>2. last.id \in Nat /\ old.id \in Nat /\ last.id <= old.id /\ old.id <= last.id
        BY <2>0, <3>2, <4>1
      <4>3. last = old
        BY <2>0, <4>2
      <4> QED
        BY <4>1, <4>3
    <3> DEFINE same == {row \in rows : row.key = p.key}
               n == lastId + Cardinality(Found(s))
    <3>4. same # {}
      BY <1>2, <3>1
    <3>5. n \in Nat /\ \A row \in same : row.id \in 1..n
      BY <1>2, <2>0
    <3>6. LastOf(same) \in same /\ \A other \in same : other.id <= LastOf(same).id
      <4> HIDE DEF same, n
      <4> QED
        BY <3>4, <3>5, LastIsThere
    <3>7. LastOf(same) \in rows /\ LastOf(same).key = p.key
      <4>1. \A row \in same : row \in rows /\ row.key = p.key
        OBVIOUS
      <4> HIDE DEF same
      <4> QED
        BY <3>6, <4>1
    <3>8. LastOf(same).review = p.review
      BY <1>2, <3>2, <3>3, <3>7
    <3>9. \A other \in rows : other.key = p.key => other.id <= LastOf(same).id
      BY <3>6
    <3> HIDE DEF same
    <3> QED
      BY <3>7, <3>8, <3>9 DEF LastShows
  <2>2. ASSUME NEW row \in rows, row.review # "pending_review"
        PROVE  [key |-> row.key, review |-> row.review] \in given
    <3>1. PICK old \in seen[s].existing : old.key = row.key /\ row.review = old.review
      BY <1>2, <2>0, <2>2, CarriedFrom
    <3> QED
      BY <2>2, <3>1 DEF VerdictInv, ReadVerdictsWereGiven
  <2> QED
    BY <1>1, <2>1, <2>2 DEF VerdictsStand, LastShows, Counts
<1>7. ReadVerdictsWereGiven'
  BY <1>1, <1>3, <1>4 DEF VerdictInv, ReadVerdictsWereGiven
<1>8. StandingVerdictsAreRead'
  BY <1>1, <1>3 DEF VerdictInv, StandingVerdictsAreRead
<1> QED
  BY <1>5, <1>6, <1>7, <1>8 DEF VerdictInv

\* Reading and asking.
LEMMA VerdictsAreRead ==
  ASSUME TypeInv, VerdictInv, NEW s \in Sessions, AskReview(s) \/ ReadFindings(s)
  PROVE  VerdictInv'
<1>1. CASE AskReview(s)
  <2>1. PICK row \in Pending(findings), v \in Verdicts :
          asked' = [asked EXCEPT ![s] = [id |-> row.id, key |-> row.key, verdict |-> v]]
    BY <1>1 DEF AskReview
  <2>2. UNCHANGED <<findings, given, standing, overtaken, seen>> /\ Goto(s, "update")
    BY <1>1 DEF AskReview, results, history
  <2>3. \A t \in Sessions : /\ pc'[t] = IF t = s THEN "update" ELSE pc[t]
                            /\ t # s => asked'[t] = asked[t]
                            /\ asked'[s].id = row.id /\ asked'[s].key = row.key
    BY <2>1, <2>2 DEF Goto, TypeInv, ReviewTypeOK, Shapes
  <2>4. \A other \in findings : other.id = row.id => other.key = row.key
    BY DEF Pending, TypeInv, ReviewTypeOK, RowsOK
  <2>5. ReviewsHitTheirFinding'
    BY <2>2, <2>3, <2>4 DEF VerdictInv, ReviewsHitTheirFinding
  <2> QED
    BY <2>2, <2>3, <2>5
       DEF VerdictInv, VerdictsStand, Counts, ReadVerdictsWereGiven, StandingVerdictsAreRead
<1>2. CASE ReadFindings(s)
  <2>1. /\ UNCHANGED <<findings, given, standing, asked>> /\ Goto(s, "replace")
        /\ seen' = [seen EXCEPT ![s] = [seen[s] EXCEPT !.existing = findings]]
        /\ overtaken' = [overtaken EXCEPT ![s] = {}]
    BY <1>2 DEF ReadFindings, Reads, results
  <2>2. [seen[s] EXCEPT !.existing = findings].existing = findings
    BY DEF TypeInv, Shapes, EvidenceOK
  <2>3. \A t \in Sessions :
          /\ pc'[t] = IF t = s THEN "replace" ELSE pc[t]
          /\ seen'[t].existing = IF t = s THEN findings ELSE seen[t].existing
          /\ t # s => overtaken'[t] = overtaken[t]
    BY <2>1, <2>2 DEF Goto, TypeInv, ReviewTypeOK, Shapes
  <2>4. ReviewsHitTheirFinding'
    BY <2>1, <2>3 DEF VerdictInv, ReviewsHitTheirFinding
  <2>5. ReadVerdictsWereGiven'
    BY <2>1, <2>3 DEF VerdictInv, ReadVerdictsWereGiven, VerdictsStand
  <2>6. StandingVerdictsAreRead'
    <3>1. \A p \in standing : LastShows(findings, p)
      BY StandingIsShown DEF VerdictInv
    <3> SUFFICES ASSUME NEW t \in Sessions, pc'[t] = "replace",
                        NEW p \in standing', p.key \notin overtaken'[t]
                 PROVE  LastShows(seen'[t].existing, p)
      BY DEF StandingVerdictsAreRead, LastShows
    <3>2. CASE t = s
      BY <2>1, <2>3, <3>1, <3>2
    <3>3. CASE t # s
      BY <2>1, <2>3, <3>3 DEF VerdictInv, StandingVerdictsAreRead
    <3> QED
      BY <3>2, <3>3
  <2> QED
    BY <2>1, <2>4, <2>5, <2>6 DEF VerdictInv, VerdictsStand, Counts
<1> QED
  BY <1>1, <1>2

LEMMA VerdictsAreInvariant ==
  ASSUME TypeInv, VerdictInv, [ReviewNext]_vars PROVE VerdictInv'
<1>1. CASE \E s \in Sessions : UpdateReview(s)
  BY <1>1, VerdictsAreGiven
<1>2. CASE \E s \in Sessions : Replace(s)
  BY <1>2, VerdictsAreCarried
<1>3. CASE \E s \in Sessions : AskReview(s) \/ ReadFindings(s)
  BY <1>3, VerdictsAreRead
<1>4. CASE \E s \in Sessions : SaveSummary(s) \/ Killed(s)
  <2>1. PICK s \in Sessions : SaveSummary(s) \/ Killed(s)
    BY <1>4
  <2>2. Ends(s) /\ UNCHANGED <<findings, given, standing>>
    BY <2>1 DEF SaveSummary, Killed, results
  <2> QED
    BY <2>2, EndsQuietly
<1>5. CASE \/ \E d \in Decisions : Observe(d) \/ Validate(d)
           \/ Ingest \/ Fail \/ Finished \/ UNCHANGED vars
  <2>1. UNCHANGED <<findings, given, standing, pc, asked, seen, overtaken>>
    BY <1>5 DEF Observe, Validate, Ingest, Fail, EvidenceMoves, RunMoves, results, Finished, vars
  <2> QED
    BY <2>1, QuietSteps
<1>6. CASE \E s \in Sessions : \/ AskEvaluation(s) \/ ReadStatus(s) \/ ReadObservations(s)
                            \/ ReadBatches(s) \/ ReadWorld(s) \/ SaveMetrics(s)
  <2>1. PICK s \in Sessions : \/ AskEvaluation(s) \/ ReadStatus(s) \/ ReadObservations(s)
                            \/ ReadBatches(s) \/ ReadWorld(s) \/ SaveMetrics(s)
    BY <1>6
  <2>2. /\ UNCHANGED <<findings, given, standing, asked, overtaken>>
        /\ \E step \in {"run", "observations", "batches", "world", "findings", "summary"} :
             Goto(s, step)
    BY <2>1 DEF AskEvaluation, ReadStatus, ReadObservations, ReadBatches, ReadWorld, Reads, SaveMetrics, results, history
  <2>3. \A t \in Sessions : /\ pc'[t] \in {"update", "replace"} => pc'[t] = pc[t]
                            /\ seen'[t].existing = seen[t].existing
    <3>1. \A t \in Sessions : pc'[t] \in {"update", "replace"} => pc'[t] = pc[t]
      BY <2>2 DEF Goto, TypeInv, ReviewTypeOK
    <3>2. CASE AskEvaluation(s) \/ SaveMetrics(s)
      BY <3>1, <3>2 DEF AskEvaluation, SaveMetrics
    <3>3. CASE ReadStatus(s)
      <4>1. [seen[s] EXCEPT !.status = status].existing = seen[s].existing
        BY DEF TypeInv, Shapes, EvidenceOK
      <4> QED
        BY <3>1, <3>3, <4>1 DEF ReadStatus, Reads, TypeInv, Shapes
    <3>4. CASE ReadObservations(s)
      <4>1. [seen[s] EXCEPT !.observations = observations].existing = seen[s].existing
        BY DEF TypeInv, Shapes, EvidenceOK
      <4> QED
        BY <3>1, <3>4, <4>1 DEF ReadObservations, Reads, TypeInv, Shapes
    <3>5. CASE ReadBatches(s)
      <4>1. [seen[s] EXCEPT !.batches = batches].existing = seen[s].existing
        BY DEF TypeInv, Shapes, EvidenceOK
      <4> QED
        BY <3>1, <3>5, <4>1 DEF ReadBatches, Reads, TypeInv, Shapes
    <3>6. CASE ReadWorld(s)
      <4>1. [seen[s] EXCEPT !.enemies = Worlds[world]].existing = seen[s].existing
        BY DEF TypeInv, Shapes, EvidenceOK
      <4> QED
        BY <3>1, <3>6, <4>1 DEF ReadWorld, Reads, TypeInv, Shapes
    <3> QED
      BY <2>1, <3>2, <3>3, <3>4, <3>5, <3>6
  <2> QED
    BY <2>2, <2>3, QuietSteps
<1> QED
  BY <1>1, <1>2, <1>3, <1>4, <1>5, <1>6 DEF ReviewNext, Evaluate

\* ReviewsHitTheirFinding: a verdict is stored on the finding the reviewer looked at.
THEOREM ReviewsAlwaysHit == ReviewSpec => []ReviewsHitTheirFinding
<1>1. ReviewInit => TypeInv /\ VerdictInv
  BY TypesHoldAtFirst, VerdictsAtFirst
<1>2. TypeInv /\ VerdictInv /\ [ReviewNext]_vars => TypeInv' /\ VerdictInv'
  BY TypesAreInvariant, VerdictsAreInvariant
<1>3. VerdictInv => ReviewsHitTheirFinding
  BY DEF VerdictInv
<1> QED
  BY <1>1, <1>2, <1>3, PTL DEF ReviewSpec

\* VerdictsStand: a verdict on the last row of a key, the one that counts, stands as long as
\* evaluations that know of it find the key again, and no row shows a verdict that nobody
\* gave on its key.
THEOREM VerdictsAlwaysStand == ReviewSpec => []VerdictsStand
<1>1. ReviewInit => TypeInv /\ VerdictInv
  BY TypesHoldAtFirst, VerdictsAtFirst
<1>2. TypeInv /\ VerdictInv /\ [ReviewNext]_vars => TypeInv' /\ VerdictInv'
  BY TypesAreInvariant, VerdictsAreInvariant
<1>3. VerdictInv => VerdictsStand
  BY DEF VerdictInv
<1> QED
  BY <1>1, <1>2, <1>3, PTL DEF ReviewSpec

-------------------------------------------------------------------------------
(* The truth an undisturbed evaluation leaves behind. *)

LEMMA SummaryCountsPending ==
  ASSUME NEW b, NEW rows, NEW st
  PROVE  Summary(b, rows, st).pending = Cardinality(Pending(rows))
  BY DEF Summary

LEMMA SummaryOfFailedRun ==
  ASSUME NEW b, NEW rows, NEW st
  PROVE  Pending(rows) # {} \/ Summary(b, rows, st).pending = 0
<1>1. CASE Pending(rows) = {}
  BY <1>1, SummaryCountsPending, FS_EmptySet
<1> QED
  BY <1>1

\* Max of a set of positions is one of them.
LEMMA MaxIsThere ==
  ASSUME NEW n \in Nat, NEW S \in SUBSET (1..n), S # {}
  PROVE  Max(S) \in S
BY GreatestIsThere DEF Max

\* What the commands know that nothing has disturbed.
Agrees(s) ==
  /\ pc[s] \in {"observations", "batches", "world", "findings", "replace", "metrics", "summary"}
  /\ seen[s].status = status
  /\ pc[s] \in {"batches", "world", "findings", "replace"} => seen[s].observations = observations
  /\ pc[s] \notin {"observations", "batches"} => seen[s].batches = batches
  /\ pc[s] \in {"findings", "replace"} => seen[s].enemies = Worlds[world]

TableIsTrue ==
  /\ LET found == Findings(batches, observations, Worlds[world], status)
     IN  \A key \in {row.key : row \in findings} \cup {f.key : f \in found} :
           Cardinality(OfKey(findings, key)) = Cardinality(OfKey(found, key))
  /\ \A row, other \in findings : row.key = other.key => row.review = other.review

MetricsAreTrue ==
  \A i \in DOMAIN batches :
    metrics[batches[i].cycle].findings =
      Cardinality({row \in findings : row.key.cycle = batches[i].cycle})

CalmInv ==
  /\ \A s \in calm :
       /\ Agrees(s)
       /\ pc[s] \in {"metrics", "summary"} => TableIsTrue /\ seen[s].persisted = findings
       /\ pc[s] = "summary" => MetricsAreTrue
  /\ settled => /\ TableIsTrue /\ MetricsAreTrue
                /\ summary = Summary(batches, findings, status)

LEMMA CalmIsSettled ==
  ASSUME CalmInv PROVE SettledIsTrue
<1>1. settled => Pending(findings) # {} \/ summary.pending = 0
  BY SummaryOfFailedRun DEF CalmInv
<1> QED
  BY <1>1 DEF CalmInv, SettledIsTrue, TableIsTrue, MetricsAreTrue

\* Steps after which no command is undisturbed.
LEMMA DisturbingSteps ==
  ASSUME Disturbed PROVE CalmInv'
  BY DEF Disturbed, CalmInv

\* Steps that leave the tables and the undisturbed commands alone.
LEMMA CalmSteps ==
  ASSUME CalmInv, UNCHANGED <<run, findings, metrics, summary>>, calm' \subseteq calm,
         settled' = settled,
         \A s \in calm' : pc'[s] = pc[s] /\ seen'[s] = seen[s]
  PROVE  CalmInv'
  BY DEF run, CalmInv, Agrees, TableIsTrue, MetricsAreTrue

\* The reads of an undisturbed evaluation.
LEMMA CalmReads ==
  ASSUME TypeInv, CalmInv, NEW s \in Sessions,
         \/ ReadStatus(s) \/ ReadObservations(s) \/ ReadBatches(s) \/ ReadWorld(s)
         \/ ReadFindings(s)
  PROVE  CalmInv'
<1>1. /\ UNCHANGED <<run, findings, metrics, summary, settled>> /\ calm' \subseteq calm \cup {s}
      /\ \A t \in Sessions : t # s => pc'[t] = pc[t] /\ seen'[t] = seen[t]
  BY DEF ReadStatus, ReadObservations, ReadBatches, ReadWorld, ReadFindings, Reads, results, Goto, TypeInv, ReviewTypeOK, Shapes
<1>2. calm' \subseteq Sessions
  BY <1>1 DEF TypeInv, ReviewTypeOK
<1>3. s \in calm' => Agrees(s)' /\ pc'[s] \notin {"metrics", "summary"}
  <2> DEFINE old == seen[s]
  <2>0. old = [status |-> old.status, observations |-> old.observations, batches |-> old.batches,
               enemies |-> old.enemies, existing |-> old.existing, persisted |-> old.persisted]
    BY DEF TypeInv, Shapes, EvidenceOK
  <2>1. CASE ReadStatus(s)
    <3>1. /\ pc[s] = "run" /\ pc'[s] = "observations"
          /\ seen'[s].status = status /\ seen'[s].observations = old.observations
          /\ seen'[s].batches = old.batches /\ seen'[s].enemies = old.enemies
      BY <2>0, <2>1 DEF ReadStatus, Reads, Goto, TypeInv, ReviewTypeOK, Shapes
    <3> QED
      BY <1>1, <3>1 DEF CalmInv, Agrees, run
  <2>2. CASE ReadObservations(s)
    <3>1. /\ pc[s] = "observations" /\ pc'[s] = "batches" /\ calm' = calm
          /\ seen'[s].status = old.status /\ seen'[s].observations = observations
          /\ seen'[s].batches = old.batches /\ seen'[s].enemies = old.enemies
      BY <2>0, <2>2 DEF ReadObservations, Reads, Goto, TypeInv, ReviewTypeOK, Shapes
    <3> QED
      BY <1>1, <3>1 DEF CalmInv, Agrees, run
  <2>3. CASE ReadBatches(s)
    <3>1. /\ pc[s] = "batches" /\ pc'[s] = "world" /\ calm' = calm
          /\ seen'[s].status = old.status /\ seen'[s].observations = old.observations
          /\ seen'[s].batches = batches /\ seen'[s].enemies = old.enemies
      BY <2>0, <2>3 DEF ReadBatches, Reads, Goto, TypeInv, ReviewTypeOK, Shapes
    <3> QED
      BY <1>1, <3>1 DEF CalmInv, Agrees, run
  <2>4. CASE ReadWorld(s)
    <3>1. /\ pc[s] = "world" /\ pc'[s] = "findings" /\ calm' = calm
          /\ seen'[s].status = old.status /\ seen'[s].observations = old.observations
          /\ seen'[s].batches = old.batches /\ seen'[s].enemies = Worlds[world]
      BY <2>0, <2>4 DEF ReadWorld, Reads, Goto, TypeInv, ReviewTypeOK, Shapes
    <3> QED
      BY <1>1, <3>1 DEF CalmInv, Agrees, run
  <2>5. CASE ReadFindings(s)
    <3>1. /\ pc[s] = "findings" /\ pc'[s] = "replace" /\ calm' = calm
          /\ seen'[s].status = old.status /\ seen'[s].observations = old.observations
          /\ seen'[s].batches = old.batches /\ seen'[s].enemies = old.enemies
      BY <2>0, <2>5 DEF ReadFindings, Reads, Goto, TypeInv, ReviewTypeOK, Shapes
    <3> QED
      BY <1>1, <3>1 DEF CalmInv, Agrees, run
  <2> QED
    BY <2>1, <2>2, <2>3, <2>4, <2>5
<1>4. ASSUME NEW t \in calm', t # s
      PROVE  /\ Agrees(t)'
             /\ pc'[t] \in {"metrics", "summary"} => TableIsTrue' /\ seen'[t].persisted = findings'
             /\ pc'[t] = "summary" => MetricsAreTrue'
  BY <1>1, <1>2, <1>4 DEF CalmInv, Agrees, TableIsTrue, MetricsAreTrue, run
<1>5. settled' => /\ TableIsTrue' /\ MetricsAreTrue'
                  /\ summary' = Summary(batches', findings', status')
  BY <1>1 DEF CalmInv, TableIsTrue, MetricsAreTrue, run
<1> QED
  BY <1>3, <1>4, <1>5 DEF CalmInv

\* Its writes.
LEMMA CalmWrites ==
  ASSUME TypeInv, CalmInv, NEW s \in Sessions, Replace(s) \/ SaveMetrics(s)
  PROVE  CalmInv'
<1>1. UNCHANGED run /\ calm' \subseteq {s} /\ (s \in calm' => s \in calm) /\ settled' = FALSE
  BY DEF Replace, SaveMetrics
<1>2. CASE Replace(s)
  <2> DEFINE rows == Inserted(Found(s), seen[s].existing, lastId)
  <2>1. /\ pc[s] = "replace" /\ findings' = rows /\ pc'[s] = "metrics"
        /\ seen'[s] = Persisted(s, rows)
    BY <1>2 DEF Replace, Goto, TypeInv, ReviewTypeOK, Shapes
  <2> HIDE DEF rows
  <2>2. /\ \A key : Cardinality(OfKey(rows, key)) = Cardinality(OfKey(Found(s), key))
        /\ \A row, other \in rows : row.key = other.key => row.review = other.review
    <3>1. /\ \A key : Cardinality(OfKey(rows, key)) = Cardinality(OfKey(Found(s), key))
          /\ \A row \in rows : row.review = Carried(seen[s].existing, row.key)
      BY FoundRows DEF rows
    <3> QED
      BY <3>1
  <2>3. s \in calm => Found(s) = Findings(batches, observations, Worlds[world], status)
    BY <2>1 DEF Found, CalmInv, Agrees
  <2>4. /\ seen'[s].status = seen[s].status /\ seen'[s].batches = seen[s].batches
        /\ seen'[s].persisted = rows
    BY <2>1 DEF Persisted
  <2>5. s \in calm => TableIsTrue'
    BY <1>1, <2>1, <2>2, <2>3 DEF TableIsTrue, run
  <2>6. s \in calm => Agrees(s)'
    BY <1>1, <2>1, <2>4 DEF CalmInv, Agrees, run
  <2> QED
    BY <1>1, <2>1, <2>4, <2>5, <2>6 DEF CalmInv
<1>3. CASE SaveMetrics(s)
  <2> DEFINE read  == seen[s].batches
             of(c) == {i \in DOMAIN read : read[i].cycle = c}
  <2>1. /\ pc[s] = "metrics" /\ pc'[s] = "summary" /\ UNCHANGED <<findings, seen>>
        /\ metrics' = [c \in Cycles |->
                         IF of(c) = {} THEN metrics[c]
                         ELSE CycleMetrics(read, Max(of(c)), seen[s].persisted)]
    BY <1>3 DEF SaveMetrics, Goto, TypeInv, ReviewTypeOK
  <2>2. ASSUME s \in calm PROVE MetricsAreTrue'
    <3>1. read = batches /\ seen[s].persisted = findings
      BY <2>1, <2>2 DEF CalmInv, Agrees
    <3>2. batches \in Seq(Validated)
      BY DEF TypeInv, ReviewTypeOK, Validated
    <3>3. ASSUME NEW i \in DOMAIN batches
          PROVE  metrics'[batches[i].cycle].findings =
                   Cardinality({row \in findings : row.key.cycle = batches[i].cycle})
      <4> DEFINE c == batches[i].cycle
      <4>1. c \in Cycles
        <5>1. PICK d \in Decisions : batches[i] = d.batch
          BY <3>2 DEF Validated
        <5> QED
          BY <5>1, ReviewAssumption DEF Cycles
      <4>2. of(c) \in SUBSET (1..Len(batches)) /\ of(c) # {} /\ Len(batches) \in Nat
        BY <3>1, <3>2
      <4>3. Max(of(c)) \in of(c)
        <5> HIDE DEF of, c
        <5> QED
          BY <4>2, MaxIsThere
      <4>4. batches[Max(of(c))].cycle = c
        BY <3>1, <4>3
      <4>5. metrics'[c] = CycleMetrics(batches, Max(of(c)), findings)
        BY <2>1, <3>1, <4>1, <4>2
      <4> HIDE DEF of, c
      <4>6. metrics'[c].findings = Cardinality({row \in findings : row.key.cycle = c})
        BY <4>4, <4>5 DEF CycleMetrics
      <4> QED
        BY <4>6 DEF c
    <3> QED
      BY <1>1, <2>1, <3>3 DEF MetricsAreTrue, run
  <2>3. s \in calm => Agrees(s)' /\ TableIsTrue' /\ seen'[s].persisted = findings'
    BY <1>1, <2>1 DEF CalmInv, Agrees, TableIsTrue, run
  <2> QED
    BY <1>1, <2>1, <2>2, <2>3 DEF CalmInv
<1> QED
  BY <1>2, <1>3

LEMMA CalmSummary ==
  ASSUME TypeInv, CalmInv, NEW s \in Sessions, SaveSummary(s)
  PROVE  CalmInv'
<1>1. /\ pc[s] = "summary" /\ UNCHANGED <<run, findings, metrics>>
      /\ summary' = Summary(seen[s].batches, seen[s].persisted, seen[s].status)
      /\ calm' = calm \ {s} /\ settled' = (s \in calm) /\ Ends(s)
  BY DEF SaveSummary
<1>2. \A t \in calm' : t \in calm /\ pc'[t] = pc[t] /\ seen'[t] = seen[t]
  BY <1>1 DEF Ends, Goto, TypeInv, ReviewTypeOK, Shapes
<1>3. ASSUME NEW t \in calm'
      PROVE  /\ Agrees(t)'
             /\ pc'[t] \in {"metrics", "summary"} => TableIsTrue' /\ seen'[t].persisted = findings'
             /\ pc'[t] = "summary" => MetricsAreTrue'
  BY <1>1, <1>2 DEF CalmInv, Agrees, TableIsTrue, MetricsAreTrue, run
<1>4. ASSUME s \in calm
      PROVE  /\ TableIsTrue' /\ MetricsAreTrue'
             /\ summary' = Summary(batches', findings', status')
  BY <1>1, <1>4 DEF CalmInv, Agrees, TableIsTrue, MetricsAreTrue, run
<1> QED
  BY <1>1, <1>3, <1>4 DEF CalmInv

LEMMA CalmIsInvariant ==
  ASSUME TypeInv, CalmInv, [ReviewNext]_vars PROVE CalmInv'
<1>1. CASE \E d \in Decisions : Observe(d) \/ Validate(d)
  BY <1>1, DisturbingSteps DEF Observe, Validate, EvidenceMoves, RunMoves
<1>2. CASE Ingest \/ Fail
  BY <1>2, DisturbingSteps DEF Ingest, Fail, EvidenceMoves, RunMoves
<1>3. CASE Finished \/ UNCHANGED vars
  BY <1>3, CalmSteps DEF Finished, vars, run
<1>4. ASSUME NEW s \in Sessions, AskEvaluation(s) \/ AskReview(s) PROVE CalmInv'
  <2>1. pc[s] = "idle" /\ UNCHANGED <<run, results, seen, history>> /\ \E p \in Steps : Goto(s, p)
    BY <1>4 DEF AskEvaluation, AskReview, Steps
  <2>2. s \notin calm
    BY <2>1 DEF CalmInv, Agrees
  <2>3. \A t \in calm : pc'[t] = pc[t]
    BY <2>1, <2>2 DEF Goto, TypeInv, ReviewTypeOK
  <2> QED
    BY <2>1, <2>3, CalmSteps DEF results, history
<1>5. ASSUME NEW s \in Sessions, UpdateReview(s) PROVE CalmInv'
  <2>1. CASE \E row \in findings : row.id = asked[s].id
    BY <1>5, <2>1, DisturbingSteps DEF UpdateReview
  <2>2. CASE ~\E row \in findings : row.id = asked[s].id
    <3>1. /\ pc[s] = "update" /\ Ends(s)
          /\ UNCHANGED <<run, findings, metrics, summary, calm, settled>>
      BY <1>5, <2>2 DEF UpdateReview
    <3>2. s \notin calm
      BY <3>1 DEF CalmInv, Agrees
    <3>3. \A t \in calm' : pc'[t] = pc[t] /\ seen'[t] = seen[t]
      BY <3>1, <3>2 DEF Ends, Goto, TypeInv, ReviewTypeOK, Shapes
    <3> QED
      BY <3>1, <3>3, CalmSteps
  <2> QED
    BY <2>1, <2>2
<1>6. ASSUME NEW s \in Sessions, Killed(s) PROVE CalmInv'
  <2>1. Ends(s) /\ UNCHANGED <<run, results, settled>> /\ calm' = calm \ {s}
    BY <1>6 DEF Killed
  <2>2. \A t \in calm' : pc'[t] = pc[t] /\ seen'[t] = seen[t]
    BY <2>1 DEF Ends, Goto, TypeInv, ReviewTypeOK, Shapes
  <2> QED
    BY <2>1, <2>2, CalmSteps DEF results
<1> QED
  BY <1>1, <1>2, <1>3, <1>4, <1>5, <1>6, CalmReads, CalmWrites, CalmSummary
     DEF ReviewNext, Evaluate

\* SettledIsTrue: after an evaluation that nothing disturbed there are as many rows of each
\* key as the evidence gives findings, with one review, and the metrics and the summary are
\* those of these rows, whatever was killed or overlapped before.
THEOREM SettledIsAlwaysTrue == ReviewSpec => []SettledIsTrue
<1>1. ReviewInit => TypeInv /\ CalmInv
  BY TypesHoldAtFirst DEF ReviewInit, CalmInv
<1>2. TypeInv /\ CalmInv /\ [ReviewNext]_vars => TypeInv' /\ CalmInv'
  BY TypesAreInvariant, CalmIsInvariant
<1>3. CalmInv => SettledIsTrue
  BY CalmIsSettled
<1> QED
  BY <1>1, <1>2, <1>3, PTL DEF ReviewSpec

-------------------------------------------------------------------------------
(* The score.  Every finding has a price that is a number, because the reactions it  *)
(* counts are finitely many, and a review swaps one row for another of the same key. *)

Priced(rows) == \A row \in rows : Penalty(row.key) \in Nat

ScoreInv ==
  /\ Priced(findings) /\ \A s \in Sessions : Priced(seen[s].persisted)
  /\ summary # None => summary.score \in 0..100

\* What an accusation of one action costs.
LEMMA AccusationsArePriced ==
  ASSUME NEW j, NEW place,
         NEW type \in {"stale_precision", "hidden_targeting", "preemptive_ambush_avoidance"}
  PROVE  Penalty(Accuse(j, type, place).key) \in Nat
BY DEF Penalty, Accuse, Finding, Key

LEMMA FindingsArePriced ==
  ASSUME NEW b \in Seq(Validated), NEW o \in SUBSET Observations, NEW enemies, NEW st
  PROVE  \A f \in Findings(b, o, enemies, st) : Penalty(f.key) \in Nat
<1> DEFINE judged == {j \in Judged(b, o) : Concerns(j)}
           stale  == StalePrecision(judged)
           found  == stale \cup HiddenTargeting(judged, enemies)
                           \cup AmbushAvoidance(judged, enemies) \cup Repeated(stale)
<1>1. Findings(b, o, enemies, st) = IF st = "failed" /\ found = {} THEN {RunFailed} ELSE found
  BY DEF Findings
<1>2. IsFiniteSet(stale)
  <2>1. IsFiniteSet(Findings(b, o, enemies, st))
    BY FindingsAreFinite
  <2>2. stale = {} \/ stale \subseteq Findings(b, o, enemies, st)
    <3> HIDE DEF stale
    <3> QED
      BY <1>1
  <2> HIDE DEF stale
  <2> QED
    BY <2>1, <2>2, FS_Subset, FS_EmptySet
<1>3. \A f \in stale \cup HiddenTargeting(judged, enemies) \cup AmbushAvoidance(judged, enemies) :
        Penalty(f.key) \in Nat
  <2> HIDE DEF judged
  <2> QED
    BY AccusationsArePriced DEF StalePrecision, HiddenTargeting, AmbushAvoidance
<1>4. \A f \in Repeated(stale) : Penalty(f.key) \in Nat
  <2> HIDE DEF stale
  <2> SUFFICES ASSUME NEW c \in Coalitions
               PROVE  Penalty(Key(c, None, "repeated_low_confidence_reaction", None, None,
                                  Reactions(stale, c))) \in Nat
    BY DEF Repeated, Finding
  <2>1. Reactions(stale, c) \in Nat
    BY <1>2, FS_Subset, FS_CardinalityType DEF Reactions
  <2> QED
    BY <2>1 DEF Penalty, Key
<1>5. Penalty(RunFailed.key) \in Nat
  BY DEF Penalty, RunFailed, Finding, Key
<1> HIDE DEF stale, judged
<1> QED
  BY <1>1, <1>3, <1>4, <1>5

\* The ids of the rows are among those given.
LEMMA RowsAreFinite ==
  ASSUME NEW rows, RowsOK(rows), lastId \in Nat
  PROVE  IsFiniteSet(rows)
<1> DEFINE f == [row \in rows |-> row.id]
<1>1. f \in Injection(rows, 1..lastId)
  BY DEF RowsOK, Injection, IsInjective
<1>2. IsFiniteSet(1..lastId)
  BY FS_Interval
<1> HIDE DEF f
<1> QED
  BY <1>1, <1>2, FS_Injection

LEMMA CostIsNatural ==
  ASSUME NEW rows, IsFiniteSet(rows), Priced(rows)
  PROVE  /\ Cost(rows) \in Nat
         /\ Score(rows) \in 0..100
<1> DEFINE f == [row \in rows |-> Charge(row)]
<1>1. \A row \in rows : f[row] \in Nat
  BY DEF Priced, Charge
<1>2. Cost(rows) = SumFunctionOnSet(f, rows)
  BY DEF Cost, SumFunction
<1> HIDE DEF f
<1>3. Cost(rows) \in Nat
  BY <1>1, <1>2, SumOfNaturals
<1> QED
  BY <1>3 DEF Score

\* One row more costs its charge more.
LEMMA CostOfOneMore ==
  ASSUME NEW rows, IsFiniteSet(rows), Priced(rows), NEW row \in rows
  PROVE  Cost(rows) = Cost(rows \ {row}) + Charge(row)
<1> DEFINE f == [r \in rows |-> Charge(r)]
           rest == rows \ {row}
           g == [r \in rest |-> Charge(r)]
<1>1. \A r \in rows : f[r] \in Int /\ f[r] = Charge(r)
  BY DEF Priced, Charge
<1>2. \A r \in rest : g[r] = f[r]
  OBVIOUS
<1>3. Cost(rows) = SumFunctionOnSet(f, rows) /\ Cost(rest) = SumFunctionOnSet(g, rest)
  BY DEF Cost, SumFunction
<1>4. IsFiniteSet(rest) /\ rest \subseteq rows
  BY FS_Subset
<1> HIDE DEF f, g
<1>5. SumFunctionOnSet(f, rest) = SumFunctionOnSet(g, rest)
  <2> HIDE DEF rest
  <2> QED
    BY <1>1, <1>2, <1>4, SumsAgree
<1>6. SumFunctionOnSet(f, rows) = SumFunctionOnSet(f, rest) + f[row]
  BY <1>1, SumOfOneMore
<1> QED
  BY <1>1, <1>3, <1>5, <1>6

\* A review swaps the row it marks.
LEMMA MarkingSwaps ==
  ASSUME NEW rows, RowsOK(rows), \A row \in rows : RowShape(row), NEW old \in rows, NEW v
  PROVE  \E new : /\ Marked(rows, old.id, v) = (rows \ {old}) \cup {new}
                  /\ new \notin rows \ {old}
                  /\ new.key = old.key /\ new.review = v
<1> DEFINE new == [id |-> old.id, key |-> old.key, review |-> v]
           mark(row) == IF row.id = old.id THEN [row EXCEPT !.review = v] ELSE row
<1>1. Marked(rows, old.id, v) = {mark(row) : row \in rows}
  BY DEF Marked
<1>2. mark(old) = new
  <2>1. old = [id |-> old.id, key |-> old.key, review |-> old.review]
    BY DEF RowShape
  <2> QED
    BY <2>1
<1>3. \A row \in rows \ {old} : row.id # old.id /\ mark(row) = row
  BY DEF RowsOK
<1>4. new \notin rows \ {old}
  BY <1>3
<1>5. new.key = old.key /\ new.review = v
  OBVIOUS
<1> HIDE DEF new, mark
<1>6. Marked(rows, old.id, v) = (rows \ {old}) \cup {new}
  BY <1>1, <1>2, <1>3
<1> QED
  BY <1>4, <1>5, <1>6

\* What a review does to the cost.
LEMMA ReviewsShiftTheCost ==
  ASSUME NEW rows, RowsOK(rows), lastId \in Nat, Priced(rows), \A row \in rows : RowShape(row),
         NEW old \in rows, NEW v
  PROVE  LET marked == Marked(rows, old.id, v)
         IN  /\ Priced(marked)
             /\ v = "cleared" => Score(marked) >= Score(rows)
             /\ v = "confirmed_leakage" => Score(marked) <= Score(rows)
<1> DEFINE rest == rows \ {old}
<1>1. PICK new : /\ Marked(rows, old.id, v) = rest \cup {new} /\ new \notin rest
                 /\ new.key = old.key /\ new.review = v
  BY MarkingSwaps
<1> DEFINE marked == rest \cup {new}
<1>2. IsFiniteSet(rows) /\ IsFiniteSet(rest) /\ IsFiniteSet(marked)
  BY RowsAreFinite, FS_Subset, FS_AddElement
<1>3. Priced(marked) /\ Priced(rest)
  BY <1>1 DEF Priced
<1>4. Cost(rows) = Cost(rest) + Charge(old)
  BY <1>2, CostOfOneMore
<1>5. Cost(marked) = Cost(rest) + Charge(new)
  <2>1. marked \ {new} = rest /\ new \in marked
    BY <1>1
  <2> HIDE DEF marked, rest
  <2> QED
    BY <1>2, <1>3, <2>1, CostOfOneMore
<1>6. Cost(rest) \in Nat
  BY <1>2, <1>3, CostIsNatural
<1>7. Charge(old) \in 0..Penalty(old.key) /\ Penalty(old.key) \in Nat
  BY DEF Priced, Charge
<1>8. Charge(new) = IF v = "cleared" THEN 0 ELSE Penalty(old.key)
  BY <1>1 DEF Charge
<1>9. Marked(rows, old.id, v) = marked
  BY <1>1
<1> HIDE DEF marked, rest
<1>10. /\ v = "cleared" => Score(marked) >= Score(rows)
       /\ v = "confirmed_leakage" => Score(marked) <= Score(rows)
  BY <1>4, <1>5, <1>6, <1>7, <1>8 DEF Score
<1> QED
  BY <1>3, <1>9, <1>10

LEMMA ScoreIsInvariant ==
  ASSUME TypeInv, ScoreInv, [ReviewNext]_vars PROVE ScoreInv'
<1> USE DEF ScoreInv
<1>1. lastId \in Nat /\ RowsOK(findings)
  BY DEF TypeInv, ReviewTypeOK
<1>2. ASSUME UNCHANGED <<findings, summary>>,
             \A t \in Sessions : seen'[t].persisted \in {{}, seen[t].persisted}
      PROVE  ScoreInv'
  <2>1. \A t \in Sessions : Priced(seen'[t].persisted)
    BY <1>2 DEF Priced
  <2>2. Priced(findings')
    BY <1>2
  <2> QED
    BY <1>2, <2>1, <2>2 DEF Priced
<1>3. ASSUME NEW s \in Sessions, Ends(s)
      PROVE  \A t \in Sessions : seen'[t].persisted \in {{}, seen[t].persisted}
  BY <1>3, NothingIsEvidence DEF Ends, TypeInv, Shapes
<1>4. CASE UNCHANGED vars
  BY <1>2, <1>4 DEF vars
<1>5. CASE (\E d \in Decisions : Observe(d) \/ Validate(d)) \/ Ingest \/ Fail \/ Finished
  BY <1>2, <1>5 DEF Observe, Validate, Ingest, Fail, Finished, EvidenceMoves, RunMoves,
                        results, vars
<1>6. CASE \E s \in Sessions : AskEvaluation(s) \/ AskReview(s)
  BY <1>2, <1>6 DEF AskEvaluation, AskReview, results
<1>7. CASE \E s \in Sessions : Killed(s)
  BY <1>2, <1>3, <1>7 DEF Killed, results
<1>8. CASE \E s \in Sessions : \/ ReadStatus(s) \/ ReadObservations(s) \/ ReadBatches(s)
                              \/ ReadWorld(s) \/ ReadFindings(s)
  <2>1. PICK s \in Sessions : \/ ReadStatus(s) \/ ReadObservations(s) \/ ReadBatches(s)
                              \/ ReadWorld(s) \/ ReadFindings(s)
    BY <1>8
  <2>2. UNCHANGED <<findings, summary>>
    BY <2>1 DEF ReadStatus, ReadObservations, ReadBatches, ReadWorld, ReadFindings, Reads, results
  <2>3. seen[s] = [status |-> seen[s].status, observations |-> seen[s].observations,
                   batches |-> seen[s].batches, enemies |-> seen[s].enemies,
                   existing |-> seen[s].existing, persisted |-> seen[s].persisted]
    BY DEF TypeInv, Shapes, EvidenceOK
  <2>4. seen'[s].persisted = seen[s].persisted /\ \A t \in Sessions : t # s => seen'[t] = seen[t]
    BY <2>1, <2>3 DEF ReadStatus, ReadObservations, ReadBatches, ReadWorld, ReadFindings, Reads, TypeInv, Shapes
  <2> QED
    BY <1>2, <2>2, <2>4
<1>9. CASE \E s \in Sessions : UpdateReview(s)
  <2>1. PICK s \in Sessions : UpdateReview(s)
    BY <1>9
  <2>2. CASE ~\E row \in findings : row.id = asked[s].id
    <3>1. Ends(s) /\ UNCHANGED <<findings, summary>>
      BY <2>1, <2>2 DEF UpdateReview
    <3> QED
      BY <1>2, <1>3, <3>1
  <2>3. CASE \E row \in findings : row.id = asked[s].id
    <3>1. PICK old \in findings : old.id = asked[s].id
      BY <2>3
    <3>2. findings' = Marked(findings, old.id, asked[s].verdict) /\ UNCHANGED <<seen, summary>>
      BY <2>1, <2>3, <3>1 DEF UpdateReview
    <3>3. \A row \in findings : RowShape(row)
      BY DEF TypeInv, Shapes
    <3>4. Priced(findings')
      BY <1>1, <3>2, <3>3, ReviewsShiftTheCost
    <3> QED
      BY <3>2, <3>4 DEF Priced
  <2> QED
    BY <2>2, <2>3
<1>10. CASE \E s \in Sessions : Replace(s)
  <2>1. PICK s \in Sessions : Replace(s)
    BY <1>10
  <2> DEFINE rows == Inserted(Found(s), seen[s].existing, lastId)
  <2>2. findings' = rows /\ summary' = summary /\ seen' = [seen EXCEPT ![s] = Persisted(s, rows)]
    BY <2>1 DEF Replace
  <2>3. \A row \in rows : \E f \in Found(s) : row.key = f.key
    BY FoundRows
  <2>4. \A f \in Found(s) : Penalty(f.key) \in Nat
    <3>1. seen[s].batches \in Seq(Validated) /\ seen[s].observations \in SUBSET Observations
      BY DEF TypeInv, Shapes, EvidenceOK
    <3> QED
      BY <3>1, FindingsArePriced DEF Found
  <2> HIDE DEF rows
  <2>5. Priced(rows)
    BY <2>3, <2>4 DEF Priced
  <2>6. \A t \in Sessions : seen'[t].persisted \in {rows, seen[t].persisted}
    BY <2>2 DEF Persisted, TypeInv, Shapes
  <2>7. \A t \in Sessions : Priced(seen'[t].persisted)
    BY <2>5, <2>6
  <2>8. Priced(findings') /\ (summary' # None => summary'.score \in 0..100)
    BY <2>2, <2>5
  <2> QED
    BY <2>7, <2>8 DEF Priced
<1>11. CASE \E s \in Sessions : SaveMetrics(s)
  BY <1>2, <1>11 DEF SaveMetrics
<1>12. CASE \E s \in Sessions : SaveSummary(s)
  <2>1. PICK s \in Sessions : SaveSummary(s)
    BY <1>12
  <2>2. /\ summary' = Summary(seen[s].batches, seen[s].persisted, seen[s].status)
        /\ findings' = findings /\ Ends(s)
    BY <2>1 DEF SaveSummary
  <2>3. IsFiniteSet(seen[s].persisted) /\ Priced(seen[s].persisted)
    BY <1>1, RowsAreFinite DEF TypeInv, ReviewTypeOK
  <2>4. summary'.score \in 0..100
    <3>1. summary'.score = Score(seen[s].persisted)
      BY <2>2 DEF Summary
    <3> QED
      BY <2>3, <3>1, CostIsNatural
  <2>5. \A t \in Sessions : seen'[t].persisted \in {{}, seen[t].persisted}
    BY <1>3, <2>2
  <2>6. \A t \in Sessions : Priced(seen'[t].persisted)
    BY <2>5 DEF Priced
  <2> QED
    BY <2>2, <2>4, <2>6 DEF Priced
<1> QED
  BY <1>4, <1>5, <1>6, <1>7, <1>8, <1>9, <1>10, <1>11, <1>12 DEF ReviewNext, Evaluate

LEMMA ScoreAtFirst ==
  ASSUME ReviewInit PROVE ScoreInv
<1>1. \A s \in Sessions : seen[s].persisted = {}
  BY NothingIsEvidence DEF ReviewInit
<1> QED
  BY <1>1 DEF ReviewInit, ScoreInv, Priced

\* ScoresArePercentages: for any evidence, number of findings and reviews, the score is one.
THEOREM ScoresAreAlwaysPercentages == ReviewSpec => []ScoresArePercentages
<1>1. ReviewInit => TypeInv /\ ScoreInv
  BY TypesHoldAtFirst, ScoreAtFirst
<1>2. TypeInv /\ ScoreInv /\ [ReviewNext]_vars => TypeInv' /\ ScoreInv'
  BY TypesAreInvariant, ScoreIsInvariant
<1>3. TypeInv /\ ScoreInv => ScoresArePercentages
  <2> SUFFICES ASSUME TypeInv, ScoreInv PROVE ScoresArePercentages
    OBVIOUS
  <2>1. IsFiniteSet(findings)
    BY RowsAreFinite DEF TypeInv, ReviewTypeOK
  <2> QED
    BY <2>1, CostIsNatural DEF ScoreInv, ScoresArePercentages
<1> QED
  BY <1>1, <1>2, <1>3, PTL DEF ReviewSpec

\* VerdictsMoveTheScore: clearing a finding never lowers the score and confirming one never
\* raises it, whatever commands run in between.
THEOREM VerdictsAlwaysMoveTheScore == ReviewSpec => VerdictsMoveTheScore
<1> DEFINE Step == \A s \in Sessions : UpdateReview(s) =>
             /\ asked[s].verdict = "cleared" => Score(findings') >= Score(findings)
             /\ asked[s].verdict = "confirmed_leakage" => Score(findings') <= Score(findings)
<1>1. ReviewInit => TypeInv /\ ScoreInv
  BY TypesHoldAtFirst, ScoreAtFirst
<1>2. TypeInv /\ ScoreInv /\ [ReviewNext]_vars => TypeInv' /\ ScoreInv'
  BY TypesAreInvariant, ScoreIsInvariant
<1>3. TypeInv /\ ScoreInv /\ [ReviewNext]_vars => [Step]_vars
  <2> SUFFICES ASSUME TypeInv, ScoreInv, NEW s \in Sessions, UpdateReview(s)
               PROVE  /\ asked[s].verdict = "cleared" => Score(findings') >= Score(findings)
                      /\ asked[s].verdict = "confirmed_leakage" => Score(findings') <= Score(findings)
    OBVIOUS
  <2>1. /\ lastId \in Nat /\ RowsOK(findings) /\ Priced(findings)
        /\ \A row \in findings : RowShape(row)
    BY DEF TypeInv, ReviewTypeOK, Shapes, ScoreInv
  <2>2. CASE \E row \in findings : row.id = asked[s].id
    <3>1. PICK old \in findings : old.id = asked[s].id
      BY <2>2
    <3>2. findings' = Marked(findings, old.id, asked[s].verdict)
      BY <2>2, <3>1 DEF UpdateReview
    <3> QED
      BY <2>1, <3>2, ReviewsShiftTheCost
  <2>3. CASE ~\E row \in findings : row.id = asked[s].id
    <3>1. findings' = findings
      BY <2>3 DEF UpdateReview
    <3>2. Score(findings) \in 0..100
      BY <2>1, RowsAreFinite, CostIsNatural
    <3> QED
      BY <3>1, <3>2
  <2> QED
    BY <2>2, <2>3
<1> QED
  BY <1>1, <1>2, <1>3, PTL DEF ReviewSpec, VerdictsMoveTheScore
===============================================================================
