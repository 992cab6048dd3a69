------------------------------ MODULE FiniteSums ------------------------------
(***************************************************************************)
(* Sums over finite sets: what a reserve pool has cost, what the findings of  *)
(* a run cost its score.  SumFunctionOnSet takes out one element after        *)
(* another, as CHOOSE has it; the lemmas show that the order does not matter. *)
(***************************************************************************)
EXTENDS Integers, Functions, FiniteSetTheorems, WellFoundedInduction, TLAPS

\* The element SumFunctionOnSet takes out first.
Pick(s) == CHOOSE x \in s : TRUE

\* The table of the sums of f over the subsets of T that SumFunctionOnSet goes by.
IsTable(g, f, T) ==
  g = [s \in SUBSET T |-> IF s = {} THEN 0 ELSE f[Pick(s)] + g[s \ {Pick(s)}]]

\* The sum is what the table says of the whole set.
LEMMA SumIsTabled ==
  ASSUME NEW f, NEW T
  PROVE  SumFunctionOnSet(f, T) = (CHOOSE g : IsTable(g, f, T))[T]
BY Zenon DEF SumFunctionOnSet, FoldFunctionOnSet, MapThenFoldSet, IsTable, Pick

\* The order of the natural numbers, as a relation.
Below == {ss \in Nat \X Nat : ss[1] < ss[2]}

\* Of the subsets of a finite set that fail something one is smallest.
LEMMA SmallestSubset ==
  ASSUME NEW T, IsFiniteSet(T), NEW C \in SUBSET SUBSET T, C # {}
  PROVE  \E s \in C : \A t \in SUBSET T :
           Cardinality(t) < Cardinality(s) => t \notin C
<1> DEFINE N == {Cardinality(s) : s \in C}
<1>1. IsWellFoundedOn(Below, Nat)
  BY NatLessThanWellFounded DEF OpToRel, Below
<1>2. \A s \in SUBSET T : IsFiniteSet(s) /\ Cardinality(s) \in Nat
  BY FS_Subset, FS_CardinalityType
<1>3. N \in SUBSET Nat /\ N # {}
  BY <1>2
<1>4. PICK n \in N : \A m \in N : ~(<<m, n>> \in Below)
  <2> HIDE DEF N
  <2> QED
    BY <1>1, <1>3, WFMin
<1>5. PICK s \in C : n = Cardinality(s)
  BY <1>4
<1>6. ASSUME NEW t \in SUBSET T, Cardinality(t) < Cardinality(s), t \in C PROVE FALSE
  <2>1. <<Cardinality(t), n>> \in Below
    BY <1>2, <1>5, <1>6 DEF Below
  <2>2. Cardinality(t) \in N
    BY <1>6
  <2> QED
    BY <1>4, <2>1, <2>2
<1> QED
  BY <1>6

\* What is left when an element is taken out is smaller.
LEMMA OneLess ==
  ASSUME NEW T, IsFiniteSet(T), NEW s \in SUBSET T, NEW x \in s
  PROVE  s \ {x} \in SUBSET T /\ Cardinality(s \ {x}) < Cardinality(s)
<1>1. IsFiniteSet(s)
  BY FS_Subset
<1>2. Cardinality(s) \in Nat /\ Cardinality(s \ {x}) = Cardinality(s) - 1
  BY <1>1, FS_CardinalityType, FS_RemoveElement
<1> QED
  BY <1>2

\* The element taken out is one of the set.
LEMMA PickIsIn ==
  ASSUME NEW s, s # {} PROVE Pick(s) \in s
BY DEF Pick

\* There is such a table.
LEMMA TablesExist ==
  ASSUME NEW T, IsFiniteSet(T), NEW f
  PROVE  \E g : IsTable(g, f, T)
<1> DEFINE Small(n) == {s \in SUBSET T : Cardinality(s) <= n}
           Entry(g, s) == IF s = {} THEN 0 ELSE f[Pick(s)] + g[s \ {Pick(s)}]
           Tabled(n) == \E g : g = [s \in Small(n) |-> Entry(g, s)]
           Missing == {n \in Nat : ~Tabled(n)}
<1>1. IsWellFoundedOn(Below, Nat)
  BY NatLessThanWellFounded DEF OpToRel, Below
<1>2. \A s \in SUBSET T : IsFiniteSet(s) /\ Cardinality(s) \in Nat
  BY FS_Subset, FS_CardinalityType
<1>3. Tabled(0)
  <2> DEFINE g == [s \in Small(0) |-> 0]
  <2>1. \A s \in Small(0) : s = {}
    <3> SUFFICES ASSUME NEW s \in Small(0) PROVE s = {}
      OBVIOUS
    <3>1. Cardinality(s) = 0 /\ IsFiniteSet(s)
      BY <1>2
    <3> QED
      BY <3>1, FS_EmptySet
  <2>2. \A s \in Small(0) : Entry(g, s) = 0
    BY <2>1
  <2>3. g = [s \in Small(0) |-> Entry(g, s)]
    BY <2>2
  <2> QED
    BY <2>3
<1>4. ASSUME NEW n \in Nat, Tabled(n) PROVE Tabled(n + 1)
  <2>1. PICK g : g = [s \in Small(n) |-> Entry(g, s)]
    BY <1>4
  <2> DEFINE h == [s \in Small(n + 1) |-> Entry(g, s)]
  <2>2. ASSUME NEW s \in Small(n + 1), s # {}
        PROVE  s \ {Pick(s)} \in Small(n) /\ s \ {Pick(s)} \in Small(n + 1)
    <3>1. Pick(s) \in s /\ s \in SUBSET T
      BY <2>2, PickIsIn
    <3>2. /\ s \ {Pick(s)} \in SUBSET T
          /\ Cardinality(s \ {Pick(s)}) < Cardinality(s)
      BY <3>1, OneLess
    <3>3. Cardinality(s) \in Nat /\ Cardinality(s \ {Pick(s)}) \in Nat /\ Cardinality(s) <= n + 1
      BY <1>2, <2>2, <3>2
    <3> QED
      BY <3>2, <3>3
  <2>3. \A s \in Small(n) : s \in Small(n + 1)
    BY <1>2
  <2>4. \A s \in Small(n) : h[s] = g[s]
    <3> HIDE DEF Entry, Small
    <3>1. \A s \in Small(n) : g[s] = Entry(g, s)
      BY <2>1
    <3>2. \A s \in Small(n) : h[s] = Entry(g, s)
      BY <2>3
    <3> QED
      BY <3>1, <3>2
  <2>5. \A s \in Small(n + 1) : Entry(h, s) = Entry(g, s)
    <3> HIDE DEF h, Small
    <3> QED
      BY <2>2, <2>4
  <2>6. h = [s \in Small(n + 1) |-> Entry(h, s)]
    <3> HIDE DEF Entry, Small
    <3> QED
      BY <2>5
  <2> QED
    BY <2>6
<1>5. Missing = {}
  <2> SUFFICES ASSUME Missing # {} PROVE FALSE
    OBVIOUS
  <2>1. PICK n \in Missing : \A m \in Missing : ~(<<m, n>> \in Below)
    <3> Missing \subseteq Nat
      OBVIOUS
    <3> HIDE DEF Missing
    <3> QED
      BY <1>1, WFMin
  <2> HIDE DEF Tabled
  <2>2. n # 0
    BY <1>3
  <2>3. n - 1 \in Nat /\ <<n - 1, n>> \in Below /\ (n - 1) + 1 = n
    BY <2>2 DEF Below
  <2>4. Tabled(n - 1)
    BY <2>1, <2>3
  <2>5. Tabled((n - 1) + 1)
    BY <1>4, <2>3, <2>4
  <2> QED
    BY <2>3, <2>5
<1>6. Tabled(Cardinality(T))
  <2> HIDE DEF Tabled
  <2> QED
    BY <1>2, <1>5
<1>7. Small(Cardinality(T)) = SUBSET T
  <2>1. \A s \in SUBSET T : Cardinality(s) <= Cardinality(T)
    BY FS_Subset
  <2> QED
    BY <2>1
<1> QED
  BY <1>6, <1>7 DEF IsTable

\* What a table says.
LEMMA TableRow ==
  ASSUME NEW T, NEW f, NEW g, IsTable(g, f, T), NEW s \in SUBSET T
  PROVE  /\ s = {} => g[s] = 0
         /\ s # {} => g[s] = f[Pick(s)] + g[s \ {Pick(s)}]
<1> DEFINE row(t) == IF t = {} THEN 0 ELSE f[Pick(t)] + g[t \ {Pick(t)}]
<1>1. g = [t \in SUBSET T |-> row(t)]
  BY DEF IsTable
<1> HIDE DEF row
<1>2. g[s] = row(s)
  BY <1>1
<1> QED
  BY <1>2 DEF row

\* Two tables agree about what they share.
LEMMA TablesAgree ==
  ASSUME NEW U, IsFiniteSet(U), NEW T \in SUBSET U, NEW f,
         NEW g, IsTable(g, f, T), NEW h, IsTable(h, f, U), NEW s \in SUBSET T
  PROVE  g[s] = h[s]
<1> DEFINE C == {t \in SUBSET T : g[t] # h[t]}
<1> SUFFICES ASSUME C # {} PROVE FALSE
  OBVIOUS
<1>0. IsFiniteSet(T)
  BY FS_Subset
<1>1. PICK t \in C : \A r \in SUBSET T : Cardinality(r) < Cardinality(t) => r \notin C
  <2>1. C \in SUBSET SUBSET T /\ C # {}
    OBVIOUS
  <2> HIDE DEF C
  <2>2. \E t \in C : \A r \in SUBSET T : Cardinality(r) < Cardinality(t) => r \notin C
    BY <1>0, <2>1, SmallestSubset, Zenon
  <2> QED
    BY <2>2
<1>2. /\ t = {} => g[t] = h[t]
      /\ t # {} => /\ g[t] = f[Pick(t)] + g[t \ {Pick(t)}]
                   /\ h[t] = f[Pick(t)] + h[t \ {Pick(t)}]
  <2>1. t \in SUBSET T /\ t \in SUBSET U
    OBVIOUS
  <2> HIDE DEF C
  <2>2. (t = {} => g[t] = 0) /\ (t # {} => g[t] = f[Pick(t)] + g[t \ {Pick(t)}])
    BY <2>1, TableRow
  <2>3. (t = {} => h[t] = 0) /\ (t # {} => h[t] = f[Pick(t)] + h[t \ {Pick(t)}])
    BY <2>1, TableRow
  <2> QED
    BY <2>2, <2>3
<1>3. t # {}
  BY <1>2
<1>4. g[t \ {Pick(t)}] = h[t \ {Pick(t)}]
  <2>1. t \ {Pick(t)} \in SUBSET T /\ Cardinality(t \ {Pick(t)}) < Cardinality(t)
    BY <1>0, <1>3, PickIsIn, OneLess
  <2> QED
    BY <1>1, <2>1
<1> QED
  BY <1>2, <1>4

\* The sums are integers.
LEMMA TableIsTyped ==
  ASSUME NEW T, IsFiniteSet(T), NEW f, \A x \in T : f[x] \in Int,
         NEW g, IsTable(g, f, T), NEW s \in SUBSET T
  PROVE  g[s] \in Int
<1> DEFINE C == {t \in SUBSET T : g[t] \notin Int}
<1> SUFFICES ASSUME C # {} PROVE FALSE
  OBVIOUS
<1>1. PICK t \in C : \A r \in SUBSET T : Cardinality(r) < Cardinality(t) => r \notin C
  <2>1. C \in SUBSET SUBSET T /\ C # {}
    OBVIOUS
  <2> HIDE DEF C
  <2>2. \E t \in C : \A r \in SUBSET T : Cardinality(r) < Cardinality(t) => r \notin C
    BY <2>1, SmallestSubset, Zenon
  <2> QED
    BY <2>2
<1>2. (t = {} => g[t] = 0) /\ (t # {} => g[t] = f[Pick(t)] + g[t \ {Pick(t)}])
  <2>1. t \in SUBSET T
    OBVIOUS
  <2> HIDE DEF C
  <2> QED
    BY <2>1, TableRow
<1>3. t # {}
  BY <1>2
<1>4. g[t \ {Pick(t)}] \in Int /\ f[Pick(t)] \in Int
  <2>1. /\ t \ {Pick(t)} \in SUBSET T /\ Cardinality(t \ {Pick(t)}) < Cardinality(t)
        /\ Pick(t) \in T
    BY <1>3, PickIsIn, OneLess
  <2> QED
    BY <1>1, <2>1
<1> QED
  BY <1>2, <1>3, <1>4

\* Whichever element is taken out, the rest of the sum is that of the rest.
LEMMA TableAdds ==
  ASSUME NEW T, IsFiniteSet(T), NEW f, \A x \in T : f[x] \in Int,
         NEW g, IsTable(g, f, T), NEW s \in SUBSET T, NEW y \in s
  PROVE  g[s] = g[s \ {y}] + f[y]
<1> DEFINE C == {t \in SUBSET T : \E z \in t : g[t] # g[t \ {z}] + f[z]}
<1> SUFFICES ASSUME C # {} PROVE FALSE
  OBVIOUS
<1>1. PICK t \in C : \A r \in SUBSET T : Cardinality(r) < Cardinality(t) => r \notin C
  <2>1. C \in SUBSET SUBSET T /\ C # {}
    OBVIOUS
  <2> HIDE DEF C
  <2>2. \E t \in C : \A r \in SUBSET T : Cardinality(r) < Cardinality(t) => r \notin C
    BY <2>1, SmallestSubset, Zenon
  <2> QED
    BY <2>2
<1>2. PICK z \in t : g[t] # g[t \ {z}] + f[z]
  OBVIOUS
<1> DEFINE x == Pick(t)
<1>3. x \in t
  BY PickIsIn
<1> HIDE DEF x
<1>4. g[t] = f[x] + g[t \ {x}]
  BY TableRow DEF x
<1>5. \A r \in SUBSET T : g[r] \in Int
  BY TableIsTyped
<1>6. f[x] \in Int /\ f[z] \in Int
  BY <1>3
<1>7. x # z
  <2>1. t \ {z} \in SUBSET T
    OBVIOUS
  <2>2. SUFFICES ASSUME x = z PROVE FALSE
    OBVIOUS
  <2>3. g[t] = f[z] + g[t \ {z}]
    BY <1>4, <2>2
  <2>4. g[t \ {z}] \in Int
    BY <1>5, <2>1
  <2> QED
    BY <1>2, <1>6, <2>3, <2>4
<1> DEFINE rest == (t \ {x}) \ {z}
<1>8. g[t \ {x}] = g[rest] + f[z]
  <2>1. t \ {x} \in SUBSET T /\ Cardinality(t \ {x}) < Cardinality(t)
    BY <1>3, OneLess
  <2>2. z \in t \ {x}
    BY <1>7
  <2> QED
    BY <1>1, <2>1, <2>2
<1>9. g[t \ {z}] = g[rest] + f[x]
  <2>1. t \ {z} \in SUBSET T /\ Cardinality(t \ {z}) < Cardinality(t)
    BY OneLess
  <2>2. x \in t \ {z} /\ (t \ {z}) \ {x} = rest
    BY <1>3, <1>7
  <2> QED
    BY <1>1, <2>1, <2>2
<1>10. rest \in SUBSET T
  OBVIOUS
<1> HIDE DEF rest
<1>11. g[rest] \in Int
  BY <1>5, <1>10
<1> QED
  BY <1>2, <1>4, <1>6, <1>8, <1>9, <1>11

\* The sum over a finite set, element by element.
THEOREM SumOfOneMore ==
  ASSUME NEW S, IsFiniteSet(S), NEW f, \A x \in S : f[x] \in Int
  PROVE  /\ SumFunctionOnSet(f, S) \in Int
         /\ S = {} => SumFunctionOnSet(f, S) = 0
         /\ \A y \in S : SumFunctionOnSet(f, S) = SumFunctionOnSet(f, S \ {y}) + f[y]
<1> DEFINE table(T) == CHOOSE g : IsTable(g, f, T)
<1>1. ASSUME NEW T \in SUBSET S
      PROVE  /\ IsTable(table(T), f, T)
             /\ SumFunctionOnSet(f, T) = table(T)[T]
             /\ table(T)[T] = table(S)[T]
  <2>1. \A R \in SUBSET S : IsTable(table(R), f, R)
    <3> TAKE R \in SUBSET S
    <3>1. IsFiniteSet(R)
      BY FS_Subset
    <3>2. \E g : IsTable(g, f, R)
      BY <3>1, TablesExist
    <3> QED
      BY <3>2
  <2>2. SumFunctionOnSet(f, T) = table(T)[T]
    BY SumIsTabled
  <2> HIDE DEF table
  <2>3. table(T)[T] = table(S)[T]
    BY <2>1, TablesAgree
  <2> QED
    BY <2>1, <2>2, <2>3
<1> HIDE DEF table
<1>2. \A T \in SUBSET S : SumFunctionOnSet(f, T) = table(S)[T]
  BY <1>1
<1>3. IsTable(table(S), f, S)
  BY <1>1
<1>4. \A y \in S : table(S)[S] = table(S)[S \ {y}] + f[y]
  BY <1>3, TableAdds
<1>5. table(S)[S] \in Int
  BY <1>3, TableIsTyped
<1>6. S = {} => table(S)[S] = 0
  BY <1>3, TableRow
<1> QED
  BY <1>2, <1>4, <1>5, <1>6

\* A sum depends on what is added only, not on what else the functions are defined for.
LEMMA SumsAgree ==
  ASSUME NEW S, IsFiniteSet(S), NEW f, NEW g, \A x \in S : f[x] \in Int /\ g[x] = f[x]
  PROVE  SumFunctionOnSet(f, S) = SumFunctionOnSet(g, S)
<1> DEFINE C == {t \in SUBSET S : SumFunctionOnSet(f, t) # SumFunctionOnSet(g, t)}
<1> SUFFICES ASSUME C # {} PROVE FALSE
  OBVIOUS
<1>1. PICK t \in C : \A r \in SUBSET S : Cardinality(r) < Cardinality(t) => r \notin C
  <2>1. C \in SUBSET SUBSET S /\ C # {}
    OBVIOUS
  <2> HIDE DEF C
  <2>2. \E t \in C : \A r \in SUBSET S : Cardinality(r) < Cardinality(t) => r \notin C
    BY <2>1, SmallestSubset, Zenon
  <2> QED
    BY <2>2
<1>2. t \in SUBSET S /\ IsFiniteSet(t) /\ \A x \in t : f[x] \in Int /\ g[x] \in Int
  BY FS_Subset
<1>3. SumFunctionOnSet(f, t) # SumFunctionOnSet(g, t)
  OBVIOUS
<1>4. t # {}
  BY <1>2, <1>3, SumOfOneMore
<1>5. PICK x \in t : TRUE
  BY <1>4
<1>6. t \ {x} \in SUBSET S /\ Cardinality(t \ {x}) < Cardinality(t)
  BY <1>2, OneLess
<1>7. SumFunctionOnSet(f, t \ {x}) = SumFunctionOnSet(g, t \ {x})
  BY <1>1, <1>6
<1>8. SumFunctionOnSet(f, t) = SumFunctionOnSet(f, t \ {x}) + f[x]
  BY <1>2, SumOfOneMore
<1>9. SumFunctionOnSet(g, t) = SumFunctionOnSet(g, t \ {x}) + g[x]
  BY <1>2, SumOfOneMore
<1>10. f[x] = g[x]
  BY <1>2
<1> HIDE DEF C
<1> QED
  BY <1>3, <1>7, <1>8, <1>9, <1>10

\* Where nothing negative is added the sum is not negative.
LEMMA SumOfNaturals ==
  ASSUME NEW S, IsFiniteSet(S), NEW f, \A x \in S : f[x] \in Nat
  PROVE  SumFunctionOnSet(f, S) \in Nat
<1> DEFINE C == {t \in SUBSET S : SumFunctionOnSet(f, t) \notin Nat}
<1> SUFFICES ASSUME C # {} PROVE FALSE
  OBVIOUS
<1>1. PICK t \in C : \A r \in SUBSET S : Cardinality(r) < Cardinality(t) => r \notin C
  <2>1. C \in SUBSET SUBSET S /\ C # {}
    OBVIOUS
  <2> HIDE DEF C
  <2>2. \E t \in C : \A r \in SUBSET S : Cardinality(r) < Cardinality(t) => r \notin C
    BY <2>1, SmallestSubset, Zenon
  <2> QED
    BY <2>2
<1>2. t \in SUBSET S /\ IsFiniteSet(t) /\ \A x \in t : f[x] \in Int
  BY FS_Subset
<1>3. t # {}
  BY <1>2, SumOfOneMore
<1>4. PICK x \in t : TRUE
  BY <1>3
<1>5. t \ {x} \in SUBSET S /\ Cardinality(t \ {x}) < Cardinality(t)
  BY <1>2, OneLess
<1>6. SumFunctionOnSet(f, t \ {x}) \in Nat
  BY <1>1, <1>5
<1>7. SumFunctionOnSet(f, t) = SumFunctionOnSet(f, t \ {x}) + f[x]
  BY <1>2, SumOfOneMore
<1>8. f[x] \in Nat /\ SumFunctionOnSet(f, t) \notin Nat
  <2>1. f[x] \in Nat
    BY <1>2
  <2> QED
    BY <2>1
<1> HIDE DEF C
<1> QED
  BY <1>6, <1>7, <1>8
===============================================================================
