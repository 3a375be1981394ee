---------------------------- MODULE TotalsProofs ----------------------------
(***************************************************************************)
(* Induction over numbers and finite sets, stated for a set instead of a   *)
(* predicate, and what follows for totals: the lemmas behind the balances  *)
(* of EVMNode and EngineNode.                                              *)
(***************************************************************************)
EXTENDS Totals, FiniteSetTheorems, WellFoundedInduction, TLAPS

\* Induction over the natural numbers: a set that holds 0 and with n also
\* n + 1 holds them all.
LEMMA NumberInduction ==
  ASSUME NEW P, 0 \in P, \A n \in Nat : n \in P => n + 1 \in P
  PROVE  \A n \in Nat : n \in P
<1> SUFFICES ASSUME NEW n \in Nat, n \notin P PROVE FALSE
  BY Zenon
<1> DEFINE bad == {i \in Nat : i \notin P}
<1>1. bad \subseteq Nat /\ bad # {}
  BY Zenon
<1>2. PICK m \in bad : \A j \in bad : ~(<<j, m>> \in OpToRel(<, Nat))
  <2> HIDE DEF bad
  <2>1. QED
    BY <1>1, NatLessThanWellFounded, WFMin, Zenon
<1>3. m \in Nat /\ m \notin P /\ m # 0
  BY Zenon
<1>4. m - 1 \in Nat /\ m - 1 < m /\ (m - 1) + 1 = m
  BY <1>3
<1>5. m - 1 \in bad
  BY <1>3, <1>4, Zenon
<1>6. QED
  BY <1>2, <1>3, <1>4, <1>5, Zenon DEF OpToRel

\* Induction over the subsets of a finite set, one element at a time.
LEMMA SubsetInduction ==
  ASSUME NEW D, IsFiniteSet(D), NEW P, {} \in P,
         \A s \in SUBSET D : s # {} /\ (\A y \in s : s \ {y} \in P) => s \in P
  PROVE  \A s \in SUBSET D : s \in P
<1> DEFINE upTo == {k \in Nat : \A s \in SUBSET D : Cardinality(s) = k => s \in P}
<1>1. \A s \in SUBSET D : IsFiniteSet(s) /\ Cardinality(s) \in Nat
  BY FS_Subset, FS_CardinalityType, Zenon
<1>2. 0 \in upTo
  BY <1>1, FS_EmptySet, Zenon
<1>3. ASSUME NEW k \in Nat, k \in upTo PROVE k + 1 \in upTo
  <2> SUFFICES ASSUME NEW s \in SUBSET D, Cardinality(s) = k + 1 PROVE s \in P
    <3>1. k + 1 \in Nat
      OBVIOUS
    <3>2. QED
      BY <3>1, Zenon
  <2>1. s # {}
    <3>1. Cardinality({}) = 0 /\ k + 1 # 0
      BY FS_EmptySet
    <3>2. QED
      BY <3>1, Zenon
  <2>2. ASSUME NEW y \in s PROVE s \ {y} \in P
    <3>1. Cardinality(s \ {y}) = Cardinality(s) - 1
      BY <1>1, FS_RemoveElement, Zenon
    <3>2. Cardinality(s \ {y}) = k /\ s \ {y} \in SUBSET D
      BY <3>1
    <3>3. QED
      BY <1>3, <3>2, Zenon
  <2>3. QED
    BY <2>1, <2>2, Zenon
<1>4. \A k \in Nat : k \in upTo
  <2> HIDE DEF upTo
  <2>1. QED
    BY <1>2, <1>3, NumberInduction, Zenon
<1>5. QED
  BY <1>1, <1>4, Zenon

-----------------------------------------------------------------------------
(* The recursive function behind a total *)

first(s) == CHOOSE x \in s : TRUE

\* g adds up f over the subsets in Q, taking the first element off each.
adds(g, f, Q) ==
  g = [s \in Q |-> IF s = {} THEN 0 ELSE f[first(s)] + g[s \ {first(s)}]]

\* The sums of f over the subsets of D.
sums(f, D) == CHOOSE g : adds(g, f, SUBSET D)

\* A total is the sum over the whole domain.
LEMMA TotalIsSum ==
  ASSUME NEW f
  PROVE  total(f) = sums(f, DOMAIN f)[DOMAIN f]
  BY DEF total, MapThenSumSet, MapThenFoldSet, sums, adds, first

\* The recursion is well founded: there is such a function for a finite set.
LEMMA SumsExist ==
  ASSUME NEW f, NEW D, IsFiniteSet(D)
  PROVE  adds(sums(f, D), f, SUBSET D)
<1> DEFINE small(k) == {s \in SUBSET D : Cardinality(s) <= k}
           good == {k \in Nat : \E g : adds(g, f, small(k))}
<1>1. \A s \in SUBSET D : IsFiniteSet(s) /\ Cardinality(s) \in Nat
  BY FS_Subset, FS_CardinalityType, Zenon
<1>2. \A s \in SUBSET D : s # {} => /\ first(s) \in s /\ s \ {first(s)} \in SUBSET D
                                    /\ Cardinality(s \ {first(s)}) = Cardinality(s) - 1
  <2> SUFFICES ASSUME NEW s \in SUBSET D, s # {}
               PROVE  /\ first(s) \in s /\ s \ {first(s)} \in SUBSET D
                      /\ Cardinality(s \ {first(s)}) = Cardinality(s) - 1
    BY Zenon
  <2>1. first(s) \in s
    BY Zenon DEF first
  <2>2. QED
    BY <1>1, <2>1, FS_RemoveElement, Zenon
<1>3. 0 \in good
  <2> DEFINE g == [s \in small(0) |-> 0]
  <2>1. \A s \in small(0) : s = {}
    <3> SUFFICES ASSUME NEW s \in small(0) PROVE s = {}
      BY Zenon
    <3>1. Cardinality(s) = 0
      BY <1>1
    <3>2. QED
      BY <1>1, <3>1, FS_EmptySet, Zenon
  <2>2. adds(g, f, small(0))
    <3> HIDE DEF small
    <3>1. QED
      BY <2>1 DEF adds
  <2>3. QED
    BY <2>2, Zenon
<1>4. ASSUME NEW k \in Nat, k \in good PROVE k + 1 \in good
  <2>1. PICK g : adds(g, f, small(k))
    BY <1>4, Zenon
  <2> DEFINE h == [s \in small(k + 1) |->
                     IF s \in small(k) THEN g[s] ELSE f[first(s)] + g[s \ {first(s)}]]
  <2>2. \A s \in small(k) : s \in small(k + 1)
    BY <1>1
  <2>3. \A s \in small(k + 1) : s # {} => s \ {first(s)} \in small(k)
    <3> SUFFICES ASSUME NEW s \in small(k + 1), s # {} PROVE s \ {first(s)} \in small(k)
      BY Zenon
    <3>1. /\ Cardinality(s) \in Nat /\ Cardinality(s) <= k + 1
          /\ Cardinality(s \ {first(s)}) = Cardinality(s) - 1
          /\ s \ {first(s)} \in SUBSET D
      BY <1>1, <1>2, Zenon
    <3>2. Cardinality(s \ {first(s)}) <= k
      BY <3>1
    <3>3. QED
      BY <3>1, <3>2, Zenon
  <2>4. {} \in small(k)
    <3>1. Cardinality({}) <= k
      BY FS_EmptySet
    <3>2. QED
      BY <3>1, Zenon
  <2>5. \A s \in small(k) :
          g[s] = IF s = {} THEN 0 ELSE f[first(s)] + g[s \ {first(s)}]
    <3> HIDE DEF small
    <3>1. QED
      BY <2>1, Zenon DEF adds
  <2>6. \A s \in small(k + 1) :
          h[s] = IF s = {} THEN 0 ELSE f[first(s)] + h[s \ {first(s)}]
    <3> SUFFICES ASSUME NEW s \in small(k + 1)
                 PROVE  h[s] = IF s = {} THEN 0 ELSE f[first(s)] + h[s \ {first(s)}]
      BY Zenon
    <3> HIDE DEF small
    <3>1. CASE s = {}
      BY <2>2, <2>4, <2>5, <3>1
    <3>2. CASE s # {}
      <4>1. s \ {first(s)} \in small(k) /\ s \ {first(s)} \in small(k + 1)
        BY <2>2, <2>3, <3>2, Zenon
      <4>2. h[s \ {first(s)}] = g[s \ {first(s)}]
        BY <4>1, Zenon
      <4>3. h[s] = f[first(s)] + g[s \ {first(s)}]
        BY <2>5, <3>2, Zenon
      <4>4. QED
        BY <3>2, <4>2, <4>3, Zenon
    <3>3. QED
      BY <3>1, <3>2, Zenon
  <2>7. adds(h, f, small(k + 1))
    <3>1. DOMAIN h = small(k + 1) /\ h = [s \in DOMAIN h |-> h[s]]
      BY Zenon
    <3> HIDE DEF h, small
    <3>2. QED
      BY <2>6, <3>1, Zenon DEF adds
  <2>8. k + 1 \in Nat
    OBVIOUS
  <2>9. QED
    BY <2>7, <2>8, Zenon
<1>5. Cardinality(D) \in good
  <2>1. \A k \in Nat : k \in good
    <3> HIDE DEF good
    <3>1. QED
      BY <1>3, <1>4, NumberInduction, Zenon
  <2>2. QED
    BY <1>1, <2>1, Zenon
<1>6. small(Cardinality(D)) = SUBSET D
  <2>1. \A s \in SUBSET D : Cardinality(s) <= Cardinality(D)
    BY FS_Subset, Zenon
  <2>2. QED
    BY <2>1, Zenon
<1>7. \E g : adds(g, f, SUBSET D)
  BY <1>5, <1>6, Zenon
<1>8. QED
  BY <1>7, Zenon DEF sums

\* The sum over no element.
LEMMA SumsEmpty ==
  ASSUME NEW f, NEW D, IsFiniteSet(D)
  PROVE  sums(f, D)[{}] = 0
<1>1. PICK g : g = sums(f, D)
  BY Zenon
<1>2. adds(g, f, SUBSET D)
  BY <1>1, SumsExist, Zenon
<1>3. g[{}] = 0
  BY <1>2, Zenon DEF adds
<1>4. QED
  BY <1>1, <1>3, Zenon

\* The sum over some elements: the first, and the sum over the others.
LEMMA SumsStep ==
  ASSUME NEW f, NEW D, IsFiniteSet(D), NEW s \in SUBSET D, s # {}, NEW x, x = first(s)
  PROVE  sums(f, D)[s] = f[x] + sums(f, D)[s \ {x}]
<1>1. PICK g : g = sums(f, D)
  BY Zenon
<1>2. adds(g, f, SUBSET D)
  BY <1>1, SumsExist, Zenon
<1>3. g[s] = f[x] + g[s \ {x}]
  BY <1>2, Zenon DEF adds
<1>4. QED
  BY <1>1, <1>3, Zenon

\* The sums of whole numbers are whole numbers.
LEMMA SumsType ==
  ASSUME NEW D, IsFiniteSet(D), NEW f, \A x \in D : f[x] \in Int, NEW t \in SUBSET D
  PROVE  sums(f, D)[t] \in Int
<1> DEFINE P == {s \in SUBSET D : sums(f, D)[s] \in Int}
<1>1. {} \in P
  BY SumsEmpty
<1>2. ASSUME NEW s \in SUBSET D, s # {}, \A y \in s : s \ {y} \in P PROVE s \in P
  <2>1. PICK x \in s : x = first(s)
    BY <1>2, Zenon DEF first
  <2>2. sums(f, D)[s] = f[x] + sums(f, D)[s \ {x}]
    BY <1>2, <2>1, SumsStep
  <2>3. f[x] \in Int /\ sums(f, D)[s \ {x}] \in Int
    BY <1>2, Zenon
  <2>4. QED
    BY <2>2, <2>3
<1>3. \A s \in SUBSET D : s \in P
  <2> HIDE DEF P
  <2>1. QED
    BY <1>1, <1>2, SubsetInduction, Zenon
<1>4. QED
  BY <1>3, Zenon

\* Sums depend on the values inside the subset only.
LEMMA SumsAgree ==
  ASSUME NEW D, IsFiniteSet(D), NEW E, E \in SUBSET D, NEW f, NEW g, \A x \in E : f[x] = g[x]
  PROVE  sums(f, E)[E] = sums(g, D)[E]
<1> DEFINE P == {s \in SUBSET E : sums(f, E)[s] = sums(g, D)[s]}
<1>1. IsFiniteSet(E)
  BY FS_Subset, Zenon
<1>2. {} \in P
  BY <1>1, SumsEmpty, Zenon
<1>3. ASSUME NEW s \in SUBSET E, s # {}, \A y \in s : s \ {y} \in P PROVE s \in P
  <2>1. PICK x \in s : x = first(s)
    BY <1>3, Zenon DEF first
  <2>2. sums(f, E)[s] = f[x] + sums(f, E)[s \ {x}]
    BY <1>1, <1>3, <2>1, SumsStep
  <2>3. sums(g, D)[s] = g[x] + sums(g, D)[s \ {x}]
    BY <1>3, <2>1, SumsStep
  <2>4. sums(f, E)[s \ {x}] = sums(g, D)[s \ {x}] /\ f[x] = g[x]
    BY <1>3, Zenon
  <2>5. QED
    BY <2>2, <2>3, <2>4, Zenon
<1>4. \A s \in SUBSET E : s \in P
  <2> HIDE DEF P
  <2>1. QED
    BY <1>1, <1>2, <1>3, SubsetInduction, Zenon
<1>5. QED
  BY <1>4, Zenon

\* The order does not matter: any element may be taken off.
LEMMA SumsRemove ==
  ASSUME NEW D, IsFiniteSet(D), NEW f, \A x \in D : f[x] \in Int, NEW z \in D
  PROVE  sums(f, D)[D] = f[z] + sums(f, D)[D \ {z}]
<1> DEFINE F == sums(f, D)
           P == {s \in SUBSET D : \A y \in s : F[s] = f[y] + F[s \ {y}]}
<1>1. {} \in P
  BY Zenon
<1>2. ASSUME NEW s \in SUBSET D, s # {}, \A y \in s : s \ {y} \in P PROVE s \in P
  <2> SUFFICES ASSUME NEW y \in s PROVE F[s] = f[y] + F[s \ {y}]
    BY Zenon
  <2>1. PICK x \in s : x = first(s)
    BY <1>2, Zenon DEF first
  <2>2. F[s] = f[x] + F[s \ {x}]
    BY <1>2, <2>1, SumsStep
  <2>3. CASE x = y
    BY <2>2, <2>3, Zenon
  <2>4. CASE x # y
    <3>1. F[s \ {x}] = f[y] + F[(s \ {x}) \ {y}]
      BY <1>2, <2>4, Zenon
    <3>2. F[s \ {y}] = f[x] + F[(s \ {y}) \ {x}]
      BY <1>2, <2>4, Zenon
    <3>3. (s \ {x}) \ {y} = (s \ {y}) \ {x} /\ (s \ {x}) \ {y} \in SUBSET D
      BY Zenon
    <3>4. PICK r : r = F[(s \ {x}) \ {y}] /\ r \in Int
      BY <3>3, SumsType, Zenon
    <3>5. F[s] = f[x] + (f[y] + r) /\ f[y] + F[s \ {y}] = f[y] + (f[x] + r)
      BY <2>2, <3>1, <3>2, <3>3, <3>4, Zenon
    <3>6. f[x] \in Int /\ f[y] \in Int
      BY Zenon
    <3> HIDE DEF F
    <3>7. f[x] + (f[y] + r) = f[y] + (f[x] + r)
      BY <3>4, <3>6
    <3>8. QED
      BY <3>5, <3>7, Zenon
  <2>5. QED
    BY <2>3, <2>4, Zenon
<1>3. \A s \in SUBSET D : s \in P
  <2> HIDE DEF P
  <2>1. QED
    BY <1>1, <1>2, SubsetInduction, Zenon
<1>4. QED
  BY <1>3, Zenon

-----------------------------------------------------------------------------
(* Totals *)

\* The total of whole numbers is a whole number.
LEMMA TotalType ==
  ASSUME NEW f, IsFiniteSet(DOMAIN f), \A x \in DOMAIN f : f[x] \in Int
  PROVE  total(f) \in Int
  BY SumsType, TotalIsSum, Zenon

\* Adding an entry adds its value.
LEMMA TotalAdd ==
  ASSUME NEW f, NEW D, DOMAIN f = D, IsFiniteSet(D), \A x \in D : f[x] \in Int,
         NEW g, NEW z, z \notin D, DOMAIN g = D \cup {z}, g[z] \in Int,
         \A x \in D : g[x] = f[x]
  PROVE  total(g) = total(f) + g[z]
<1> DEFINE E == D \cup {z}
<1>1. IsFiniteSet(E)
  BY FS_AddElement, Zenon
<1>2. D \in SUBSET E /\ E \ {z} = D /\ z \in E /\ E \in SUBSET E /\ D \in SUBSET D
  BY Zenon
<1>3. \A x \in E : g[x] \in Int
  BY Zenon
<1> HIDE DEF E
<1>4. sums(g, E)[E] = g[z] + sums(g, E)[D]
  <2>1. sums(g, E)[E] = g[z] + sums(g, E)[E \ {z}]
    BY <1>1, <1>2, <1>3, SumsRemove, Zenon
  <2>2. QED
    BY <1>2, <2>1, Zenon
<1>5. sums(f, D)[D] = sums(g, E)[D]
  <2>1. \A x \in D : f[x] = g[x]
    BY Zenon
  <2>2. QED
    BY <1>1, <1>2, <2>1, SumsAgree
<1>6. total(f) = sums(f, D)[D] /\ total(g) = sums(g, E)[E]
  BY TotalIsSum, Zenon DEF E
<1>7. sums(f, D)[D] \in Int
  BY <1>2, SumsType, Zenon
<1>8. QED
  BY <1>4, <1>5, <1>6, <1>7

\* Changing one entry changes the total by the difference.
LEMMA TotalChange ==
  ASSUME NEW D, IsFiniteSet(D), NEW f, NEW g, DOMAIN f = D, DOMAIN g = D, NEW z \in D,
         \A x \in D : f[x] \in Int /\ g[x] \in Int,
         \A x \in D \ {z} : g[x] = f[x]
  PROVE  total(g) = total(f) + g[z] - f[z]
<1> DEFINE E == D \ {z}
<1>1. E \in SUBSET D /\ D \in SUBSET D /\ E \in SUBSET E /\ IsFiniteSet(E)
  BY FS_RemoveElement, Zenon
<1>2. sums(f, D)[D] = f[z] + sums(f, D)[E] /\ sums(g, D)[D] = g[z] + sums(g, D)[E]
  <2>1. \A x \in D : f[x] \in Int
    BY Zenon
  <2>2. \A x \in D : g[x] \in Int
    BY Zenon
  <2>3. sums(f, D)[D] = f[z] + sums(f, D)[E]
    BY <2>1, SumsRemove, Zenon
  <2>4. sums(g, D)[D] = g[z] + sums(g, D)[E]
    BY <2>2, SumsRemove, ZenonT(40)
  <2>5. QED
    BY <2>3, <2>4, Zenon
<1>3. sums(f, D)[E] = sums(g, D)[E] /\ sums(f, D)[E] \in Int
  <2>1. (\A x \in E : f[x] = f[x]) /\ (\A x \in E : f[x] = g[x])
    BY Zenon
  <2> HIDE DEF E
  <2>2. sums(f, E)[E] = sums(f, D)[E]
    BY <1>1, <2>1, SumsAgree
  <2>3. sums(f, E)[E] = sums(g, D)[E]
    BY <1>1, <2>1, SumsAgree
  <2>4. QED
    BY <1>1, <2>2, <2>3, SumsType, Zenon
<1>4. total(f) = sums(f, D)[D] /\ total(g) = sums(g, D)[D]
  BY TotalIsSum, Zenon
<1> HIDE DEF E
<1>5. QED
  BY <1>2, <1>3, <1>4

\* Entries that are 0 add nothing.
LEMMA TotalPad ==
  ASSUME NEW E, IsFiniteSet(E), NEW D, D \subseteq E, NEW f, f \in [D -> Int],
         NEW g, g \in [E -> Int], \A x \in D : g[x] = f[x], \A x \in E \ D : g[x] = 0
  PROVE  total(g) = total(f)
<1>0. PICK R : R = E \ D
  BY Zenon
<1> DEFINE part(s) == [x \in D \cup s |-> g[x]]
           P == {s \in SUBSET R : total(part(s)) = total(f)}
<1>1. IsFiniteSet(R)
  BY <1>0, FS_Difference, Zenon
<1>2. {} \in P
  <2>1. part({}) = f
    BY Zenon
  <2>2. QED
    BY <2>1, Zenon
<1>3. ASSUME NEW s \in SUBSET R, s # {}, \A y \in s : s \ {y} \in P PROVE s \in P
  <2>1. PICK z \in s : TRUE
    BY <1>3, Zenon
  <2>2. PICK t : t = s \ {z}
    BY Zenon
  <2>3. PICK F : F = part(t)
    BY Zenon
  <2>4. PICK G : G = part(s)
    BY Zenon
  <2>5. /\ DOMAIN F = D \cup t /\ \A x \in D \cup t : F[x] \in Int /\ F[x] = G[x]
        /\ z \notin D \cup t
    <3>1. z \notin D \cup t /\ D \cup t \subseteq D \cup s /\ D \cup t \subseteq E
      BY <1>0, <2>2, Zenon
    <3>2. DOMAIN F = D \cup t /\ \A x \in D \cup t : F[x] = g[x]
      BY <2>3, Zenon
    <3>3. \A x \in D \cup s : G[x] = g[x]
      BY <2>4, Zenon
    <3>4. \A x \in D \cup t : g[x] \in Int
      BY <3>1, Zenon
    <3>5. \A x \in D \cup t : F[x] = G[x]
      BY <3>1, <3>2, <3>3, Zenon
    <3>6. QED
      BY <3>1, <3>2, <3>4, <3>5, Zenon
  <2>6. DOMAIN G = (D \cup t) \cup {z} /\ G[z] = 0
    <3>1. D \cup s = (D \cup t) \cup {z}
      BY <2>2, Zenon
    <3>2. DOMAIN G = D \cup s /\ G[z] = g[z]
      BY <2>4, Zenon
    <3>3. g[z] = 0
      BY <1>0, Zenon
    <3>4. QED
      BY <3>1, <3>2, <3>3, Zenon
  <2>7. IsFiniteSet(D \cup t)
    <3>1. D \cup t \in SUBSET E
      BY <1>0, <2>2, Zenon
    <3>2. QED
      BY <3>1, FS_Subset, Zenon
  <2>8. total(G) = total(F) + G[z]
    <3>1. G[z] \in Int
      BY <2>6
    <3>2. QED
      BY <3>1, <2>5, <2>6, <2>7, TotalAdd
  <2>9. total(F) \in Int
    BY <2>5, <2>7, TotalType, Zenon
  <2>10. total(F) = total(f)
    BY <1>3, <2>2, <2>3, Zenon
  <2>11. total(G) = total(f)
    BY <2>6, <2>8, <2>9, <2>10
  <2>12. QED
    BY <2>4, <2>11, Zenon
<1>4. \A s \in SUBSET R : s \in P
  <2> HIDE DEF P
  <2>1. QED
    BY <1>1, <1>2, <1>3, SubsetInduction, Zenon
<1>5. total(part(R)) = total(f)
  BY <1>4, Zenon
<1>6. part(R) = g
  <2>1. D \cup R = E
    BY <1>0, Zenon
  <2>2. QED
    BY <2>1, Zenon
<1>7. QED
  BY <1>5, <1>6, Zenon

\* The total of nothing is 0,
LEMMA TotalEmpty ==
  ASSUME NEW f, DOMAIN f = {}
  PROVE  total(f) = 0
<1>1. IsFiniteSet({})
  BY FS_EmptySet, Zenon
<1>2. sums(f, {})[{}] = 0
  BY <1>1, SumsEmpty, Zenon
<1> QED BY <1>2, TotalIsSum, Zenon

\* and so is that of zeros.
LEMMA TotalZero ==
  ASSUME NEW E, IsFiniteSet(E), NEW g, g \in [E -> {0}]
  PROVE  total(g) = 0
<1>1. DOMAIN g = E /\ \A x \in E : g[x] = 0
  BY SMT
<1> DEFINE P == {s \in SUBSET E : sums(g, E)[s] = 0}
<1>2. {} \in P
  BY SumsEmpty, Zenon
<1>3. ASSUME NEW s \in SUBSET E, s # {}, \A y \in s : s \ {y} \in P
      PROVE  s \in P
  <2>1. PICK x \in s : x = first(s)
    BY <1>3, Zenon DEF first
  <2>2. sums(g, E)[s] = g[x] + sums(g, E)[s \ {x}]
    BY <1>3, <2>1, SumsStep
  <2>3. g[x] = 0 /\ sums(g, E)[s \ {x}] = 0
    BY <1>1, <1>3, Zenon
  <2>4. sums(g, E)[s] = 0
    BY <2>2, <2>3, SMT
  <2> QED BY <2>4, Zenon
<1>4. \A s \in SUBSET E : s \in P
  <2> HIDE DEF P
  <2> QED BY <1>2, <1>3, SubsetInduction, Zenon
<1>5. sums(g, E)[E] = 0
  BY <1>4, Zenon
<1> QED BY <1>1, <1>5, TotalIsSum, Zenon

\* No value exceeds the total when none is negative.
LEMMA TotalBounds ==
  ASSUME NEW f, IsFiniteSet(DOMAIN f), \A x \in DOMAIN f : f[x] \in Nat, NEW z \in DOMAIN f
  PROVE  f[z] <= total(f)
<1>1. PICK D : D = DOMAIN f
  BY Zenon
<1>2. IsFiniteSet(D) /\ (\A x \in D : f[x] \in Int) /\ D \ {z} \in SUBSET D
  <2>1. \A x \in D : f[x] \in Nat
    BY <1>1, Zenon
  <2>2. \A x \in D : f[x] \in Int
    BY <2>1
  <2>3. QED
    BY <1>1, <2>2, Zenon
<1> DEFINE P == {s \in SUBSET D : sums(f, D)[s] \in Nat}
<1>3. {} \in P
  <2>1. sums(f, D)[{}] = 0
    BY <1>2, SumsEmpty, Zenon
  <2>2. sums(f, D)[{}] \in Nat
    BY <2>1
  <2>3. QED
    BY <2>2, Zenon
<1>4. ASSUME NEW s \in SUBSET D, s # {}, \A y \in s : s \ {y} \in P PROVE s \in P
  <2>1. PICK x \in s : x = first(s)
    BY <1>4, Zenon DEF first
  <2>2. sums(f, D)[s] = f[x] + sums(f, D)[s \ {x}]
    BY <1>2, <1>4, <2>1, SumsStep
  <2>3. f[x] \in Nat /\ sums(f, D)[s \ {x}] \in Nat
    BY <1>1, <1>4, Zenon
  <2>4. QED
    BY <2>2, <2>3
<1>5. \A s \in SUBSET D : s \in P
  <2> HIDE DEF P
  <2>1. QED
    BY <1>2, <1>3, <1>4, SubsetInduction, Zenon
<1>6. sums(f, D)[D] = f[z] + sums(f, D)[D \ {z}]
  <2>1. IsFiniteSet(D) /\ (\A x \in D : f[x] \in Int) /\ z \in D
    BY <1>1, <1>2, Zenon
  <2>2. QED
    BY <2>1, SumsRemove, Zenon
<1>7. sums(f, D)[D \ {z}] \in Nat /\ f[z] \in Nat
  BY <1>2, <1>5, Zenon
<1>8. total(f) = sums(f, D)[D]
  BY <1>1, TotalIsSum, Zenon
<1>9. QED
  BY <1>6, <1>7, <1>8
=============================================================================
