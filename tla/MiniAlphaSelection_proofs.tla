---------------------- MODULE MiniAlphaSelection_proofs ----------------------
(***************************************************************************)
(* The search finds a legal selection whenever there is one, and the       *)
(* cheapest: the property of MiniAlphaSelection, for every number of       *)
(* candidates and slots and every pool.                                    *)
(*                                                                         *)
(* The argument has three parts.  The order of the search is a listing of  *)
(* the slots (AscendingExists).  What an assignment costs is the sum of    *)
(* what its choices cost when they are made, and what is still to be spent *)
(* depends on the set chosen so far and not on which slot it serves        *)
(* (PenaltyIsSpent): so a memo that is kept by set loses nothing.  And of  *)
(* the steps of the search two invariants: SearchInv, the open calls stand *)
(* on legal choices and what was found is legal at its cost, and ExactInv, *)
(* what is closed or already tried holds nothing cheaper than what was     *)
(* found.                                                                  *)
(*                                                                         *)
(* Sums and listings are recursive functions of sets; what they return is  *)
(* shown by a smallest set where it would fail (SmallestExists), which     *)
(* takes the place of induction over data.                                 *)
(***************************************************************************)
EXTENDS MiniAlphaSelection, FiniteSetTheorems, SequenceTheorems, TLAPS

-----------------------------------------------------------------------------
(* Sums over finite sets.  A sum is a recursive function of the subsets;    *)
(* Total is its value, of any function that has numbers for the elements.   *)

(* Among the subsets of a finite set that are of some kind is a smallest: *)
(* what the library's induction over finite sets says, for a set of sets. *)
LEMMA SmallestExists ==
  ASSUME NEW S, IsFiniteSet(S), NEW Kind \in SUBSET SUBSET S, Kind # {}
  PROVE  \E U \in Kind : \A V \in Kind : V \subseteq U => V = U
<1> DEFINE R == StrictSubsetOrdering(S)
<1>1. IsWellFoundedOn(R, SUBSET S)
  <2>1. FiniteSubsetsOf(S) = SUBSET S
    BY FS_FiniteSubsetsOfFinite
  <2>2. IsWellFoundedOn(R, FiniteSubsetsOf(S))
    BY FS_StrictSubsetOrderingWellFounded
  <2> QED BY <2>1, <2>2
<1>2. PICK U \in Kind : \A V \in Kind : <<V, U>> \notin R
  <2> HIDE DEF R
  <2> QED BY <1>1, WFMin
<1>3. ASSUME NEW V \in Kind, V \subseteq U, V # U
      PROVE  FALSE
  BY <1>2, <1>3 DEF StrictSubsetOrdering
<1> QED BY <1>3

Sums(f, g, K) ==
  g = [s \in SUBSET K |->
         IF s = {} THEN 0
         ELSE f[CHOOSE x \in s : TRUE] + g[s \ {CHOOSE x \in s : TRUE}]]

AddsUp(f, G, K) ==
  /\ G[{}] = 0
  /\ \A s \in SUBSET K : \A x \in s : G[s] = f[x] + G[s \ {x}]

Total(f, K) == (CHOOSE g : Sums(f, g, K))[K]

LEMMA SumIs ==
  ASSUME NEW K, IsFiniteSet(K), NEW f, NEW G \in [SUBSET K -> Int], AddsUp(f, G, K)
  PROVE  Total(f, K) = G[K]
<1>1. /\ G[{}] = 0
      /\ \A s \in SUBSET K : \A x \in s : G[s] = f[x] + G[s \ {x}]
  BY DEF AddsUp
<1>2. Sums(f, G, K)
  <2>1. G = [s \in SUBSET K |-> G[s]]
    OBVIOUS
  <2>2. ASSUME NEW s \in SUBSET K
        PROVE  G[s] = IF s = {} THEN 0
                      ELSE f[CHOOSE x \in s : TRUE] + G[s \ {CHOOSE x \in s : TRUE}]
    <3>1. s # {} => (CHOOSE x \in s : TRUE) \in s
      OBVIOUS
    <3> QED BY <1>1, <3>1
  <2> QED BY <2>1, <2>2 DEF Sums
<1>3. ASSUME NEW g, Sums(f, g, K)
      PROVE  g = G
  <2>1. /\ g = [s \in SUBSET K |-> g[s]]
        /\ g[{}] = 0
        /\ \A s \in SUBSET K : s # {} =>
             g[s] = f[CHOOSE x \in s : TRUE] + g[s \ {CHOOSE x \in s : TRUE}]
    BY <1>3 DEF Sums
  <2> DEFINE Differ == {s \in SUBSET K : g[s] # G[s]}
  <2>2. Differ = {}
    <3>1. SUFFICES ASSUME Differ # {}
                   PROVE  FALSE
      OBVIOUS
    <3>2. Differ \in SUBSET SUBSET K
      OBVIOUS
    <3>3. PICK U \in Differ : \A V \in Differ : V \subseteq U => V = U
      <4> HIDE DEF Differ
      <4> QED BY <3>1, <3>2, SmallestExists
    <3>4. U \in SUBSET K /\ g[U] # G[U] /\ U # {}
      BY <1>1, <2>1
    <3> DEFINE x == CHOOSE x \in U : TRUE
    <3>5. x \in U
      BY <3>4
    <3>6. g[U] = f[x] + g[U \ {x}]
      BY <2>1, <3>4
    <3> HIDE DEF x
    <3>7. U \ {x} \in SUBSET K /\ U \ {x} \notin Differ
      BY <3>3, <3>4, <3>5
    <3>8. g[U \ {x}] = G[U \ {x}]
      BY <3>7
    <3> QED BY <1>1, <3>4, <3>5, <3>6, <3>8
  <2>3. \A s \in SUBSET K : g[s] = G[s]
    BY <2>2
  <2>4. G = [s \in SUBSET K |-> G[s]]
    OBVIOUS
  <2> QED BY <2>1, <2>3, <2>4
<1>4. (CHOOSE g : Sums(f, g, K)) = G
  BY <1>2, <1>3
<1> QED BY <1>4 DEF Total

(* The order of adding does not matter: of a smallest set that has no sum, *)
(* adding one element to a sum of the rest makes a sum.                    *)
Numbers(f, K) == IsFiniteSet(K) /\ \A x \in K : f[x] \in Nat

HasSum(f, K) == \E G \in [SUBSET K -> Nat] : AddsUp(f, G, K)

LEMMA SumExists ==
  ASSUME NEW K, NEW f, Numbers(f, K)
  PROVE  HasSum(f, K)
<1>0. IsFiniteSet(K) /\ \A x \in K : f[x] \in Nat
  BY DEF Numbers
<1> DEFINE Without == {s \in SUBSET K : ~HasSum(f, s)}
<1>1. SUFFICES ASSUME Without # {}
               PROVE  FALSE
  OBVIOUS
<1>2. PICK U \in Without : \A V \in Without : V \subseteq U => V = U
  <2>1. Without \in SUBSET SUBSET K
    OBVIOUS
  <2> HIDE DEF Without
  <2> QED BY <1>0, <1>1, <2>1, SmallestExists
<1>3. U \in SUBSET K /\ ~HasSum(f, U)
  OBVIOUS
<1>4. CASE U = {}
  <2> DEFINE G == [s \in SUBSET {} |-> 0]
  <2>1. G \in [SUBSET {} -> Nat] /\ AddsUp(f, G, {})
    BY DEF AddsUp
  <2> QED BY <1>3, <1>4, <2>1 DEF HasSum
<1>5. CASE U # {}
  <2>1. PICK x \in U : TRUE
    BY <1>5
  <2> DEFINE V == U \ {x}
  <2>2. V \in SUBSET K /\ V \subseteq U /\ V # U
    BY <1>3, <2>1
  <2>3. HasSum(f, V)
    BY <1>2, <2>2
  <2>4. PICK H \in [SUBSET V -> Nat] : AddsUp(f, H, V)
    BY <2>3 DEF HasSum
  <2>5. /\ H[{}] = 0
        /\ \A s \in SUBSET V : \A y \in s : H[s] = f[y] + H[s \ {y}]
    BY <2>4 DEF AddsUp
  <2> DEFINE G == [s \in SUBSET U |-> IF x \in s THEN f[x] + H[s \ {x}] ELSE H[s]]
  <2>6. \A s \in SUBSET U : s \ {x} \in SUBSET V /\ (x \notin s => s \in SUBSET V)
    OBVIOUS
  <2>7. f[x] \in Nat /\ \A s \in SUBSET V : H[s] \in Nat
    BY <1>0, <1>3
  <2>8. G \in [SUBSET U -> Nat]
    BY <2>6, <2>7
  <2>9. G[{}] = 0
    BY <2>5
  <2>10. ASSUME NEW s \in SUBSET U, NEW y \in s
         PROVE  G[s] = f[y] + G[s \ {y}]
    <3>1. CASE y = x
      <4>1. G[s] = f[x] + H[s \ {x}]
        BY <3>1
      <4>2. G[s \ {x}] = H[s \ {x}]
        OBVIOUS
      <4> QED BY <3>1, <4>1, <4>2
    <3>2. CASE y # x /\ x \in s
      <4>1. G[s] = f[x] + H[s \ {x}]
        BY <3>2
      <4>2. G[s \ {y}] = f[x] + H[(s \ {y}) \ {x}]
        BY <3>2
      <4>3. s \ {x} \in SUBSET V /\ y \in s \ {x}
        BY <2>6, <3>2
      <4>4. H[s \ {x}] = f[y] + H[(s \ {x}) \ {y}]
        BY <2>5, <4>3
      <4> DEFINE rest == (s \ {x}) \ {y}
      <4>5. (s \ {y}) \ {x} = rest /\ rest \in SUBSET V
        BY <4>3
      <4>6. f[y] \in Nat /\ H[rest] \in Nat
        BY <1>0, <1>3, <2>7, <4>5
      <4>7. G[s \ {y}] = f[x] + H[rest] /\ H[s \ {x}] = f[y] + H[rest]
        BY <4>2, <4>4, <4>5
      <4> HIDE DEF G, V, rest
      <4> QED BY <2>7, <4>1, <4>6, <4>7
    <3>3. CASE x \notin s
      <4>1. G[s] = H[s] /\ G[s \ {y}] = H[s \ {y}]
        BY <3>3
      <4>2. s \in SUBSET V
        BY <2>6, <3>3
      <4> HIDE DEF G, V
      <4> QED BY <2>5, <4>1, <4>2
    <3> QED BY <3>1, <3>2, <3>3
  <2>11. AddsUp(f, G, U)
    <3> HIDE DEF G
    <3> QED BY <2>9, <2>10 DEF AddsUp
  <2> HIDE DEF G
  <2> QED BY <1>3, <2>8, <2>11 DEF HasSum
<1> QED BY <1>4, <1>5

LEMMA TotalFacts ==
  ASSUME NEW K, NEW f, Numbers(f, K)
  PROVE  /\ Total(f, K) \in Nat
         /\ \A x \in K : Total(f, K) = f[x] + Total(f, K \ {x})
         /\ \A s \in SUBSET K : Numbers(f, s)
<1>1. IsFiniteSet(K) /\ \A x \in K : f[x] \in Nat
  BY DEF Numbers
<1>2. PICK G \in [SUBSET K -> Nat] : AddsUp(f, G, K)
  BY SumExists DEF HasSum
<1>3. /\ G[{}] = 0
      /\ \A s \in SUBSET K : \A x \in s : G[s] = f[x] + G[s \ {x}]
  BY <1>2 DEF AddsUp
<1>4. ASSUME NEW L \in SUBSET K
      PROVE  Total(f, L) = G[L]
  <2> DEFINE H == [s \in SUBSET L |-> G[s]]
  <2>1. H \in [SUBSET L -> Int]
    OBVIOUS
  <2>2. AddsUp(f, H, L)
    BY <1>3 DEF AddsUp
  <2>3. IsFiniteSet(L) /\ H[L] = G[L]
    BY <1>1, FS_Subset
  <2> HIDE DEF H
  <2> QED BY <2>1, <2>2, <2>3, SumIs
<1>5. Total(f, K) \in Nat
  BY <1>4
<1>6. ASSUME NEW x \in K
      PROVE  Total(f, K) = f[x] + Total(f, K \ {x})
  <2>1. K \ {x} \in SUBSET K /\ K \in SUBSET K
    OBVIOUS
  <2> QED BY <1>3, <1>4, <2>1
<1>7. \A s \in SUBSET K : Numbers(f, s)
  BY <1>1, FS_Subset DEF Numbers
<1> QED BY <1>5, <1>6, <1>7

LEMMA TotalOfNone ==
  ASSUME NEW f
  PROVE  Total(f, {}) = 0
<1> DEFINE G == [s \in SUBSET {} |-> 0]
<1>1. G \in [SUBSET {} -> Int] /\ AddsUp(f, G, {}) /\ G[{}] = 0
  BY DEF AddsUp
<1> HIDE DEF G
<1> QED BY <1>1, SumIs, FS_EmptySet

(* What a sum is, shown by a function that adds up the same way. *)
LEMMA TotalIs ==
  ASSUME NEW K, IsFiniteSet(K), NEW f, NEW G, \A s \in SUBSET K : G[s] \in Int,
         AddsUp(f, G, K)
  PROVE  Total(f, K) = G[K]
<1> DEFINE H == [s \in SUBSET K |-> G[s]]
<1>1. H \in [SUBSET K -> Int] /\ H[K] = G[K]
  OBVIOUS
<1>2. AddsUp(f, H, K)
  BY DEF AddsUp
<1> HIDE DEF H
<1> QED BY <1>1, <1>2, SumIs

Image(h, s) == {h[x] : x \in s}
OneToOne(h, K) == \A x, y \in K : h[x] = h[y] => x = y

LEMMA TotalMoved ==
  ASSUME NEW K, IsFiniteSet(K), NEW h, OneToOne(h, K), NEW f, NEW g, Numbers(g, Image(h, K)),
         \A x \in K : f[x] = g[h[x]]
  PROVE  Total(f, K) = Total(g, Image(h, K))
<1> DEFINE G == [s \in SUBSET K |-> Total(g, Image(h, s))]
<1>1. \A s \in SUBSET K : Image(h, s) \in SUBSET Image(h, K)
  BY DEF Image
<1>2. \A s \in SUBSET K : Numbers(g, Image(h, s)) /\ Total(g, Image(h, s)) \in Nat
  BY <1>1, TotalFacts
<1>3. \A s \in SUBSET K : G[s] \in Int
  BY <1>2
<1>4. G[{}] = 0
  <2>1. Image(h, {}) = {}
    BY DEF Image
  <2> QED BY <2>1, TotalOfNone
<1>5. ASSUME NEW s \in SUBSET K, NEW x \in s
      PROVE  G[s] = f[x] + G[s \ {x}]
  <2>1. Image(h, s \ {x}) = Image(h, s) \ {h[x]} /\ h[x] \in Image(h, s)
    BY DEF Image, OneToOne
  <2>2. Total(g, Image(h, s)) = g[h[x]] + Total(g, Image(h, s) \ {h[x]})
    BY <1>2, <2>1, TotalFacts
  <2>3. G[s] = Total(g, Image(h, s)) /\ G[s \ {x}] = Total(g, Image(h, s \ {x}))
    OBVIOUS
  <2>4. f[x] = g[h[x]]
    OBVIOUS
  <2> HIDE DEF G
  <2> QED BY <2>1, <2>2, <2>3, <2>4
<1>6. G[K] = Total(g, Image(h, K))
  OBVIOUS
<1> HIDE DEF G
<1>7. AddsUp(f, G, K)
  BY <1>4, <1>5 DEF AddsUp
<1> QED BY <1>3, <1>6, <1>7, TotalIs

LEMMA TotalSame ==
  ASSUME NEW K, NEW f, NEW g, Numbers(g, K), \A x \in K : f[x] = g[x]
  PROVE  Total(f, K) = Total(g, K)
<1> DEFINE h == [x \in K |-> x]
<1>1. Image(h, K) = K /\ OneToOne(h, K) /\ \A x \in K : h[x] = x
  BY DEF Image, OneToOne
<1>2. IsFiniteSet(K)
  BY DEF Numbers
<1> HIDE DEF h
<1> QED BY <1>1, <1>2, TotalMoved

LEMMA TotalOfBoth ==
  ASSUME NEW A, NEW B, A \cap B = {}, NEW f, Numbers(f, A \cup B)
  PROVE  Total(f, A \cup B) = Total(f, A) + Total(f, B)
<1> DEFINE G == [s \in SUBSET B |-> Total(f, A \cup s) - Total(f, A)]
<1>1. Numbers(f, A) /\ Numbers(f, B) /\ \A s \in SUBSET B : Numbers(f, A \cup s)
  <2>1. A \in SUBSET (A \cup B) /\ B \in SUBSET (A \cup B)
    OBVIOUS
  <2>2. \A s \in SUBSET B : A \cup s \in SUBSET (A \cup B)
    OBVIOUS
  <2> QED BY <2>1, <2>2, TotalFacts
<1>2. Total(f, A) \in Nat /\ \A s \in SUBSET B : Total(f, A \cup s) \in Nat
  BY <1>1, TotalFacts
<1>3. \A s \in SUBSET B : G[s] \in Int
  BY <1>2
<1>4. G[{}] = 0
  <2>1. A \cup {} = A
    OBVIOUS
  <2>2. G[{}] = Total(f, A \cup {}) - Total(f, A)
    OBVIOUS
  <2> HIDE DEF G
  <2> QED BY <1>2, <2>1, <2>2
<1>5. ASSUME NEW s \in SUBSET B, NEW x \in s
      PROVE  G[s] = f[x] + G[s \ {x}]
  <2>1. (A \cup s) \ {x} = A \cup (s \ {x}) /\ x \in A \cup s
    OBVIOUS
  <2>2. Total(f, A \cup s) = f[x] + Total(f, (A \cup s) \ {x})
    BY <1>1, <2>1, TotalFacts
  <2>3. f[x] \in Nat
    BY DEF Numbers
  <2>4. s \ {x} \in SUBSET B
    OBVIOUS
  <2>5. /\ G[s] = Total(f, A \cup s) - Total(f, A)
        /\ G[s \ {x}] = Total(f, A \cup (s \ {x})) - Total(f, A)
    OBVIOUS
  <2> DEFINE rest == Total(f, A \cup (s \ {x}))
  <2>6. rest \in Nat /\ Total(f, A \cup s) = f[x] + rest
    BY <1>2, <2>1, <2>2, <2>4
  <2> HIDE DEF G, rest
  <2> QED BY <1>2, <2>3, <2>5, <2>6 DEF rest
<1>6. G[B] = Total(f, A \cup B) - Total(f, A)
  OBVIOUS
<1> HIDE DEF G
<1>7. AddsUp(f, G, B)
  BY <1>4, <1>5 DEF AddsUp
<1>8. IsFiniteSet(B) /\ Total(f, A \cup B) \in Nat
  BY <1>1, <1>2 DEF Numbers
<1>9. Total(f, B) = G[B]
  BY <1>3, <1>7, <1>8, TotalIs
<1> QED BY <1>2, <1>6, <1>8, <1>9

LEMMA TotalAdded ==
  ASSUME NEW K, NEW f, NEW g, NEW e, Numbers(f, K), Numbers(g, K),
         \A x \in K : e[x] = f[x] + g[x]
  PROVE  Total(e, K) = Total(f, K) + Total(g, K)
<1> DEFINE G == [s \in SUBSET K |-> Total(f, s) + Total(g, s)]
<1>1. \A s \in SUBSET K : Numbers(f, s) /\ Numbers(g, s)
  BY TotalFacts
<1>2. \A s \in SUBSET K : Total(f, s) \in Nat /\ Total(g, s) \in Nat
  BY <1>1, TotalFacts
<1>3. \A s \in SUBSET K : G[s] \in Int
  BY <1>2
<1>4. G[{}] = 0
  BY TotalOfNone
<1>5. ASSUME NEW s \in SUBSET K, NEW x \in s
      PROVE  G[s] = e[x] + G[s \ {x}]
  <2>1. /\ Total(f, s) = f[x] + Total(f, s \ {x})
        /\ Total(g, s) = g[x] + Total(g, s \ {x})
    BY <1>1, TotalFacts
  <2>2. f[x] \in Nat /\ g[x] \in Nat /\ e[x] = f[x] + g[x]
    BY DEF Numbers
  <2>3. /\ G[s] = Total(f, s) + Total(g, s)
        /\ G[s \ {x}] = Total(f, s \ {x}) + Total(g, s \ {x})
    OBVIOUS
  <2>4. Total(f, s \ {x}) \in Nat /\ Total(g, s \ {x}) \in Nat
    BY <1>2
  <2> HIDE DEF G
  <2> QED BY <2>1, <2>2, <2>3, <2>4
<1>6. G[K] = Total(f, K) + Total(g, K)
  OBVIOUS
<1> HIDE DEF G
<1>7. AddsUp(e, G, K)
  BY <1>4, <1>5 DEF AddsUp
<1>8. IsFiniteSet(K)
  BY DEF Numbers
<1> QED BY <1>3, <1>6, <1>7, <1>8, TotalIs

(* A sum is the sum of the sums of the classes. *)
Class(S, key, k) == {x \in S : key[x] = k}

LEMMA TotalGrouped ==
  ASSUME NEW S, NEW f, Numbers(f, S), NEW K, IsFiniteSet(K), NEW key,
         \A x \in S : key[x] \in K,
         NEW F, \A k \in K : F[k] = Total(f, Class(S, key, k))
  PROVE  Total(f, S) = Total(F, K)
<1> DEFINE within(s) == {x \in S : key[x] \in s}
           G == [s \in SUBSET K |-> Total(f, within(s))]
<1>1. \A s : within(s) \in SUBSET S
  OBVIOUS
<1>2. \A s : Numbers(f, within(s)) /\ Total(f, within(s)) \in Nat
  <2> HIDE DEF within
  <2> QED BY <1>1, TotalFacts
<1>3. \A s \in SUBSET K : G[s] \in Int
  <2> HIDE DEF within
  <2> QED BY <1>2
<1>4. G[{}] = 0
  <2>1. within({}) = {}
    OBVIOUS
  <2>2. G[{}] = Total(f, within({}))
    OBVIOUS
  <2> HIDE DEF G, within
  <2> QED BY <2>1, <2>2, TotalOfNone
<1>5. ASSUME NEW s \in SUBSET K, NEW k \in s
      PROVE  G[s] = F[k] + G[s \ {k}]
  <2> DEFINE C == Class(S, key, k)
             W == within(s \ {k})
  <2>1. within(s) = C \cup W /\ C \cap W = {}
    BY DEF Class
  <2>2. G[s] = Total(f, within(s)) /\ G[s \ {k}] = Total(f, W) /\ F[k] = Total(f, C)
    OBVIOUS
  <2>3. Numbers(f, C \cup W)
    BY <1>2, <2>1
  <2> HIDE DEF C, W, G, within
  <2> QED BY <2>1, <2>2, <2>3, TotalOfBoth
<1>6. G[K] = Total(f, S)
  <2>1. within(K) = S
    OBVIOUS
  <2> QED BY <2>1
<1> HIDE DEF G
<1>7. AddsUp(F, G, K)
  BY <1>4, <1>5 DEF AddsUp
<1> QED BY <1>3, <1>6, <1>7, TotalIs

-----------------------------------------------------------------------------
(* The sorted lists.  A finite set has an enumeration along a strict total  *)
(* order: put each element behind as many as are below it.                  *)

Orders(R, S) ==
  \A x, y, z \in S :
    /\ <<x, x>> \notin R
    /\ x # y => <<x, y>> \in R \/ <<y, x>> \in R
    /\ <<x, y>> \in R /\ <<y, z>> \in R => <<x, z>> \in R

Ascends(q, R) == \A i \in DOMAIN q : \A j \in 1..(i - 1) : <<q[j], q[i]>> \in R

Enumerates(q, S) ==
  /\ q \in [1..Cardinality(S) -> S]
  /\ OneToOne(q, 1..Cardinality(S))
  /\ Image(q, 1..Cardinality(S)) = S

LEMMA AscendingExists ==
  ASSUME NEW S, IsFiniteSet(S), NEW R, Orders(R, S)
  PROVE  \E q \in [1..Cardinality(S) -> S] : Ascends(q, R)
<1> DEFINE below(x) == {y \in S : <<y, x>> \in R}
           n == Cardinality(S)
           pos == [x \in S |-> Cardinality(below(x)) + 1]
<1>0. \A x, y, z \in S :
        /\ <<x, x>> \notin R
        /\ x # y => <<x, y>> \in R \/ <<y, x>> \in R
        /\ <<x, y>> \in R /\ <<y, z>> \in R => <<x, z>> \in R
  BY DEF Orders
<1>1. n \in Nat /\ IsFiniteSet(1..n) /\ Cardinality(1..n) = n
  <2>1. n \in Nat
    BY FS_CardinalityType
  <2> HIDE DEF n
  <2> QED BY <2>1, FS_Interval
<1>2. \A x : IsFiniteSet(below(x)) /\ Cardinality(below(x)) \in Nat
  <2>1. \A x : below(x) \in SUBSET S
    OBVIOUS
  <2> HIDE DEF below
  <2> QED BY <2>1, FS_Subset, FS_CardinalityType
<1>3. ASSUME NEW x \in S, NEW y \in S, <<x, y>> \in R
      PROVE  Cardinality(below(x)) < Cardinality(below(y))
  <2>1. below(x) \in SUBSET below(y)
    BY <1>0, <1>3
  <2>2. x \in below(y) /\ x \notin below(x)
    BY <1>0, <1>3
  <2> HIDE DEF below
  <2>3. /\ Cardinality(below(x)) <= Cardinality(below(y))
        /\ Cardinality(below(x)) # Cardinality(below(y))
    BY <1>2, <2>1, <2>2, FS_Subset
  <2> QED BY <1>2, <2>3
<1>4. ASSUME NEW x \in S
      PROVE  Cardinality(below(x)) < n
  <2>1. below(x) \in SUBSET S /\ x \notin below(x)
    BY <1>0
  <2> HIDE DEF below
  <2>2. Cardinality(below(x)) <= Cardinality(S) /\ Cardinality(below(x)) # Cardinality(S)
    BY <2>1, FS_Subset
  <2> QED BY <1>1, <1>2, <2>2
<1>5. \A x \in S : pos[x] = Cardinality(below(x)) + 1
  OBVIOUS
<1>6. \A x, y \in S : <<x, y>> \in R => pos[x] < pos[y]
  <2> HIDE DEF below, pos
  <2> QED BY <1>2, <1>3, <1>5
<1>7. \A x \in S : pos[x] \in 1..n
  <2> HIDE DEF below, pos, n
  <2> QED BY <1>1, <1>2, <1>4, <1>5
<1>8. pos \in [S -> 1..n]
  <2>1. pos = [x \in S |-> pos[x]]
    OBVIOUS
  <2> HIDE DEF pos
  <2> QED BY <1>7, <2>1
<1> HIDE DEF pos
<1>9. ASSUME NEW x \in S, NEW y \in S, pos[x] = pos[y]
      PROVE  x = y
  <2>1. pos[x] \in Nat /\ ~(pos[x] < pos[y]) /\ ~(pos[y] < pos[x])
    <3>1. pos[x] \in Nat
      <4> HIDE DEF below
      <4> QED BY <1>2, <1>5
    <3> QED BY <1>9, <3>1
  <2>2. <<x, y>> \notin R /\ <<y, x>> \notin R
    BY <1>6, <2>1
  <2> QED BY <1>0, <2>2
<1>10. pos \in Injection(S, 1..n)
  BY <1>8, <1>9 DEF Injection, IsInjective
<1>11. pos \in Surjection(S, 1..n)
  <2>1. Cardinality(S) = Cardinality(1..n)
    BY <1>1
  <2> HIDE DEF n
  <2> QED BY <1>1, <1>10, <2>1, FS_Injection
<1>12. \A i \in 1..n : \E x \in S : pos[x] = i
  BY <1>11 DEF Surjection
<1> DEFINE q == [i \in 1..n |-> CHOOSE x \in S : pos[x] = i]
<1>13. \A i \in 1..n : q[i] \in S /\ pos[q[i]] = i
  BY <1>12
<1>14. q \in [1..n -> S] /\ DOMAIN q = 1..n
  BY <1>13
<1> HIDE DEF q
<1>15. ASSUME NEW i \in 1..n, NEW j \in 1..(i - 1)
       PROVE  <<q[j], q[i]>> \in R
  <2> HIDE DEF n
  <2>1. j \in 1..n /\ j < i
    BY <1>1
  <2>2. q[j] # q[i] /\ <<q[i], q[j]>> \notin R
    BY <1>1, <1>6, <1>13, <2>1
  <2> QED BY <1>0, <1>13, <2>1, <2>2
<1>16. Ascends(q, R)
  BY <1>14, <1>15 DEF Ascends
<1> QED BY <1>14, <1>16

LEMMA AscendingEnumerates ==
  ASSUME NEW S, IsFiniteSet(S), NEW R, Orders(R, S),
         NEW q \in [1..Cardinality(S) -> S], Ascends(q, R)
  PROVE  Enumerates(q, S)
<1> DEFINE n == Cardinality(S)
<1>1. n \in Nat /\ IsFiniteSet(1..n) /\ Cardinality(1..n) = n
  <2>1. n \in Nat
    BY FS_CardinalityType
  <2> HIDE DEF n
  <2> QED BY <2>1, FS_Interval
<1>2. ASSUME NEW i \in 1..n, NEW j \in 1..n, j < i
      PROVE  q[i] # q[j]
  <2>1. j \in 1..(i - 1)
    BY <1>1, <1>2
  <2>2. <<q[j], q[i]>> \in R
    BY <2>1 DEF Ascends
  <2>3. q[i] \in S /\ q[j] \in S
    OBVIOUS
  <2> QED BY <2>2, <2>3 DEF Orders
<1>3. ASSUME NEW i \in 1..n, NEW j \in 1..n, q[i] = q[j]
      PROVE  i = j
  <2>1. ~(i < j) /\ ~(j < i)
    BY <1>2, <1>3
  <2> HIDE DEF n
  <2> QED BY <1>1, <2>1
<1>4. OneToOne(q, 1..n)
  BY <1>3 DEF OneToOne
<1>5. q \in Injection(1..n, S)
  BY <1>3 DEF Injection, IsInjective
<1>6. q \in Surjection(1..n, S)
  <2>1. Cardinality(1..n) = Cardinality(S)
    BY <1>1
  <2> HIDE DEF n
  <2> QED BY <1>5, <2>1, FS_Injection
<1>7. Image(q, 1..n) = S
  BY <1>6 DEF Image, Surjection
<1> QED BY <1>4, <1>7 DEF Enumerates

-----------------------------------------------------------------------------
(* What the search reads of a pool and an order of the slots, as operators  *)
(* of their values.                                                         *)

Fits(p, s) == {c \in Cands : p.profile[c] = p.wanted[s]}

Far(p, c, s) ==
  IF p.itemNo[c] = 0 THEN 0
  ELSE IF p.itemNo[c] < s THEN s - p.itemNo[c] ELSE p.itemNo[c] - s

Overlaps(p, c) == [d \in Cands |-> p.overlap[c][d]]

LEMMA PoolFacts ==
  ASSUME NEW p \in Pools
  PROVE  /\ \A c \in Cands, d \in Cands : p.overlap[c][d] \in Nat
         /\ \A c \in Cands : p.overlap[c][c] = Hard
         /\ \A c \in Cands : p.itemNo[c] \in Nat /\ p.review[c] \in Nat
         /\ \A c \in Cands, s \in Slots : Far(p, c, s) \in Nat
<1>1. p \in Pool /\ \A c \in Cands : p.overlap[c][c] = Hard
  BY PoolsAssumption
<1>2. /\ p.overlap \in [Cands -> [Cands -> Nat]]
      /\ p.itemNo \in [Cands -> Nat] /\ p.review \in [Cands -> Nat]
  BY <1>1 DEF Pool
<1>3. ASSUME NEW c \in Cands, NEW s \in Slots
      PROVE  Far(p, c, s) \in Nat
  <2>1. p.itemNo[c] \in Nat /\ s \in Nat
    BY <1>2, SizesAssumption DEF Slots
  <2> QED BY <2>1 DEF Far
<1>4. ASSUME NEW c \in Cands, NEW d \in Cands
      PROVE  p.overlap[c][d] \in Nat
  BY <1>2
<1> QED BY <1>1, <1>2, <1>3, <1>4

LEMMA Sizes ==
  /\ NumCands \in Nat /\ NumSlots \in Nat \ {0}
  /\ Cands \subseteq Nat /\ Slots \subseteq Nat
  /\ IsFiniteSet(Cands) /\ IsFiniteSet(Slots) /\ Cardinality(Slots) = NumSlots
<1>1. NumCands \in Nat /\ NumSlots \in Nat \ {0}
  BY SizesAssumption
<1> QED BY <1>1, FS_Interval DEF Cands, Slots

LEMMA OverlapsAreNumbers ==
  ASSUME NEW p \in Pools, NEW c \in Cands, NEW K \in SUBSET Cands
  PROVE  Numbers(Overlaps(p, c), K)
<1>1. IsFiniteSet(K)
  BY Sizes, FS_Subset
<1>2. \A d \in K : Overlaps(p, c)[d] \in Nat
  BY PoolFacts DEF Overlaps
<1> QED BY <1>1, <1>2 DEF Numbers

LEMMA OverlapPenaltyIs ==
  ASSUME NEW c \in Cands, NEW selected \in SUBSET Cands, NEW slot \in Slots,
         pool \in Pools
  PROVE  OverlapPenalty(c, selected, slot) =
           IF \E d \in selected : pool.overlap[c][d] = Hard THEN 0
           ELSE Far(pool, c, slot) + Total(Overlaps(pool, c), selected)
<1> DEFINE K == selected
           f == Overlaps(pool, c)
           Body(g) == [s \in SUBSET K |->
             IF s = {} THEN 0
             ELSE pool.overlap[c][CHOOSE x \in s : TRUE] + g[s \ {CHOOSE x \in s : TRUE}]]
           Fold == (CHOOSE g : g = Body(g))[K]
<1>1. OverlapPenalty(c, selected, slot) =
        IF \E d \in selected : pool.overlap[c][d] = Hard THEN 0
        ELSE Far(pool, c, slot) + Fold
  BY DEF OverlapPenalty, Collides, Distance, Far, MapThenSumSet, MapThenFoldSet
<1>2. ASSUME NEW s \in SUBSET K, s # {}
      PROVE  pool.overlap[c][CHOOSE x \in s : TRUE] = f[CHOOSE x \in s : TRUE]
  <2>1. (CHOOSE x \in s : TRUE) \in Cands
    BY <1>2
  <2> QED BY <2>1 DEF Overlaps
<1>3. \A g : (g = Body(g)) <=> Sums(f, g, K)
  <2> HIDE DEF K, f
  <2> QED BY <1>2 DEF Sums
<1>4. Fold = Total(f, K)
  BY <1>3 DEF Total
<1> HIDE DEF Fold
<1> QED BY <1>1, <1>4

LEMMA OverlapPenaltyType ==
  ASSUME NEW c \in Cands, NEW selected \in SUBSET Cands, NEW slot \in Slots,
         pool \in Pools
  PROVE  OverlapPenalty(c, selected, slot) \in Nat
<1>1. Far(pool, c, slot) \in Nat
  BY PoolFacts
<1>2. Total(Overlaps(pool, c), selected) \in Nat
  BY OverlapsAreNumbers, TotalFacts
<1> QED BY <1>1, <1>2, OverlapPenaltyIs

LEMMA BelowTwo ==
  ASSUME NEW a1 \in Nat, NEW a2 \in Nat, NEW b1 \in Nat, NEW b2 \in Nat
  PROVE  Below(<<a1, a2>>, <<b1, b2>>) <=> a1 < b1 \/ (a1 = b1 /\ a2 < b2)
<1> DEFINE a == <<a1, a2>>
           b == <<b1, b2>>
           at(i) == a[i] < b[i] /\ \A j \in 1..(i - 1) : a[j] = b[j]
<1>1. Below(a, b) <=> at(1) \/ at(2)
  <2>1. \A i : i \in DOMAIN a <=> i = 1 \/ i = 2
    OBVIOUS
  <2>2. Below(a, b) <=> \E i \in DOMAIN a : at(i)
    BY DEF Below
  <2> HIDE DEF at, a
  <2> QED BY <2>1, <2>2
<1>2. at(1) <=> a1 < b1
  OBVIOUS
<1>3. at(2) <=> a2 < b2 /\ a1 = b1
  <2>1. \A j : j \in 1..(2 - 1) <=> j = 1
    OBVIOUS
  <2> QED BY <2>1
<1> HIDE DEF at
<1> QED BY <1>1, <1>2, <1>3

LEMMA BelowFour ==
  ASSUME NEW a \in Nat \X Nat \X Nat \X Nat, NEW b \in Nat \X Nat \X Nat \X Nat
  PROVE  Below(a, b) <=>
           \/ a[1] < b[1]
           \/ a[1] = b[1] /\ a[2] < b[2]
           \/ a[1] = b[1] /\ a[2] = b[2] /\ a[3] < b[3]
           \/ a[1] = b[1] /\ a[2] = b[2] /\ a[3] = b[3] /\ a[4] < b[4]
<1> DEFINE at(i) == a[i] < b[i] /\ \A j \in 1..(i - 1) : a[j] = b[j]
<1>1. Below(a, b) <=> at(1) \/ at(2) \/ at(3) \/ at(4)
  <2>1. \A i : i \in DOMAIN a <=> i = 1 \/ i = 2 \/ i = 3 \/ i = 4
    OBVIOUS
  <2>2. Below(a, b) <=> \E i \in DOMAIN a : at(i)
    BY DEF Below
  <2> HIDE DEF at
  <2> QED BY <2>1, <2>2
<1>2. at(1) <=> a[1] < b[1]
  OBVIOUS
<1>3. at(2) <=> a[2] < b[2] /\ a[1] = b[1]
  <2>1. \A j : j \in 1..(2 - 1) <=> j = 1
    OBVIOUS
  <2> QED BY <2>1
<1>4. at(3) <=> a[3] < b[3] /\ a[1] = b[1] /\ a[2] = b[2]
  <2>1. \A j : j \in 1..(3 - 1) <=> j = 1 \/ j = 2
    OBVIOUS
  <2> QED BY <2>1
<1>5. at(4) <=> a[4] < b[4] /\ a[1] = b[1] /\ a[2] = b[2] /\ a[3] = b[3]
  <2>1. \A j : j \in 1..(4 - 1) <=> j = 1 \/ j = 2 \/ j = 3
    OBVIOUS
  <2> QED BY <2>1
<1> HIDE DEF at
<1> QED BY <1>1, <1>2, <1>3, <1>4, <1>5

(* The last part of a key is the candidate's, so no two keys are equal. *)
LEMMA RankedLists ==
  ASSUME NEW selected \in SUBSET Cands, NEW slot \in Slots, pool \in Pools
  PROVE  Enumerates(Ranked(selected, slot), Compatible(slot))
<1> DEFINE S == Compatible(slot)
           k(c) == Key(c, selected, slot)
           R == {pair \in S \X S : Below(k(pair[1]), k(pair[2]))}
<1>1. S \in SUBSET Cands /\ IsFiniteSet(S)
  <2>1. S \in SUBSET Cands
    BY DEF Compatible
  <2> HIDE DEF S
  <2> QED BY <2>1, Sizes, FS_Subset
<1>2. \A c \in S : c \in Nat /\ pool.review[c] \in Nat
                   /\ OverlapPenalty(c, selected, slot) \in Nat /\ Distance(c, slot) \in Nat
  <2> HIDE DEF S
  <2>1. \A c \in Cands : Distance(c, slot) \in Nat
    BY PoolFacts DEF Distance, Far
  <2> QED BY <1>1, <2>1, Sizes, PoolFacts, OverlapPenaltyType
<1>3. \A x, y \in S : <<x, y>> \in R <=> Below(k(x), k(y))
  OBVIOUS
<1> DEFINE r(c) == pool.review[c]
           o(c) == OverlapPenalty(c, selected, slot)
           d(c) == Distance(c, slot)
<1>4. \A x, y \in S : <<x, y>> \in R <=>
           \/ r(x) < r(y)
           \/ r(x) = r(y) /\ o(x) < o(y)
           \/ r(x) = r(y) /\ o(x) = o(y) /\ d(x) < d(y)
           \/ r(x) = r(y) /\ o(x) = o(y) /\ d(x) = d(y) /\ x < y
  <2> HIDE DEF S, R
  <2>1. TAKE x, y \in S
  <2>2. k(x) = <<r(x), o(x), d(x), x>> /\ k(y) = <<r(y), o(y), d(y), y>>
    BY DEF Key
  <2>3. r(x) \in Nat /\ o(x) \in Nat /\ d(x) \in Nat /\ x \in Nat
    BY <1>2
  <2>4. r(y) \in Nat /\ o(y) \in Nat /\ d(y) \in Nat /\ y \in Nat
    BY <1>2
  <2> HIDE DEF r, o, d, k
  <2>5. /\ k(x) \in Nat \X Nat \X Nat \X Nat
        /\ k(x)[1] = r(x) /\ k(x)[2] = o(x) /\ k(x)[3] = d(x) /\ k(x)[4] = x
    BY <2>2, <2>3
  <2>6. /\ k(y) \in Nat \X Nat \X Nat \X Nat
        /\ k(y)[1] = r(y) /\ k(y)[2] = o(y) /\ k(y)[3] = d(y) /\ k(y)[4] = y
    BY <2>2, <2>4
  <2> QED BY <1>3, <2>5, <2>6, BelowFour
<1>5. \A c \in S : r(c) \in Nat /\ o(c) \in Nat /\ d(c) \in Nat /\ c \in Nat
  BY <1>2
<1>6. Orders(R, S)
  <2> HIDE DEF S, R, r, o, d
  <2>1. ASSUME NEW x \in S, NEW y \in S, NEW z \in S
        PROVE  /\ <<x, x>> \notin R
               /\ x # y => <<x, y>> \in R \/ <<y, x>> \in R
               /\ <<x, y>> \in R /\ <<y, z>> \in R => <<x, z>> \in R
    <3>1. r(x) \in Nat /\ o(x) \in Nat /\ d(x) \in Nat /\ x \in Nat
      BY <1>5
    <3>2. r(y) \in Nat /\ o(y) \in Nat /\ d(y) \in Nat /\ y \in Nat
      BY <1>5
    <3>3. r(z) \in Nat /\ o(z) \in Nat /\ d(z) \in Nat /\ z \in Nat
      BY <1>5
    <3>4. <<x, x>> \notin R
      BY <1>4, <3>1
    <3>5. x # y => <<x, y>> \in R \/ <<y, x>> \in R
      BY <1>4, <3>1, <3>2
    <3>6. <<x, y>> \in R /\ <<y, z>> \in R => <<x, z>> \in R
      BY <1>4, <3>1, <3>2, <3>3
    <3> QED BY <3>4, <3>5, <3>6
  <2> QED BY <2>1 DEF Orders
<1> DEFINE Up(q) == \A i \in DOMAIN q : \A j \in 1..(i - 1) : Below(k(q[j]), k(q[i]))
<1>7. Ranked(selected, slot) = CHOOSE q \in [1..Cardinality(S) -> S] : Up(q)
  BY DEF Ranked, Sorted
<1>8. ASSUME NEW q \in [1..Cardinality(S) -> S]
      PROVE  Up(q) <=> Ascends(q, R)
  <2> HIDE DEF S, R, k
  <2>1. Cardinality(S) \in Nat
    BY <1>1, FS_CardinalityType
  <2>2. ASSUME NEW i \in DOMAIN q, NEW j \in 1..(i - 1)
        PROVE  q[j] \in S /\ q[i] \in S
    BY <2>1
  <2> QED BY <1>3, <2>2 DEF Ascends
<1>9. \E q \in [1..Cardinality(S) -> S] : Up(q)
  <2> HIDE DEF S, R, Up
  <2> QED BY <1>1, <1>6, <1>8, AscendingExists
<1> DEFINE it == Ranked(selected, slot)
<1>10. it \in [1..Cardinality(S) -> S] /\ Up(it)
  <2> HIDE DEF S, Up
  <2> QED BY <1>7, <1>9
<1> HIDE DEF S, R, Up, it
<1>11. Enumerates(it, S)
  BY <1>1, <1>6, <1>8, <1>10, AscendingEnumerates
<1> QED BY <1>11 DEF it, S

LEMMA SearchOrderIs ==
  ASSUME pool \in Pools
  PROVE  Enumerates(SearchOrder, Slots)
<1> DEFINE k(s) == <<Cardinality(Compatible(s)), s>>
           R == {pair \in Slots \X Slots : Below(k(pair[1]), k(pair[2]))}
           n(s) == Cardinality(Compatible(s))
<1>1. \A s \in Slots : n(s) \in Nat /\ s \in Nat
  <2>1. \A s : Compatible(s) \in SUBSET Cands
    BY DEF Compatible
  <2> QED BY <2>1, Sizes, FS_Subset, FS_CardinalityType
<1>2. \A x, y \in Slots : <<x, y>> \in R <=> n(x) < n(y) \/ (n(x) = n(y) /\ x < y)
  <2>1. TAKE x, y \in Slots
  <2>2. <<x, y>> \in R <=> Below(<<n(x), x>>, <<n(y), y>>)
    OBVIOUS
  <2> HIDE DEF R, n
  <2> QED BY <1>1, <2>2, BelowTwo
<1>3. Orders(R, Slots)
  <2> HIDE DEF R, n
  <2>1. ASSUME NEW x \in Slots, NEW y \in Slots, NEW z \in Slots
        PROVE  /\ <<x, x>> \notin R
               /\ x # y => <<x, y>> \in R \/ <<y, x>> \in R
               /\ <<x, y>> \in R /\ <<y, z>> \in R => <<x, z>> \in R
    <3>1. n(x) \in Nat /\ x \in Nat /\ n(y) \in Nat /\ y \in Nat /\ n(z) \in Nat /\ z \in Nat
      BY <1>1
    <3> QED BY <1>2, <3>1
  <2> QED BY <2>1 DEF Orders
<1> DEFINE Up(q) == \A i \in DOMAIN q : \A j \in 1..(i - 1) : Below(k(q[j]), k(q[i]))
<1>4. SearchOrder = CHOOSE q \in [1..Cardinality(Slots) -> Slots] : Up(q)
  BY DEF SearchOrder, Sorted
<1>5. ASSUME NEW q \in [1..Cardinality(Slots) -> Slots]
      PROVE  Up(q) <=> Ascends(q, R)
  <2>1. \A x, y \in Slots : <<x, y>> \in R <=> Below(k(x), k(y))
    OBVIOUS
  <2> HIDE DEF R, k
  <2>2. Cardinality(Slots) \in Nat
    BY Sizes
  <2>3. ASSUME NEW i \in DOMAIN q, NEW j \in 1..(i - 1)
        PROVE  q[j] \in Slots /\ q[i] \in Slots
    BY <2>2
  <2> QED BY <2>1, <2>3 DEF Ascends
<1> HIDE DEF R
<1>6. \E q \in [1..Cardinality(Slots) -> Slots] : Up(q)
  <2> HIDE DEF Up
  <2> QED BY <1>3, <1>5, Sizes, AscendingExists
<1>7. SearchOrder \in [1..Cardinality(Slots) -> Slots] /\ Up(SearchOrder)
  <2> HIDE DEF Up
  <2> QED BY <1>4, <1>6
<1> HIDE DEF Up
<1> QED BY <1>3, <1>5, <1>7, Sizes, AscendingEnumerates

-----------------------------------------------------------------------------
(* Choices: b[i] is the candidate for the i-th slot of the order o.  A      *)
(* choice for the first k slots is legal when its candidates fit and do not *)
(* collide with those before them; none is chosen twice then.               *)

InOrder(o) ==
  /\ o \in [1..NumSlots -> Slots]
  /\ OneToOne(o, 1..NumSlots)
  /\ Image(o, 1..NumSlots) = Slots

Before(b, i) == {b[j] : j \in 1..(i - 1)}

Legal(p, o, b, k) ==
  \A i \in 1..k : b[i] \in Fits(p, o[i]) /\ \A j \in 1..(i - 1) : p.overlap[b[i]][b[j]] # Hard

StepCost(p, o, b, i) == Far(p, b[i], o[i]) + Total(Overlaps(p, b[i]), Before(b, i))

Steps(p, o, b) == [i \in 1..NumSlots |-> StepCost(p, o, b, i)]

Spent(p, o, b, k) == Total(Steps(p, o, b), 1..k)
Rest(p, o, b, k) == Total(Steps(p, o, b), (k + 1)..NumSlots)

LEMMA LegalSteps ==
  ASSUME NEW p \in Pools, NEW o, InOrder(o), NEW b, NEW k \in 0..NumSlots, Legal(p, o, b, k)
  PROVE  /\ \A i \in 1..k : b[i] \in Cands /\ Before(b, i) \in SUBSET Cands
         /\ \A i \in 1..k : Steps(p, o, b)[i] = StepCost(p, o, b, i)
         /\ \A i \in 1..k : StepCost(p, o, b, i) \in Nat
         /\ Numbers(Steps(p, o, b), 1..k)
<1>1. NumSlots \in Nat /\ k \in Nat /\ k <= NumSlots
  BY Sizes
<1>2. \A i \in 1..k : b[i] \in Cands
  BY DEF Legal, Fits
<1>3. ASSUME NEW i \in 1..k
      PROVE  Before(b, i) \in SUBSET Cands
  <2>1. \A j \in 1..(i - 1) : j \in 1..k
    BY <1>1
  <2> QED BY <1>2, <2>1 DEF Before
<1>4. \A i \in 1..k : Steps(p, o, b)[i] = StepCost(p, o, b, i)
  BY <1>1 DEF Steps
<1>5. ASSUME NEW i \in 1..k
      PROVE  StepCost(p, o, b, i) \in Nat
  <2>1. b[i] \in Cands /\ o[i] \in Slots
    BY <1>1, <1>2 DEF InOrder
  <2>2. Far(p, b[i], o[i]) \in Nat
    BY <2>1, PoolFacts
  <2>3. Total(Overlaps(p, b[i]), Before(b, i)) \in Nat
    BY <1>3, <2>1, OverlapsAreNumbers, TotalFacts
  <2> QED BY <2>2, <2>3 DEF StepCost
<1>6. IsFiniteSet(1..k)
  BY <1>1, FS_Interval
<1> QED BY <1>2, <1>3, <1>4, <1>5, <1>6 DEF Numbers

LEMMA LegalStart ==
  ASSUME NEW p, NEW o, NEW b, NEW k \in Nat, Legal(p, o, b, k), NEW m \in 0..k
  PROVE  Legal(p, o, b, m)
BY DEF Legal

LEMMA SpentFacts ==
  ASSUME NEW p \in Pools, NEW o, InOrder(o), NEW b, NEW k \in 0..NumSlots, Legal(p, o, b, k)
  PROVE  /\ Spent(p, o, b, k) \in Nat
         /\ Spent(p, o, b, 0) = 0
         /\ k > 0 => Spent(p, o, b, k) = Spent(p, o, b, k - 1) + StepCost(p, o, b, k)
<1>1. NumSlots \in Nat /\ k \in Nat
  BY Sizes
<1>2. Numbers(Steps(p, o, b), 1..k)
  BY LegalSteps
<1>3. Spent(p, o, b, k) \in Nat
  BY <1>2, TotalFacts DEF Spent
<1>4. Spent(p, o, b, 0) = 0
  <2>1. 1..0 = {}
    OBVIOUS
  <2> QED BY <2>1, TotalOfNone DEF Spent
<1>5. ASSUME k > 0
      PROVE  Spent(p, o, b, k) = Spent(p, o, b, k - 1) + StepCost(p, o, b, k)
  <2>1. k \in 1..k /\ (1..k) \ {k} = 1..(k - 1)
    BY <1>1, <1>5
  <2>2. Total(Steps(p, o, b), 1..k) = Steps(p, o, b)[k] + Total(Steps(p, o, b), 1..(k - 1))
    BY <1>2, <2>1, TotalFacts
  <2>3. Steps(p, o, b)[k] = StepCost(p, o, b, k) /\ StepCost(p, o, b, k) \in Nat
    BY <2>1, LegalSteps
  <2>4. Numbers(Steps(p, o, b), 1..(k - 1))
    <3>1. 1..(k - 1) \in SUBSET (1..k)
      BY <2>1
    <3> QED BY <1>2, <3>1, TotalFacts
  <2>5. Total(Steps(p, o, b), 1..(k - 1)) \in Nat
    BY <2>4, TotalFacts
  <2> QED BY <2>2, <2>3, <2>5 DEF Spent
<1> QED BY <1>3, <1>4, <1>5

LEMMA RestFacts ==
  ASSUME NEW p \in Pools, NEW o, InOrder(o), NEW b, Legal(p, o, b, NumSlots),
         NEW k \in 0..NumSlots
  PROVE  /\ Rest(p, o, b, k) \in Nat
         /\ k < NumSlots => Rest(p, o, b, k) = StepCost(p, o, b, k + 1) + Rest(p, o, b, k + 1)
         /\ k = NumSlots => Rest(p, o, b, k) = 0
         /\ Rest(p, o, b, 0) = Spent(p, o, b, NumSlots)
<1>1. NumSlots \in Nat /\ k \in Nat /\ NumSlots \in 0..NumSlots
  BY Sizes
<1>2. Numbers(Steps(p, o, b), 1..NumSlots)
  BY <1>1, LegalSteps
<1>3. Numbers(Steps(p, o, b), (k + 1)..NumSlots)
  <2>1. (k + 1)..NumSlots \in SUBSET (1..NumSlots)
    BY <1>1
  <2> QED BY <1>2, <2>1, TotalFacts
<1>4. Rest(p, o, b, k) \in Nat
  BY <1>3, TotalFacts DEF Rest
<1>5. ASSUME k < NumSlots
      PROVE  Rest(p, o, b, k) = StepCost(p, o, b, k + 1) + Rest(p, o, b, k + 1)
  <2> DEFINE ahead == (k + 1)..NumSlots
             later == ((k + 1) + 1)..NumSlots
  <2>1. k + 1 \in ahead /\ k + 1 \in 1..NumSlots /\ ahead \ {k + 1} = later
    BY <1>1, <1>5
  <2>2. Total(Steps(p, o, b), ahead) = Steps(p, o, b)[k + 1] + Total(Steps(p, o, b), later)
    <3> HIDE DEF later
    <3>1. Numbers(Steps(p, o, b), ahead)
      BY <1>3
    <3> HIDE DEF ahead
    <3> QED BY <2>1, <3>1, TotalFacts
  <2>3. Steps(p, o, b)[k + 1] = StepCost(p, o, b, k + 1)
    BY <1>1, <2>1, LegalSteps
  <2> QED BY <2>2, <2>3 DEF Rest
<1>6. k = NumSlots => Rest(p, o, b, k) = 0
  <2>1. (NumSlots + 1)..NumSlots = {}
    BY <1>1
  <2> QED BY <2>1, TotalOfNone DEF Rest
<1>7. Rest(p, o, b, 0) = Spent(p, o, b, NumSlots)
  BY DEF Rest, Spent
<1> QED BY <1>4, <1>5, <1>6, <1>7

Agree(b, c, k) == \A i \in 1..k : b[i] = c[i]

LEMMA SameStart ==
  ASSUME NEW p \in Pools, NEW o, InOrder(o), NEW b, NEW c, NEW k \in 0..NumSlots,
         Agree(b, c, k), Legal(p, o, b, k)
  PROVE  /\ Legal(p, o, c, k)
         /\ \A i \in 1..(k + 1) : Before(c, i) = Before(b, i)
         /\ \A i \in 1..k : StepCost(p, o, c, i) = StepCost(p, o, b, i)
         /\ \A m \in 0..k : Spent(p, o, c, m) = Spent(p, o, b, m)
<1>1. NumSlots \in Nat /\ k \in Nat /\ k <= NumSlots /\ \A i \in 1..k : b[i] = c[i]
  BY Sizes DEF Agree
<1>2. ASSUME NEW i \in 1..(k + 1)
      PROVE  Before(c, i) = Before(b, i)
  <2>1. \A j \in 1..(i - 1) : b[j] = c[j]
    BY <1>1
  <2> QED BY <2>1 DEF Before
<1>3. ASSUME NEW i \in 1..k
      PROVE  StepCost(p, o, c, i) = StepCost(p, o, b, i)
  <2>1. Before(c, i) = Before(b, i)
    BY <1>1, <1>2
  <2> QED BY <1>1, <2>1 DEF StepCost
<1>4. Legal(p, o, c, k)
  <2>1. ASSUME NEW i \in 1..k
        PROVE  c[i] \in Fits(p, o[i]) /\ \A j \in 1..(i - 1) : p.overlap[c[i]][c[j]] # Hard
    <3>1. \A j \in 1..(i - 1) : b[j] = c[j]
      BY <1>1
    <3>2. b[i] \in Fits(p, o[i]) /\ \A j \in 1..(i - 1) : p.overlap[b[i]][b[j]] # Hard
      BY DEF Legal
    <3> QED BY <1>1, <3>1, <3>2
  <2> QED BY <2>1 DEF Legal
<1>5. ASSUME NEW m \in 0..k
      PROVE  Spent(p, o, c, m) = Spent(p, o, b, m)
  <2>1. m \in 0..NumSlots /\ Legal(p, o, b, m) /\ \A i \in 1..m : i \in 1..k
    BY <1>1, LegalStart
  <2>2. Numbers(Steps(p, o, b), 1..m)
    BY <2>1, LegalSteps
  <2>3. \A i \in 1..m : Steps(p, o, c)[i] = Steps(p, o, b)[i]
    BY <1>1, <1>3, <2>1 DEF Steps
  <2> QED BY <2>2, <2>3, TotalSame DEF Spent
<1> QED BY <1>2, <1>3, <1>4, <1>5

LEMMA BeforeCount ==
  ASSUME NEW p \in Pools, NEW o, InOrder(o), NEW b, NEW k \in 0..NumSlots, Legal(p, o, b, k)
  PROVE  /\ OneToOne(b, 1..k)
         /\ Cardinality(Before(b, k + 1)) = k
<1>1. NumSlots \in Nat /\ k \in Nat /\ k <= NumSlots
  BY Sizes
<1>2. ASSUME NEW i \in 1..k, NEW j \in 1..k, j < i
      PROVE  b[i] # b[j]
  <2>1. j \in 1..(i - 1)
    BY <1>2
  <2>2. b[i] \in Cands /\ p.overlap[b[i]][b[j]] # Hard
    BY <2>1 DEF Legal, Fits
  <2> QED BY <2>2, PoolFacts
<1>3. OneToOne(b, 1..k)
  <2>1. ASSUME NEW i \in 1..k, NEW j \in 1..k, b[i] = b[j]
        PROVE  i = j
    <3>1. ~(i < j) /\ ~(j < i)
      BY <1>2, <2>1
    <3> QED BY <3>1
  <2> QED BY <2>1 DEF OneToOne
<1> DEFINE f == [i \in 1..k |-> b[i]]
           T == Before(b, k + 1)
<1>4. T = {b[i] : i \in 1..k}
  BY <1>1 DEF Before
<1>5. f \in Bijection(1..k, T)
  <2>1. f \in [1..k -> T] /\ \A t \in T : \E i \in 1..k : f[i] = t
    BY <1>4
  <2>2. \A i, j \in 1..k : f[i] = f[j] => i = j
    BY <1>3 DEF OneToOne
  <2> HIDE DEF f, T
  <2> QED BY <2>1, <2>2 DEF Bijection, Injection, Surjection, IsInjective
<1>6. ExistsBijection(1..k, T)
  <2> HIDE DEF f, T
  <2> QED BY <1>5 DEF ExistsBijection
<1>7. Cardinality(T) = k
  <2> HIDE DEF f, T
  <2> QED BY <1>1, <1>6, FS_CountingElements
<1> QED BY <1>3, <1>7

-----------------------------------------------------------------------------
(* An assignment of candidates to slots is a legal choice in the order of   *)
(* search, and its penalty is what the choice costs step by step.           *)

InPairs(o) == {<<o[q[1]], o[q[2]]>> : q \in {r \in (1..NumSlots) \X (1..NumSlots) : r[1] > r[2]}}

LEMMA SlotPairsAre ==
  ASSUME InOrder(order)
  PROVE  /\ SlotPairs = InPairs(order)
         /\ \A s, t : <<s, t>> \in SlotPairs <=>
              \E i \in 1..NumSlots : \E j \in 1..(i - 1) : s = order[i] /\ t = order[j]
         /\ SlotPairs \in SUBSET (Slots \X Slots)
<1>1. DOMAIN order = 1..NumSlots /\ NumSlots \in Nat
  BY Sizes DEF InOrder
<1>2. SlotPairs = InPairs(order)
  BY <1>1 DEF SlotPairs, InPairs
<1>3. ASSUME NEW s, NEW t, <<s, t>> \in SlotPairs
      PROVE  \E i \in 1..NumSlots : \E j \in 1..(i - 1) : s = order[i] /\ t = order[j]
  <2>1. PICK q \in {r \in (1..NumSlots) \X (1..NumSlots) : r[1] > r[2]} :
               <<s, t>> = <<order[q[1]], order[q[2]]>>
    BY <1>2, <1>3 DEF InPairs
  <2>2. q[1] \in 1..NumSlots /\ q[2] \in 1..(q[1] - 1)
    BY <1>1, <2>1
  <2>3. s = order[q[1]] /\ t = order[q[2]]
    BY <2>1
  <2> QED BY <2>2, <2>3
<1>4. ASSUME NEW i \in 1..NumSlots, NEW j \in 1..(i - 1)
      PROVE  <<order[i], order[j]>> \in SlotPairs
  <2> DEFINE q == <<i, j>>
  <2>1. q \in (1..NumSlots) \X (1..NumSlots) /\ q[1] > q[2] /\ q[1] = i /\ q[2] = j
    BY <1>1
  <2> HIDE DEF q
  <2> QED BY <1>2, <2>1 DEF InPairs
<1>5. SlotPairs \in SUBSET (Slots \X Slots)
  <2>1. \A i \in 1..NumSlots : order[i] \in Slots
    BY DEF InOrder
  <2> QED BY <1>2, <2>1 DEF InPairs
<1> QED BY <1>2, <1>3, <1>4, <1>5

LEMMA AssignmentIsLegal ==
  ASSUME pool \in Pools, InOrder(order), NEW a \in [Slots -> Cands], NEW b,
         \A i \in 1..NumSlots : b[i] = a[order[i]]
  PROVE  a \in Assignments <=> Legal(pool, order, b, NumSlots)
<1>1. /\ NumSlots \in Nat
      /\ \A i \in 1..NumSlots : order[i] \in Slots
      /\ \A s \in Slots : \E i \in 1..NumSlots : order[i] = s
  BY Sizes DEF InOrder, Image
<1>2. ASSUME a \in Assignments
      PROVE  Legal(pool, order, b, NumSlots)
  <2>1. ASSUME NEW i \in 1..NumSlots
        PROVE  b[i] \in Fits(pool, order[i])
    BY <1>1, <1>2 DEF Assignments, Compatible, Fits
  <2>2. ASSUME NEW i \in 1..NumSlots, NEW j \in 1..(i - 1)
        PROVE  pool.overlap[b[i]][b[j]] # Hard
    <3> DEFINE q == <<order[i], order[j]>>
    <3>1. q \in SlotPairs /\ q[1] = order[i] /\ q[2] = order[j]
      BY SlotPairsAre
    <3>2. pool.overlap[a[q[1]]][a[q[2]]] # Hard
      BY <1>2, <3>1 DEF Assignments
    <3>3. b[i] = a[order[i]] /\ b[j] = a[order[j]]
      BY <1>1
    <3> HIDE DEF q
    <3> QED BY <3>1, <3>2, <3>3
  <2> QED BY <2>1, <2>2 DEF Legal
<1>3. ASSUME Legal(pool, order, b, NumSlots)
      PROVE  a \in Assignments
  <2>1. ASSUME NEW s \in Slots
        PROVE  a[s] \in Compatible(s)
    <3>1. PICK i \in 1..NumSlots : order[i] = s
      BY <1>1
    <3>2. b[i] \in Fits(pool, order[i]) /\ b[i] = a[s]
      BY <1>3, <3>1 DEF Legal
    <3> QED BY <3>1, <3>2 DEF Compatible, Fits
  <2>2. ASSUME NEW q \in SlotPairs
        PROVE  pool.overlap[a[q[1]]][a[q[2]]] # Hard
    <3>1. q = <<q[1], q[2]>>
      BY SlotPairsAre
    <3>2. PICK i \in 1..NumSlots : \E j \in 1..(i - 1) : q[1] = order[i] /\ q[2] = order[j]
      BY <3>1, SlotPairsAre
    <3>3. PICK j \in 1..(i - 1) : q[1] = order[i] /\ q[2] = order[j]
      BY <3>2
    <3>4. b[i] = a[q[1]] /\ b[j] = a[q[2]]
      BY <1>1, <3>3
    <3>5. pool.overlap[b[i]][b[j]] # Hard
      BY <1>3 DEF Legal
    <3> QED BY <3>4, <3>5
  <2>3. ASSUME NEW s \in Slots, NEW t \in Slots, a[s] = a[t]
        PROVE  s = t
    <3>1. PICK i \in 1..NumSlots : order[i] = s
      BY <1>1
    <3>2. PICK j \in 1..NumSlots : order[j] = t
      BY <1>1
    <3>3. b[i] = b[j]
      BY <2>3, <3>1, <3>2
    <3>4. NumSlots \in 0..NumSlots
      BY <1>1
    <3>5. i = j
      BY <1>3, <3>3, <3>4, BeforeCount DEF OneToOne
    <3> QED BY <3>1, <3>2, <3>5
  <2>4. IsInjective(a)
    BY <2>3 DEF IsInjective
  <2> QED BY <2>1, <2>2, <2>4 DEF Assignments
<1> QED BY <1>2, <1>3

DistanceOf(a) == [s \in Slots |-> Far(pool, a[s], s)]
OverlapOf(a) == [q \in SlotPairs |-> pool.overlap[a[q[1]]][a[q[2]]]]

LEMMA PenaltyIsTotals ==
  ASSUME NEW a \in [Slots -> Cands]
  PROVE  Penalty(a) = Total(DistanceOf(a), Slots) + Total(OverlapOf(a), SlotPairs)
<1> DEFINE f == DistanceOf(a)
           BodyF(g) == [s \in SUBSET Slots |->
             IF s = {} THEN 0
             ELSE Distance(a[CHOOSE x \in s : TRUE], CHOOSE x \in s : TRUE)
                    + g[s \ {CHOOSE x \in s : TRUE}]]
           FoldF == (CHOOSE g : g = BodyF(g))[Slots]
           e == OverlapOf(a)
           BodyE(g) == [s \in SUBSET SlotPairs |->
             IF s = {} THEN 0
             ELSE pool.overlap[a[(CHOOSE x \in s : TRUE)[1]]][a[(CHOOSE x \in s : TRUE)[2]]]
                    + g[s \ {CHOOSE x \in s : TRUE}]]
           FoldE == (CHOOSE g : g = BodyE(g))[SlotPairs]
<1>1. Penalty(a) = FoldF + FoldE
  BY DEF Penalty, MapThenSumSet, MapThenFoldSet
<1>2. FoldF = Total(f, Slots)
  <2>1. ASSUME NEW s \in SUBSET Slots, s # {}
        PROVE  Distance(a[CHOOSE x \in s : TRUE], CHOOSE x \in s : TRUE)
                 = f[CHOOSE x \in s : TRUE]
    <3>1. (CHOOSE x \in s : TRUE) \in Slots
      BY <2>1
    <3> QED BY <3>1 DEF DistanceOf, Distance, Far
  <2>2. \A g : (g = BodyF(g)) <=> Sums(f, g, Slots)
    <3> HIDE DEF f
    <3> QED BY <2>1 DEF Sums
  <2> HIDE DEF f, BodyF
  <2> QED BY <2>2 DEF Total
<1>3. FoldE = Total(e, SlotPairs)
  <2>1. ASSUME NEW s \in SUBSET SlotPairs, s # {}
        PROVE  pool.overlap[a[(CHOOSE x \in s : TRUE)[1]]][a[(CHOOSE x \in s : TRUE)[2]]]
                 = e[CHOOSE x \in s : TRUE]
    <3>1. (CHOOSE x \in s : TRUE) \in SlotPairs
      BY <2>1
    <3> QED BY <3>1 DEF OverlapOf
  <2>2. \A g : (g = BodyE(g)) <=> Sums(e, g, SlotPairs)
    <3> HIDE DEF e
    <3> QED BY <2>1 DEF Sums
  <2> HIDE DEF e, BodyE
  <2> QED BY <2>2 DEF Total
<1> HIDE DEF FoldF, FoldE
<1> QED BY <1>1, <1>2, <1>3

(* Slot by slot, the pairs of a slot are its overlaps with the slots before. *)
LEMMA PenaltyIsSpent ==
  ASSUME pool \in Pools, InOrder(order), NEW a \in [Slots -> Cands], NEW b,
         \A i \in 1..NumSlots : b[i] = a[order[i]], Legal(pool, order, b, NumSlots)
  PROVE  Penalty(a) = Spent(pool, order, b, NumSlots)
<1> DEFINE I == 1..NumSlots
           far == [i \in I |-> Far(pool, b[i], order[i])]
           near == [i \in I |-> Total(Overlaps(pool, b[i]), Before(b, i))]
           perSlot == [s \in Slots |-> Total(OverlapOf(a), Class(SlotPairs, [q \in SlotPairs |-> q[1]], s))]
<1>1. /\ NumSlots \in Nat /\ NumSlots \in 0..NumSlots
      /\ IsFiniteSet(I) /\ IsFiniteSet(Slots)
      /\ \A i \in I : order[i] \in Slots
      /\ OneToOne(order, I) /\ Image(order, I) = Slots
  BY Sizes, FS_Interval DEF InOrder
<1>2. \A i \in I : b[i] \in Cands /\ Before(b, i) \in SUBSET Cands
  BY <1>1, LegalSteps
<1>3. Numbers(far, I) /\ Numbers(near, I)
  <2>1. ASSUME NEW i \in I
        PROVE  far[i] \in Nat /\ near[i] \in Nat
    <3>1. Far(pool, b[i], order[i]) \in Nat
      BY <1>1, <1>2, PoolFacts
    <3>2. Total(Overlaps(pool, b[i]), Before(b, i)) \in Nat
      BY <1>2, OverlapsAreNumbers, TotalFacts
    <3> QED BY <3>1, <3>2
  <2> HIDE DEF far, near, I
  <2> QED BY <1>1, <2>1 DEF Numbers
<1>4. Spent(pool, order, b, NumSlots) = Total(far, I) + Total(near, I)
  <2>1. \A i \in I : Steps(pool, order, b)[i] = far[i] + near[i]
    BY DEF Steps, StepCost
  <2>2. Spent(pool, order, b, NumSlots) = Total(Steps(pool, order, b), I)
    BY DEF Spent
  <2> HIDE DEF far, near, I
  <2> QED BY <1>3, <2>1, <2>2, TotalAdded
<1>5. Total(far, I) = Total(DistanceOf(a), Slots)
  <2>1. \A i \in I : far[i] = DistanceOf(a)[order[i]]
    BY <1>1 DEF DistanceOf
  <2>2. Numbers(DistanceOf(a), Slots)
    BY <1>1, PoolFacts DEF DistanceOf, Numbers
  <2> HIDE DEF far, I
  <2> QED BY <1>1, <2>1, <2>2, TotalMoved
<1>6. IsFiniteSet(SlotPairs) /\ SlotPairs \in SUBSET (Slots \X Slots)
  <2>1. IsFiniteSet(Slots \X Slots)
    BY <1>1, FS_Product
  <2> QED BY <2>1, SlotPairsAre, FS_Subset
<1>7. Numbers(OverlapOf(a), SlotPairs)
  <2>1. ASSUME NEW q \in SlotPairs
        PROVE  OverlapOf(a)[q] \in Nat
    <3>1. a[q[1]] \in Cands /\ a[q[2]] \in Cands
      BY <1>6
    <3> QED BY <3>1, PoolFacts DEF OverlapOf
  <2> QED BY <1>6, <2>1 DEF Numbers
<1>8. Total(OverlapOf(a), SlotPairs) = Total(perSlot, Slots)
  <2> DEFINE first == [q \in SlotPairs |-> q[1]]
  <2>1. \A q \in SlotPairs : first[q] \in Slots
    BY <1>6
  <2>2. \A s \in Slots : perSlot[s] = Total(OverlapOf(a), Class(SlotPairs, first, s))
    OBVIOUS
  <2> HIDE DEF first, perSlot
  <2> QED BY <1>1, <1>7, <2>1, <2>2, TotalGrouped
<1>9. ASSUME NEW i \in I
      PROVE  near[i] = perSlot[order[i]]
  <2> DEFINE C == Class(SlotPairs, [q \in SlotPairs |-> q[1]], order[i])
             h == [q \in C |-> a[q[2]]]
  <2>1. \A q : q \in C <=> \E j \in 1..(i - 1) : q = <<order[i], order[j]>>
    <3>1. ASSUME NEW q \in C
          PROVE  \E j \in 1..(i - 1) : q = <<order[i], order[j]>>
      <4>1. q \in SlotPairs /\ q[1] = order[i]
        BY DEF Class
      <4>2. q = <<q[1], q[2]>>
        BY <1>6, <4>1
      <4>3. PICK k \in I : \E j \in 1..(k - 1) : q[1] = order[k] /\ q[2] = order[j]
        BY <4>1, <4>2, SlotPairsAre
      <4>4. k = i
        BY <1>1, <4>1, <4>3 DEF OneToOne
      <4> QED BY <4>1, <4>2, <4>3, <4>4
    <3>2. ASSUME NEW j \in 1..(i - 1)
          PROVE  <<order[i], order[j]>> \in C
      <4> DEFINE q == <<order[i], order[j]>>
      <4>1. q \in SlotPairs /\ q[1] = order[i]
        BY SlotPairsAre
      <4> HIDE DEF q
      <4> QED BY <4>1 DEF Class, q
    <3> QED BY <3>1, <3>2
  <2>2. \A j \in 1..(i - 1) : j \in I /\ b[j] = a[order[j]]
    BY <1>1
  <2>3. Image(h, C) = Before(b, i)
    <3>1. \A q \in C : \E j \in 1..(i - 1) : h[q] = b[j]
      <4>1. TAKE q \in C
      <4>2. PICK j \in 1..(i - 1) : q = <<order[i], order[j]>>
        BY <2>1
      <4>3. q[2] = order[j] /\ h[q] = a[q[2]]
        BY <4>2
      <4> QED BY <2>2, <4>3
    <3>2. \A j \in 1..(i - 1) : \E q \in C : h[q] = b[j]
      <4>1. TAKE j \in 1..(i - 1)
      <4> DEFINE q == <<order[i], order[j]>>
      <4>2. q \in C /\ q[2] = order[j]
        BY <2>1
      <4>3. h[q] = a[q[2]]
        BY <4>2
      <4> HIDE DEF q, C, h
      <4> QED BY <2>2, <4>2, <4>3
    <3> HIDE DEF C, h
    <3> QED BY <3>1, <3>2 DEF Image, Before
  <2>4. OneToOne(h, C)
    <3>1. ASSUME NEW q \in C, NEW r \in C, h[q] = h[r]
          PROVE  q = r
      <4>1. PICK j \in 1..(i - 1) : q = <<order[i], order[j]>>
        BY <2>1
      <4>2. PICK k \in 1..(i - 1) : r = <<order[i], order[k]>>
        BY <2>1
      <4>3. q[2] = order[j] /\ r[2] = order[k] /\ h[q] = a[q[2]] /\ h[r] = a[r[2]]
        BY <4>1, <4>2
      <4>4. b[j] = b[k]
        BY <2>2, <3>1, <4>3
      <4>5. j = k
        BY <1>1, <2>2, <4>4, BeforeCount DEF OneToOne
      <4> QED BY <4>1, <4>2, <4>5
    <3> HIDE DEF C, h
    <3> QED BY <3>1 DEF OneToOne
  <2>5. \A q \in C : OverlapOf(a)[q] = Overlaps(pool, b[i])[h[q]]
    <3>1. TAKE q \in C
    <3>2. q \in SlotPairs /\ q[1] = order[i]
      BY DEF Class
    <3>3. h[q] = a[q[2]] /\ a[q[2]] \in Cands
      BY <1>6, <3>2
    <3>4. b[i] = a[q[1]]
      BY <1>1, <3>2
    <3> HIDE DEF C, h
    <3> QED BY <3>2, <3>3, <3>4 DEF OverlapOf, Overlaps
  <2>6. IsFiniteSet(C)
    <3>1. C \in SUBSET SlotPairs
      BY DEF Class
    <3> HIDE DEF C
    <3> QED BY <1>6, <3>1, FS_Subset
  <2>7. Numbers(Overlaps(pool, b[i]), Image(h, C))
    <3> HIDE DEF C, h
    <3> QED BY <1>2, <2>3, OverlapsAreNumbers
  <2>8. perSlot[order[i]] = Total(OverlapOf(a), C)
    BY <1>1
  <2>9. near[i] = Total(Overlaps(pool, b[i]), Before(b, i))
    OBVIOUS
  <2> HIDE DEF C, h, perSlot, near
  <2>10. Total(OverlapOf(a), C) = Total(Overlaps(pool, b[i]), Image(h, C))
    BY <2>4, <2>5, <2>6, <2>7, TotalMoved
  <2> QED BY <2>3, <2>8, <2>9, <2>10
<1>10. Total(near, I) = Total(perSlot, Slots)
  <2>1. Numbers(perSlot, Slots)
    <3>1. ASSUME NEW s \in Slots
          PROVE  perSlot[s] \in Nat
      <4>1. Class(SlotPairs, [q \in SlotPairs |-> q[1]], s) \in SUBSET SlotPairs
        BY DEF Class
      <4>2. Total(OverlapOf(a), Class(SlotPairs, [q \in SlotPairs |-> q[1]], s)) \in Nat
        BY <1>7, <4>1, TotalFacts
      <4> QED BY <4>2
    <3> HIDE DEF perSlot
    <3> QED BY <1>1, <3>1 DEF Numbers
  <2> HIDE DEF near, perSlot, I
  <2> QED BY <1>1, <1>9, <2>1, TotalMoved
<1> HIDE DEF I, far, near, perSlot
<1> QED BY <1>4, <1>5, <1>8, <1>10, PenaltyIsTotals

-----------------------------------------------------------------------------
(* What is true of a search.  Its calls are open on the choices chosen so   *)
(* far; what was found is a legal choice at its cost; and every set of      *)
(* candidates in seen is where an open call is, or is closed: nothing that  *)
(* goes on from there is cheaper than the best.                             *)

Found(p, o, bst) ==
  bst.assignment # <<>> =>
    /\ InOrder(o)
    /\ bst.assignment \in [1..NumSlots -> Cands]
    /\ Legal(p, o, bst.assignment, NumSlots)
    /\ bst.penalty = Spent(p, o, bst.assignment, NumSlots)

Calls(p, o, c, v, r) ==
  /\ c \in Seq(Cands) /\ Len(c) < NumSlots
  /\ v \in Seq(Nat) /\ Len(v) = Len(c) + 1
  /\ r \in Seq(Seq(Cands)) /\ Len(r) = Len(c) + 1
  /\ Legal(p, o, c, Len(c))
  /\ \A k \in 0..Len(c) : v[k + 1] = Spent(p, o, c, k)
  /\ \A k \in 0..Len(c) : Range(r[k + 1]) \subseteq Fits(p, o[k + 1])

SearchInv ==
  /\ pool \in Pools
  /\ status \in {"start", "searching", "done", "raised"}
  /\ status = "start" => order = <<>> /\ chosen = <<>> /\ best.assignment = <<>>
  /\ status = "searching" => InOrder(order) /\ Calls(pool, order, chosen, costs, ranked)
  /\ status = "done" => InOrder(order)
  /\ status = "raised" =>
       /\ best.assignment = <<>>
       /\ InOrder(order) \/ \E s \in Slots : Fits(pool, s) = {}
  /\ Found(pool, order, best)

Full(p, o) == {b \in [1..NumSlots -> Cands] : Legal(p, o, b, NumSlots)}

Beaten(bst, x) == bst.assignment # <<>> /\ bst.penalty <= x

Closed(p, o, bst, U, v) ==
  \A b \in Full(p, o) : \A k \in 0..NumSlots :
    Before(b, k + 1) = U => Beaten(bst, v + Rest(p, o, b, k))

Open(c, U) == \E k \in 0..Len(c) : U = Before(c, k + 1)

SeenOK(p, o, bst, c, memo) ==
  \A U \in DOMAIN memo :
    memo[U] \in Nat /\ (Open(c, U) \/ Closed(p, o, bst, U, memo[U]))

OpenSeen(c, v, memo) ==
  \A k \in 0..Len(c) :
    Before(c, k + 1) \in DOMAIN memo /\ memo[Before(c, k + 1)] = v[k + 1]

(* What goes on from an open call with a candidate it has tried is beaten,  *)
(* but for the candidate it is trying.                                      *)
TriedBeaten(p, o, bst, c, v, r) ==
  \A k \in 0..Len(c) : \A b \in Full(p, o) :
    Before(b, k + 1) = Before(c, k + 1) =>
      \/ b[k + 1] \in Range(r[k + 1])
      \/ k < Len(c) /\ b[k + 1] = c[k + 1]
      \/ Beaten(bst, v[k + 1] + Rest(p, o, b, k))

ExactInv ==
  /\ status = "searching" =>
       /\ SeenOK(pool, order, best, chosen, seen)
       /\ OpenSeen(chosen, costs, seen)
       /\ TriedBeaten(pool, order, best, chosen, costs, ranked)
  /\ status \in {"done", "raised"} =>
       \/ \A b \in Full(pool, order) : Beaten(best, Spent(pool, order, b, NumSlots))
       \/ status = "raised" /\ \E s \in Slots : Fits(pool, s) = {}

-----------------------------------------------------------------------------
(* The invariant gives the properties. *)

LEMMA FoundIsSoundHolds ==
  ASSUME SearchInv
  PROVE  FoundIsSound
<1>1. SUFFICES ASSUME best.assignment # <<>>
               PROVE  Best \in Assignments /\ best.penalty = Penalty(Best)
  BY DEF FoundIsSound, NoBest
<1> DEFINE b == best.assignment
<1>2. /\ pool \in Pools /\ InOrder(order)
      /\ b \in [1..NumSlots -> Cands] /\ Legal(pool, order, b, NumSlots)
      /\ best.penalty = Spent(pool, order, b, NumSlots)
  BY <1>1 DEF SearchInv, Found
<1>3. /\ DOMAIN order = 1..NumSlots
      /\ \A s \in Slots : \E i \in 1..NumSlots : order[i] = s
      /\ \A i, j \in 1..NumSlots : order[i] = order[j] => i = j
      /\ \A i \in 1..NumSlots : order[i] \in Slots
  BY <1>2 DEF InOrder, Image, OneToOne
<1>4. Best \in [Slots -> Cands] /\ \A i \in 1..NumSlots : b[i] = Best[order[i]]
  <2>1. ASSUME NEW s \in Slots
        PROVE  (CHOOSE i \in DOMAIN order : order[i] = s) \in 1..NumSlots
               /\ order[CHOOSE i \in DOMAIN order : order[i] = s] = s
    BY <1>3
  <2>2. Best = [s \in Slots |-> b[CHOOSE i \in DOMAIN order : order[i] = s]]
    BY DEF Best
  <2>3. Best \in [Slots -> Cands]
    BY <1>2, <2>1, <2>2
  <2>4. ASSUME NEW i \in 1..NumSlots
        PROVE  b[i] = Best[order[i]]
    <3>1. (CHOOSE j \in DOMAIN order : order[j] = order[i]) = i
      BY <1>3, <2>1
    <3> QED BY <1>3, <2>2, <3>1
  <2> QED BY <2>3, <2>4
<1> HIDE DEF b
<1> QED BY <1>2, <1>4, AssignmentIsLegal, PenaltyIsSpent

LEMMA SearchIsExactHolds ==
  ASSUME SearchInv, ExactInv
  PROVE  SearchIsExact
<1>0. pool \in Pools
  BY DEF SearchInv
<1>1. ASSUME InOrder(order), NEW a \in Assignments
      PROVE  \E b \in Full(pool, order) : Penalty(a) = Spent(pool, order, b, NumSlots)
  <2> DEFINE b == [i \in 1..NumSlots |-> a[order[i]]]
  <2>1. a \in [Slots -> Cands]
    BY DEF Assignments
  <2>2. b \in [1..NumSlots -> Cands] /\ \A i \in 1..NumSlots : b[i] = a[order[i]]
    BY <1>1, <2>1 DEF InOrder
  <2> HIDE DEF b
  <2>3. Legal(pool, order, b, NumSlots)
    BY <1>0, <1>1, <2>1, <2>2, AssignmentIsLegal
  <2>4. Penalty(a) = Spent(pool, order, b, NumSlots)
    BY <1>0, <1>1, <2>1, <2>2, <2>3, PenaltyIsSpent
  <2>5. b \in Full(pool, order)
    BY <2>2, <2>3 DEF Full
  <2> QED BY <2>4, <2>5
<1>2. ASSUME status = "done", NEW a \in Assignments
      PROVE  best.penalty <= Penalty(a)
  <2>1. InOrder(order)
    BY <1>2 DEF SearchInv
  <2>2. PICK b \in Full(pool, order) : Penalty(a) = Spent(pool, order, b, NumSlots)
    BY <1>1, <2>1
  <2>3. Beaten(best, Spent(pool, order, b, NumSlots))
    BY <1>2 DEF ExactInv
  <2> QED BY <2>2, <2>3 DEF Beaten
<1>3. ASSUME status = "raised", NEW a \in Assignments
      PROVE  FALSE
  <2>1. best.assignment = <<>> /\ (InOrder(order) \/ \E s \in Slots : Fits(pool, s) = {})
    BY <1>3 DEF SearchInv
  <2>2. ASSUME NEW s \in Slots
        PROVE  Fits(pool, s) # {}
    BY DEF Assignments, Compatible, Fits
  <2>3. InOrder(order)
    BY <2>1, <2>2
  <2>4. PICK b \in Full(pool, order) : Penalty(a) = Spent(pool, order, b, NumSlots)
    BY <1>1, <2>3
  <2>5. Beaten(best, Spent(pool, order, b, NumSlots))
    BY <1>3, <2>2 DEF ExactInv
  <2> QED BY <2>1, <2>5 DEF Beaten
<1> QED BY <1>2, <1>3, FoundIsSoundHolds DEF SearchIsExact

-----------------------------------------------------------------------------
(* Sequences. *)

LEMMA FrontFacts ==
  ASSUME NEW S, NEW s \in Seq(S), NEW m \in Nat, Len(s) = m + 1
  PROVE  /\ Front(s) \in Seq(S) /\ Len(Front(s)) = m
         /\ \A i \in 1..m : Front(s)[i] = s[i]
         /\ Last(s) = s[m + 1] /\ s[m + 1] \in S
         /\ s # <<>>
BY DEF Front, Last

LEMMA FrontAt ==
  ASSUME NEW S, NEW s \in Seq(S), NEW m \in Nat, Len(s) = m + 1, NEW i \in 1..m
  PROVE  Front(s)[i] = s[i]
BY DEF Front

LEMMA TailFacts ==
  ASSUME NEW S, NEW s \in Seq(S), s # <<>>
  PROVE  /\ Head(s) \in S /\ Tail(s) \in Seq(S)
         /\ Range(s) = {Head(s)} \cup Range(Tail(s))
<1>1. Head(s) \in S /\ Tail(s) \in Seq(S) /\ Len(s) \in Nat /\ Len(s) > 0 /\ Head(s) = s[1]
  OBVIOUS
<1>2. Len(Tail(s)) = Len(s) - 1 /\ \A i \in 1..(Len(s) - 1) : Tail(s)[i] = s[i + 1]
  BY <1>1
<1>3. Range(s) = {s[i] : i \in 1..Len(s)} /\ Range(Tail(s)) = {Tail(s)[i] : i \in 1..(Len(s) - 1)}
  <2>1. DOMAIN s = 1..Len(s)
    OBVIOUS
  <2>2. DOMAIN Tail(s) = 1..(Len(s) - 1)
    BY <1>1, <1>2
  <2> QED BY <2>1, <2>2 DEF Range
<1>4. ASSUME NEW i \in 1..Len(s)
      PROVE  s[i] \in {s[1]} \cup {Tail(s)[k] : k \in 1..(Len(s) - 1)}
  <2>1. CASE i = 1
    BY <2>1
  <2>2. CASE i # 1
    <3>1. i - 1 \in 1..(Len(s) - 1) /\ Tail(s)[i - 1] = s[i]
      BY <1>1, <1>2, <2>2
    <3> QED BY <3>1
  <2> QED BY <2>1, <2>2
<1>5. ASSUME NEW i \in 1..(Len(s) - 1)
      PROVE  Tail(s)[i] \in {s[k] : k \in 1..Len(s)}
  <2>1. i + 1 \in 1..Len(s) /\ Tail(s)[i] = s[i + 1]
    BY <1>1, <1>2
  <2> QED BY <2>1
<1>6. s[1] \in {s[k] : k \in 1..Len(s)}
  BY <1>1
<1>7. Range(s) = {Head(s)} \cup Range(Tail(s))
  BY <1>1, <1>3, <1>4, <1>5, <1>6
<1> QED BY <1>1, <1>7

LEMMA AppendFacts ==
  ASSUME NEW S, NEW s \in Seq(S), NEW x \in S, NEW m \in Nat, Len(s) = m
  PROVE  /\ Append(s, x) \in Seq(S) /\ Len(Append(s, x)) = m + 1
         /\ \A i \in 1..m : Append(s, x)[i] = s[i]
         /\ Append(s, x)[m + 1] = x
OBVIOUS

(* What the open calls have still to try, when the last has tried one more. *)
Goes(r, t) == t = Append(Front(r), Tail(Last(r)))

LEMMA TriedFacts ==
  ASSUME NEW r \in Seq(Seq(Cands)), NEW m \in Nat, Len(r) = m + 1, Last(r) # <<>>,
         NEW t, Goes(r, t)
  PROVE  /\ t \in Seq(Seq(Cands)) /\ Len(t) = m + 1
         /\ \A i \in 1..m : t[i] = r[i]
         /\ Head(Last(r)) \in Cands
         /\ Range(r[m + 1]) = {Head(Last(r))} \cup Range(t[m + 1])
<1>1. /\ Front(r) \in Seq(Seq(Cands)) /\ Len(Front(r)) = m
      /\ \A i \in 1..m : Front(r)[i] = r[i]
      /\ Last(r) = r[m + 1] /\ Last(r) \in Seq(Cands)
  <2> DEFINE Lists == Seq(Cands)
  <2>1. r \in Seq(Lists) /\ m \in Nat /\ Len(r) = m + 1
    OBVIOUS
  <2> HIDE DEF Lists
  <2>2. /\ Front(r) \in Seq(Lists) /\ Len(Front(r)) = m
        /\ \A i \in 1..m : Front(r)[i] = r[i]
        /\ Last(r) = r[m + 1] /\ Last(r) \in Lists
    <3>1. r[m + 1] \in Lists /\ Last(r) = r[m + 1]
      BY <2>1, FrontFacts, ZenonT(30)
    <3>2. Front(r) \in Seq(Lists) /\ Len(Front(r)) = m
      BY <2>1, FrontFacts
    <3>3. \A i \in 1..m : Front(r)[i] = r[i]
      BY <2>1 DEF Front
    <3> QED BY <3>1, <3>2, <3>3
  <2> QED BY <2>2, Zenon DEF Lists
<1>2. /\ Head(Last(r)) \in Cands /\ Tail(Last(r)) \in Seq(Cands)
      /\ Range(Last(r)) = {Head(Last(r))} \cup Range(Tail(Last(r)))
  BY <1>1, TailFacts
<1>3. /\ t \in Seq(Seq(Cands)) /\ Len(t) = m + 1
      /\ \A i \in 1..m : t[i] = Front(r)[i]
      /\ t[m + 1] = Tail(Last(r))
  <2>1. t = Append(Front(r), Tail(Last(r)))
    BY DEF Goes
  <2> DEFINE Lists == Seq(Cands)
             first == Front(r)
             rest == Tail(Last(r))
  <2>2. first \in Seq(Lists) /\ Len(first) = m /\ rest \in Lists
    BY <1>1, <1>2
  <2>3. t = Append(first, rest)
    BY <2>1
  <2> HIDE DEF Lists, first, rest
  <2>4. /\ t \in Seq(Lists) /\ Len(t) = m + 1
        /\ \A i \in 1..m : t[i] = first[i]
        /\ t[m + 1] = rest
    BY <2>2, <2>3, AppendFacts
  <2> QED BY <2>4 DEF Lists, first, rest
<1> QED BY <1>1, <1>2, <1>3

LEMMA RankedFacts ==
  ASSUME NEW selected \in SUBSET Cands, NEW slot \in Slots, pool \in Pools
  PROVE  /\ Ranked(selected, slot) \in Seq(Cands)
         /\ Range(Ranked(selected, slot)) = Fits(pool, slot)
<1> DEFINE q == Ranked(selected, slot)
           S == Compatible(slot)
<1>1. S = Fits(pool, slot) /\ S \in SUBSET Cands
  BY DEF Compatible, Fits
<1>2. Enumerates(q, S)
  BY RankedLists
<1>3. Cardinality(S) \in Nat
  <2> HIDE DEF S
  <2> QED BY <1>1, Sizes, FS_Subset, FS_CardinalityType
<1> HIDE DEF q, S
<1>4. q \in [1..Cardinality(S) -> S] /\ Image(q, 1..Cardinality(S)) = S
  BY <1>2 DEF Enumerates
<1>5. q \in Seq(Cands)
  BY <1>1, <1>3, <1>4
<1>6. Range(q) = S
  BY <1>4 DEF Range, Image
<1> QED BY <1>1, <1>5, <1>6 DEF q

-----------------------------------------------------------------------------
(* One turn of the loop: the candidate tried by the last open call. *)

Longer == Append(chosen, Candidate)

LEMMA TurnFacts ==
  ASSUME SearchInv, Trying
  PROVE  /\ pool \in Pools /\ InOrder(order)
         /\ Len(chosen) \in Nat /\ Len(chosen) + 1 \in 1..NumSlots /\ Slot \in Slots
         /\ Candidate \in Fits(pool, Slot) /\ Candidate \in Cands
         /\ Used = Before(chosen, Len(chosen) + 1) /\ Used \in SUBSET Cands
         /\ costs[Len(chosen) + 1] \in Nat
         /\ NextCost = costs[Len(chosen) + 1] + OverlapPenalty(Candidate, Used, Slot)
         /\ NextCost \in Nat
         /\ Tried \in Seq(Seq(Cands)) /\ Len(Tried) = Len(chosen) + 1
         /\ \A i \in 1..Len(chosen) : Tried[i] = ranked[i]
         /\ Range(ranked[Len(chosen) + 1]) = {Candidate} \cup Range(Tried[Len(chosen) + 1])
<1> DEFINE D == Len(chosen)
<1>1. /\ pool \in Pools /\ InOrder(order)
      /\ Calls(pool, order, chosen, costs, ranked) /\ Last(ranked) # <<>>
  BY DEF SearchInv, Trying
<1>2. /\ chosen \in Seq(Cands) /\ D < NumSlots
      /\ costs \in Seq(Nat) /\ Len(costs) = D + 1
      /\ ranked \in Seq(Seq(Cands)) /\ Len(ranked) = D + 1
      /\ \A k \in 0..D : Range(ranked[k + 1]) \subseteq Fits(pool, order[k + 1])
  BY <1>1 DEF Calls
<1>3. D \in Nat /\ D + 1 \in 1..NumSlots /\ order[D + 1] \in Slots
  BY <1>1, <1>2, Sizes DEF InOrder
<1>4. /\ Tried \in Seq(Seq(Cands)) /\ Len(Tried) = D + 1
      /\ \A i \in 1..D : Tried[i] = ranked[i]
      /\ Candidate \in Cands
      /\ Range(ranked[D + 1]) = {Candidate} \cup Range(Tried[D + 1])
  <2>1. Goes(ranked, Tried) /\ Candidate = Head(Last(ranked))
    BY DEF Tried, Candidate, Goes
  <2> HIDE DEF D
  <2>2. ranked \in Seq(Seq(Cands)) /\ D \in Nat /\ Len(ranked) = D + 1 /\ Last(ranked) # <<>>
    BY <1>1, <1>2, <1>3
  <2>3. /\ Tried \in Seq(Seq(Cands)) /\ Len(Tried) = D + 1
        /\ \A i \in 1..D : Tried[i] = ranked[i]
        /\ Head(Last(ranked)) \in Cands
        /\ Range(ranked[D + 1]) = {Head(Last(ranked))} \cup Range(Tried[D + 1])
    BY <2>1, <2>2, TriedFacts
  <2> QED BY <2>1, <2>3
<1>5. Candidate \in Fits(pool, Slot)
  <2>1. D \in 0..D
    BY <1>3
  <2>2. Range(ranked[D + 1]) \subseteq Fits(pool, order[D + 1])
    BY <1>2, <2>1
  <2> QED BY <1>4, <2>2 DEF Slot
<1>6. Used = Before(chosen, D + 1) /\ Used \in SUBSET Cands
  <2>1. DOMAIN chosen = 1..D /\ (D + 1) - 1 = D /\ \A i \in 1..D : chosen[i] \in Cands
    BY <1>2, <1>3
  <2>2. Used = {chosen[i] : i \in 1..D}
    BY <2>1 DEF Used, Range
  <2> QED BY <2>1, <2>2 DEF Before
<1>7. Last(costs) = costs[D + 1] /\ costs[D + 1] \in Nat
  <2> HIDE DEF D
  <2> QED BY <1>2, <1>3, FrontFacts, ZenonT(30)
<1>8. OverlapPenalty(Candidate, Used, Slot) \in Nat
  BY <1>1, <1>3, <1>4, <1>6, OverlapPenaltyType DEF Slot
<1>9. NextCost = costs[D + 1] + OverlapPenalty(Candidate, Used, Slot)
  BY <1>7 DEF NextCost
<1> QED BY <1>1, <1>3, <1>4, <1>5, <1>6, <1>7, <1>8, <1>9 DEF Slot

(* What goes on with the candidate costs NextCost, and what is still to     *)
(* come; and the candidate is usable then.                                  *)
LEMMA TurnCost ==
  ASSUME SearchInv, Trying, NEW b \in Full(pool, order),
         Before(b, Len(chosen) + 1) = Used, b[Len(chosen) + 1] = Candidate
  PROVE  /\ Usable
         /\ Before(b, (Len(chosen) + 1) + 1) = Used \cup {Candidate}
         /\ Rest(pool, order, b, Len(chosen) + 1) \in Nat
         /\ costs[Len(chosen) + 1] + Rest(pool, order, b, Len(chosen))
              = NextCost + Rest(pool, order, b, Len(chosen) + 1)
<1> DEFINE D == Len(chosen)
           E == D + 1
           r0 == Rest(pool, order, b, D)
           r1 == Rest(pool, order, b, E)
           step == StepCost(pool, order, b, E)
<1>1. /\ pool \in Pools /\ InOrder(order)
      /\ D \in Nat /\ E \in 1..NumSlots /\ E \in Nat /\ D \in 0..NumSlots /\ E \in 0..NumSlots /\ D < NumSlots
      /\ Used \in SUBSET Cands /\ Slot \in Slots /\ Candidate \in Cands
      /\ costs[E] \in Nat
      /\ NextCost = costs[E] + OverlapPenalty(Candidate, Used, Slot)
      /\ NumSlots \in Nat
  BY TurnFacts, Sizes
<1>2. /\ b \in [1..NumSlots -> Cands] /\ Legal(pool, order, b, NumSlots)
      /\ Before(b, E) = Used /\ b[E] = Candidate
  BY DEF Full
<1>3. /\ Candidate \in Fits(pool, order[E])
      /\ \A d \in Used : pool.overlap[Candidate][d] # Hard
  <2>1. b[E] \in Fits(pool, order[E]) /\ \A j \in 1..(E - 1) : pool.overlap[b[E]][b[j]] # Hard
    <3> HIDE DEF E
    <3> QED BY <1>1, <1>2 DEF Legal
  <2>2. \A d \in Before(b, E) : \E j \in 1..(E - 1) : d = b[j]
    BY DEF Before
  <2> HIDE DEF E
  <2> QED BY <1>2, <2>1, <2>2
<1>4. Usable
  <2>1. Candidate \notin Used
    BY <1>1, <1>3, PoolFacts
  <2> QED BY <1>3, <2>1 DEF Usable, Collides
<1>5. Before(b, E + 1) = Used \cup {Candidate}
  <2>1. \A j : j \in 1..((E + 1) - 1) <=> j \in 1..(E - 1) \/ j = E
    <3> HIDE DEF E
    <3> QED BY <1>1
  <2>2. Before(b, E + 1) = Before(b, E) \cup {b[E]}
    <3> HIDE DEF E
    <3> QED BY <2>1 DEF Before
  <2> HIDE DEF E
  <2> QED BY <1>2, <2>2
<1>6. r0 = step + r1 /\ r1 \in Nat
  <2>1. r0 = step + r1
    BY <1>1, <1>2, RestFacts
  <2>2. r1 \in Nat
    <3> HIDE DEF E
    <3> QED BY <1>1, <1>2, RestFacts
  <2> QED BY <2>1, <2>2
<1>7. OverlapPenalty(Candidate, Used, Slot) = step
  <2>1. OverlapPenalty(Candidate, Used, Slot)
          = Far(pool, Candidate, Slot) + Total(Overlaps(pool, Candidate), Used)
    BY <1>1, <1>3, OverlapPenaltyIs
  <2>2. Slot = order[E]
    BY DEF Slot
  <2> HIDE DEF E
  <2> QED BY <1>2, <2>1, <2>2 DEF StepCost
<1>8. step \in Nat
  <2>1. NumSlots \in 0..NumSlots
    BY <1>1
  <2> HIDE DEF E
  <2> QED BY <1>1, <1>2, <2>1, LegalSteps
<1>9. costs[E] + r0 = NextCost + r1
  <2> HIDE DEF E, r0, r1, step
  <2>1. NextCost = costs[E] + step
    BY <1>1, <1>7
  <2> QED BY <1>1, <1>6, <1>8, <2>1
<1> QED BY <1>4, <1>5, <1>6, <1>9

LEMMA LongerFacts ==
  ASSUME SearchInv, Trying, Usable
  PROVE  /\ Longer \in Seq(Cands) /\ Len(Longer) = Len(chosen) + 1
         /\ \A i \in 1..Len(chosen) : Longer[i] = chosen[i]
         /\ Longer[Len(chosen) + 1] = Candidate
         /\ Legal(pool, order, Longer, Len(chosen) + 1)
         /\ Spent(pool, order, Longer, Len(chosen) + 1) = NextCost
         /\ Before(Longer, (Len(chosen) + 1) + 1) = Used \cup {Candidate}
         /\ Cardinality(Used \cup {Candidate}) = Len(chosen) + 1
         /\ \A k \in 0..Len(chosen) :
              /\ Before(Longer, k + 1) = Before(chosen, k + 1)
              /\ Spent(pool, order, Longer, k) = Spent(pool, order, chosen, k)
<1> DEFINE D == Len(chosen)
           E == D + 1
           c == Longer
<1>1. /\ pool \in Pools /\ InOrder(order)
      /\ D \in Nat /\ E \in 1..NumSlots /\ E \in Nat /\ D \in 0..NumSlots /\ E \in 0..NumSlots
      /\ Used = Before(chosen, E) /\ Used \in SUBSET Cands /\ Slot \in Slots /\ Candidate \in Cands
      /\ costs[E] \in Nat /\ Candidate \in Fits(pool, Slot)
      /\ NextCost = costs[E] + OverlapPenalty(Candidate, Used, Slot)
      /\ Slot = order[E] /\ E > 0 /\ E - 1 = D
  BY TurnFacts, Sizes DEF Slot
<1>2. /\ chosen \in Seq(Cands) /\ Legal(pool, order, chosen, D) /\ costs[E] = Spent(pool, order, chosen, D)
  <2>1. Calls(pool, order, chosen, costs, ranked) /\ D \in 0..D
    BY <1>1 DEF SearchInv, Trying
  <2> QED BY <2>1 DEF Calls
<1>3. c \in Seq(Cands) /\ Len(c) = E /\ (\A i \in 1..D : c[i] = chosen[i]) /\ c[E] = Candidate
  <2>1. c = Append(chosen, Candidate)
    BY DEF Longer
  <2> HIDE DEF D, c
  <2>2. chosen \in Seq(Cands) /\ Len(chosen) = D
    BY <1>2 DEF D
  <2> QED BY <1>1, <2>1, <2>2, AppendFacts
<1> HIDE DEF E
<1>4. /\ Legal(pool, order, c, D)
      /\ \A i \in 1..(D + 1) : Before(c, i) = Before(chosen, i)
      /\ \A m \in 0..D : Spent(pool, order, c, m) = Spent(pool, order, chosen, m)
  <2>1. Agree(chosen, c, D)
    BY <1>3 DEF Agree
  <2> HIDE DEF D, c
  <2> QED BY <1>1, <1>2, <2>1, SameStart
<1>5. Before(c, E) = Used
  <2>1. E \in 1..(D + 1)
    BY <1>1 DEF E
  <2> QED BY <1>1, <1>4, <2>1
<1>6. Before(c, E + 1) = Used \cup {Candidate}
  <2>1. \A j : j \in 1..((E + 1) - 1) <=> j \in 1..(E - 1) \/ j = E
    BY <1>1
  <2>2. Before(c, E + 1) = Before(c, E) \cup {c[E]}
    BY <2>1 DEF Before
  <2> QED BY <1>3, <1>5, <2>2
<1>7. Legal(pool, order, c, E)
  <2>1. ASSUME NEW i \in 1..E
        PROVE  c[i] \in Fits(pool, order[i]) /\ \A j \in 1..(i - 1) : pool.overlap[c[i]][c[j]] # Hard
    <3>1. CASE i = E
      <4>1. c[i] = Candidate /\ Candidate \in Fits(pool, order[i])
        BY <1>1, <1>3, <3>1
      <4>2. ASSUME NEW j \in 1..(i - 1)
            PROVE  pool.overlap[c[i]][c[j]] # Hard
        <5>1. c[j] \in Used
          BY <1>5, <3>1 DEF Before
        <5> QED BY <4>1, <5>1 DEF Usable, Collides
      <4> QED BY <4>1, <4>2
    <3>2. CASE i # E
      <4>1. i \in 1..D
        BY <1>1, <3>2
      <4> QED BY <1>4, <4>1 DEF Legal
    <3> QED BY <3>1, <3>2
  <2> QED BY <2>1 DEF Legal
<1>8. Cardinality(Used \cup {Candidate}) = E
  <2> HIDE DEF c
  <2>1. Cardinality(Before(c, E + 1)) = E
    BY <1>1, <1>7, BeforeCount
  <2> QED BY <1>6, <2>1
<1>9. Spent(pool, order, c, E) = NextCost
  <2>1. Spent(pool, order, c, E) = Spent(pool, order, c, D) + StepCost(pool, order, c, E)
    <3> HIDE DEF D, c
    <3> QED BY <1>1, <1>7, SpentFacts
  <2>2. Spent(pool, order, c, D) = costs[E]
    <3>1. D \in 0..D
      BY <1>1
    <3> QED BY <1>2, <1>4, <3>1
  <2>3. StepCost(pool, order, c, E) = OverlapPenalty(Candidate, Used, Slot)
    <3>1. \A d \in Used : pool.overlap[Candidate][d] # Hard
      BY DEF Usable, Collides
    <3>2. OverlapPenalty(Candidate, Used, Slot)
            = Far(pool, Candidate, Slot) + Total(Overlaps(pool, Candidate), Used)
      BY <1>1, <3>1, OverlapPenaltyIs
    <3> HIDE DEF c
    <3> QED BY <1>1, <1>3, <1>5, <3>2 DEF StepCost
  <2> QED BY <1>1, <2>1, <2>2, <2>3
<1>10. \A k \in 0..D : Before(c, k + 1) = Before(chosen, k + 1)
  <2>1. \A k \in 0..D : k + 1 \in 1..(D + 1)
    BY <1>1
  <2> QED BY <1>4, <2>1
<1> QED BY <1>3, <1>4, <1>6, <1>7, <1>8, <1>9, <1>10 DEF E

-----------------------------------------------------------------------------
(* The steps of the search.  What is beaten stays beaten by a better best,  *)
(* and a memo entry for one more candidate is no open call's: a legal       *)
(* choice of k candidates has k of them.                                    *)

Betters(bst, new) == \A x \in Nat : Beaten(bst, x) => Beaten(new, x)

LEMMA ClosedStays ==
  ASSUME NEW p \in Pools, NEW o, InOrder(o), NEW bst, NEW new, Betters(bst, new),
         NEW U, NEW v \in Nat, Closed(p, o, bst, U, v)
  PROVE  Closed(p, o, new, U, v)
<1>1. ASSUME NEW b \in Full(p, o), NEW k \in 0..NumSlots, Before(b, k + 1) = U
      PROVE  Beaten(new, v + Rest(p, o, b, k))
  <2>1. Legal(p, o, b, NumSlots)
    BY DEF Full
  <2>2. Rest(p, o, b, k) \in Nat
    BY <2>1, RestFacts
  <2>3. Beaten(bst, v + Rest(p, o, b, k))
    BY <1>1 DEF Closed
  <2> QED BY <2>2, <2>3 DEF Betters
<1> QED BY <1>1 DEF Closed

LEMMA CountOfFull ==
  ASSUME NEW p \in Pools, NEW o, InOrder(o), NEW b \in Full(p, o), NEW k \in 0..NumSlots
  PROVE  Cardinality(Before(b, k + 1)) = k
<1>1. NumSlots \in Nat /\ Legal(p, o, b, NumSlots)
  BY Sizes DEF Full
<1>2. k \in 0..NumSlots /\ Legal(p, o, b, k)
  BY <1>1, LegalStart
<1> QED BY <1>2, BeforeCount

LEMMA CountOfOpen ==
  ASSUME SearchInv, status = "searching", NEW k \in 0..Len(chosen)
  PROVE  /\ Cardinality(Before(chosen, k + 1)) = k
         /\ Len(chosen) \in Nat /\ k \in Nat /\ k <= Len(chosen) /\ k < NumSlots
         /\ costs[k + 1] \in Nat
         /\ costs[k + 1] = Spent(pool, order, chosen, k)
         /\ Legal(pool, order, chosen, Len(chosen))
         /\ pool \in Pools /\ InOrder(order) /\ chosen \in Seq(Cands)
<1>1. pool \in Pools /\ InOrder(order) /\ Calls(pool, order, chosen, costs, ranked)
  BY DEF SearchInv
<1>2. /\ chosen \in Seq(Cands) /\ Len(chosen) < NumSlots
      /\ costs \in Seq(Nat) /\ Len(costs) = Len(chosen) + 1
      /\ Legal(pool, order, chosen, Len(chosen))
      /\ costs[k + 1] = Spent(pool, order, chosen, k)
  BY <1>1 DEF Calls
<1>3. Len(chosen) \in Nat /\ NumSlots \in Nat
  BY <1>2, Sizes
<1>4. k \in 0..NumSlots /\ Legal(pool, order, chosen, k)
  BY <1>2, <1>3, LegalStart
<1>5. Cardinality(Before(chosen, k + 1)) = k
  BY <1>1, <1>4, BeforeCount
<1>6. k + 1 \in 1..Len(costs)
  BY <1>2, <1>3
<1>7. costs[k + 1] \in Nat
  BY <1>2, <1>6
<1> QED BY <1>1, <1>2, <1>3, <1>5, <1>7

LEMMA NewIsNotOpen ==
  ASSUME SearchInv, Trying, Usable
  PROVE  ~Open(chosen, Used \cup {Candidate})
<1>1. SUFFICES ASSUME NEW k \in 0..Len(chosen), Used \cup {Candidate} = Before(chosen, k + 1)
               PROVE  FALSE
  BY DEF Open
<1>2. Cardinality(Before(chosen, k + 1)) = k /\ k \in Nat /\ k <= Len(chosen) /\ Len(chosen) \in Nat
  BY CountOfOpen DEF Trying
<1>3. Cardinality(Used \cup {Candidate}) = Len(chosen) + 1
  BY LongerFacts
<1>4. Cardinality(Before(chosen, k + 1)) = Len(chosen) + 1
  BY <1>1, <1>3
<1> DEFINE n == Cardinality(Before(chosen, k + 1))
<1>5. n = k /\ n = Len(chosen) + 1
  BY <1>2, <1>4
<1> HIDE DEF n
<1> QED BY <1>2, <1>5

NextBeaten(bst) ==
  \A b \in Full(pool, order) :
    Before(b, Len(chosen) + 1) = Used /\ b[Len(chosen) + 1] = Candidate =>
      Beaten(bst, costs[Len(chosen) + 1] + Rest(pool, order, b, Len(chosen)))

(* Nothing is lost by not calling dfs, or by its returning at once. *)
LEMMA PassedIsBeaten ==
  ASSUME SearchInv, ExactInv, Trying, ~Usable \/ Pruned
  PROVE  NextBeaten(best)
<1> DEFINE E == Len(chosen) + 1
           U == Used \cup {Candidate}
<1>1. SUFFICES ASSUME NEW b \in Full(pool, order), Before(b, E) = Used, b[E] = Candidate
               PROVE  Beaten(best, costs[E] + Rest(pool, order, b, Len(chosen)))
  BY DEF NextBeaten
<1> DEFINE rest == Rest(pool, order, b, E)
<1>2. /\ Usable
      /\ Before(b, E + 1) = U
      /\ rest \in Nat
      /\ costs[E] + Rest(pool, order, b, Len(chosen)) = NextCost + rest
  BY <1>1, TurnCost
<1>3. NextCost \in Nat /\ pool \in Pools /\ InOrder(order) /\ E \in 0..NumSlots
  BY TurnFacts, Sizes
<1> HIDE DEF E, rest
<1>4. Beaten(best, NextCost + rest)
  <2>1. CASE ~NoBest /\ NextCost >= best.penalty
    <3>1. /\ best.assignment # <<>> /\ best.penalty \in Nat
      <4>1. /\ best.assignment # <<>>
            /\ Legal(pool, order, best.assignment, NumSlots)
            /\ best.penalty = Spent(pool, order, best.assignment, NumSlots)
        BY <2>1 DEF NoBest, SearchInv, Found
      <4>2. NumSlots \in 0..NumSlots
        BY Sizes
      <4> QED BY <1>3, <4>1, <4>2, SpentFacts
    <3> QED BY <1>2, <1>3, <2>1, <3>1 DEF Beaten
  <2>2. CASE U \in DOMAIN seen /\ NextCost >= seen[U]
    <3>1. SeenOK(pool, order, best, chosen, seen)
      BY DEF ExactInv, Trying
    <3>2. seen[U] \in Nat /\ (Open(chosen, U) \/ Closed(pool, order, best, U, seen[U]))
      BY <2>2, <3>1 DEF SeenOK
    <3>3. ~Open(chosen, U)
      BY <1>2, NewIsNotOpen
    <3>4. Beaten(best, seen[U] + rest)
      BY <1>2, <1>3, <3>2, <3>3 DEF Closed, rest
    <3>5. best.assignment # <<>> /\ best.penalty \in Nat
      <4>1. /\ best.assignment # <<>>
            /\ Legal(pool, order, best.assignment, NumSlots)
            /\ best.penalty = Spent(pool, order, best.assignment, NumSlots)
        BY <3>4 DEF Beaten, SearchInv, Found
      <4>2. NumSlots \in 0..NumSlots
        BY Sizes
      <4> QED BY <1>3, <4>1, <4>2, SpentFacts
    <3> QED BY <1>2, <1>3, <2>2, <3>2, <3>4, <3>5 DEF Beaten
  <2> QED BY <1>2, <2>1, <2>2 DEF Pruned
<1> QED BY <1>2, <1>4

LEMMA TriedStaysBeaten ==
  ASSUME SearchInv, ExactInv, Trying, NEW bst, Betters(best, bst), NextBeaten(bst)
  PROVE  TriedBeaten(pool, order, bst, chosen, costs, Tried)
<1> DEFINE D == Len(chosen)
<1>1. SUFFICES ASSUME NEW k \in 0..D, NEW b \in Full(pool, order),
                      Before(b, k + 1) = Before(chosen, k + 1),
                      b[k + 1] \notin Range(Tried[k + 1]),
                      ~(k < D /\ b[k + 1] = chosen[k + 1])
               PROVE  Beaten(bst, costs[k + 1] + Rest(pool, order, b, k))
  BY DEF TriedBeaten
<1>2. /\ k \in Nat /\ D \in Nat /\ k <= D /\ k < NumSlots /\ costs[k + 1] \in Nat
      /\ pool \in Pools /\ InOrder(order)
  BY CountOfOpen DEF Trying
<1>3. Rest(pool, order, b, k) \in Nat
  <2>1. k \in 0..NumSlots /\ Legal(pool, order, b, NumSlots)
    BY <1>2, Sizes DEF Full
  <2> QED BY <1>2, <2>1, RestFacts
<1>4. \/ b[k + 1] \in Range(ranked[k + 1])
      \/ Beaten(best, costs[k + 1] + Rest(pool, order, b, k))
  <2>1. TriedBeaten(pool, order, best, chosen, costs, ranked)
    BY DEF ExactInv, Trying
  <2> QED BY <1>1, <2>1 DEF TriedBeaten
<1>5. CASE Beaten(best, costs[k + 1] + Rest(pool, order, b, k))
  BY <1>2, <1>3, <1>5 DEF Betters
<1>6. CASE b[k + 1] \in Range(ranked[k + 1])
  <2>1. k = D
    <3>1. ASSUME k < D
          PROVE  Tried[k + 1] = ranked[k + 1]
      <4>1. k + 1 \in 1..D
        BY <1>2, <3>1
      <4> QED BY <4>1, TurnFacts
    <3> QED BY <1>1, <1>2, <1>6, <3>1
  <2>2. b[D + 1] = Candidate
    BY <1>1, <1>6, <2>1, TurnFacts
  <2>3. Before(b, D + 1) = Used
    BY <1>1, <2>1, TurnFacts
  <2> QED BY <2>1, <2>2, <2>3 DEF NextBeaten
<1> QED BY <1>4, <1>5, <1>6

LEMMA TriedCalls ==
  ASSUME SearchInv, Trying
  PROVE  Calls(pool, order, chosen, costs, Tried)
<1> DEFINE D == Len(chosen)
<1>1. Calls(pool, order, chosen, costs, ranked)
  BY DEF SearchInv, Trying
<1>2. ASSUME NEW k \in 0..D
      PROVE  Range(Tried[k + 1]) \subseteq Fits(pool, order[k + 1])
  <2>1. Range(ranked[k + 1]) \subseteq Fits(pool, order[k + 1])
    BY <1>1 DEF Calls
  <2>2. D \in Nat
    BY TurnFacts
  <2>3. CASE k = D
    BY <2>1, <2>3, TurnFacts
  <2>4. CASE k # D
    <3>1. k + 1 \in 1..D
      BY <2>2, <2>4
    <3> QED BY <2>1, <3>1, TurnFacts
  <2> QED BY <2>3, <2>4
<1>3. Tried \in Seq(Seq(Cands)) /\ Len(Tried) = D + 1
  BY TurnFacts
<1> QED BY <1>1, <1>2, <1>3 DEF Calls

LEMMA PassOverKeeps ==
  ASSUME SearchInv, ExactInv, PassOver
  PROVE  SearchInv' /\ ExactInv'
<1>1. /\ Trying /\ (~Usable \/ Pruned) /\ ranked' = Tried
      /\ pool' = pool /\ status' = status /\ order' = order /\ chosen' = chosen
      /\ costs' = costs /\ best' = best /\ seen' = seen
      /\ status = "searching"
  BY DEF PassOver, Trying
<1>2. SearchInv'
  <2>1. Calls(pool, order, chosen, costs, Tried)
    BY <1>1, TriedCalls
  <2> QED BY <1>1, <2>1 DEF SearchInv
<1>3. TriedBeaten(pool, order, best, chosen, costs, Tried)
  <2>1. Betters(best, best)
    BY DEF Betters
  <2>2. NextBeaten(best)
    BY <1>1, PassedIsBeaten
  <2> QED BY <1>1, <2>1, <2>2, TriedStaysBeaten
<1>4. ExactInv'
  <2>1. SeenOK(pool, order, best, chosen, seen) /\ OpenSeen(chosen, costs, seen)
    BY <1>1 DEF ExactInv
  <2> QED BY <1>1, <1>3, <2>1 DEF ExactInv
<1> QED BY <1>2, <1>4

(* An entry for what is not open leaves the entries of the open calls. *)
LEMMA RememberFacts ==
  ASSUME SearchInv, ExactInv, Trying, Usable, Remember
  PROVE  /\ DOMAIN seen' = {Used \cup {Candidate}} \cup DOMAIN seen
         /\ seen'[Used \cup {Candidate}] = NextCost
         /\ \A U \in DOMAIN seen : U # Used \cup {Candidate} => seen'[U] = seen[U]
         /\ OpenSeen(chosen, costs, seen')
<1> DEFINE N == Used \cup {Candidate}
<1>1. seen' = [used \in {N} \cup DOMAIN seen |-> IF used = N THEN NextCost ELSE seen[used]]
  BY DEF Remember
<1>2. /\ DOMAIN seen' = {N} \cup DOMAIN seen
      /\ seen'[N] = NextCost
      /\ \A U \in DOMAIN seen : U # N => seen'[U] = seen[U]
  <2> HIDE DEF N
  <2> QED BY <1>1
<1>3. ~Open(chosen, N)
  BY NewIsNotOpen
<1>4. OpenSeen(chosen, costs, seen)
  BY DEF ExactInv, Trying
<1> HIDE DEF N
<1>5. OpenSeen(chosen, costs, seen')
  <2>1. ASSUME NEW k \in 0..Len(chosen)
        PROVE  /\ Before(chosen, k + 1) \in DOMAIN seen'
               /\ seen'[Before(chosen, k + 1)] = costs[k + 1]
    <3>1. Before(chosen, k + 1) \in DOMAIN seen /\ seen[Before(chosen, k + 1)] = costs[k + 1]
      BY <1>4 DEF OpenSeen
    <3>2. Before(chosen, k + 1) # N
      BY <1>3 DEF Open
    <3> QED BY <1>2, <3>1, <3>2
  <2> QED BY <2>1 DEF OpenSeen
<1> QED BY <1>2, <1>5 DEF N

LEMMA ImproveKeeps ==
  ASSUME SearchInv, ExactInv, Improve
  PROVE  SearchInv' /\ ExactInv'
<1> DEFINE N == Used \cup {Candidate}
           D == Len(chosen)
<1>1. /\ Trying /\ Usable /\ ~Pruned /\ ranked' = Tried /\ Remember
      /\ D + 1 = NumSlots
      /\ best' = [assignment |-> Longer, penalty |-> NextCost]
      /\ pool' = pool /\ status' = status /\ order' = order /\ chosen' = chosen
      /\ costs' = costs
      /\ status = "searching"
  BY DEF Improve, Trying, Longer
<1>2. pool \in Pools /\ InOrder(order) /\ NextCost \in Nat /\ NumSlots \in Nat /\ D \in Nat
  BY <1>1, TurnFacts, Sizes
<1>3. /\ best'.assignment = Longer /\ best'.penalty = NextCost
      /\ Longer \in Seq(Cands) /\ Len(Longer) = NumSlots
      /\ Legal(pool, order, Longer, NumSlots)
      /\ NextCost = Spent(pool, order, Longer, NumSlots)
      /\ Cardinality(N) = NumSlots
  BY <1>1, LongerFacts
<1>4. Longer # <<>> /\ Longer \in [1..NumSlots -> Cands]
  BY <1>2, <1>3, Sizes
<1>5. SearchInv'
  <2>1. Calls(pool, order, chosen, costs, Tried)
    BY <1>1, TriedCalls
  <2>2. Found(pool, order, best')
    BY <1>2, <1>3, <1>4 DEF Found
  <2> QED BY <1>1, <2>1, <2>2 DEF SearchInv
<1>6. Betters(best, best')
  <2>1. SUFFICES ASSUME NEW x \in Nat, Beaten(best, x)
                 PROVE  Beaten(best', x)
    BY DEF Betters
  <2>2. ~NoBest /\ best.penalty \in Nat /\ best.penalty <= x
    <3>1. ~NoBest /\ best.penalty <= x
      BY <2>1 DEF Beaten, NoBest
    <3>2. /\ Legal(pool, order, best.assignment, NumSlots)
          /\ best.penalty = Spent(pool, order, best.assignment, NumSlots)
      BY <3>1 DEF NoBest, SearchInv, Found
    <3>3. NumSlots \in 0..NumSlots
      BY <1>2
    <3> QED BY <1>2, <3>1, <3>2, <3>3, SpentFacts
  <2>3. ~(NextCost >= best.penalty)
    BY <1>1, <2>2 DEF Pruned
  <2> QED BY <1>2, <1>3, <1>4, <2>2, <2>3 DEF Beaten
<1>7. NextBeaten(best')
  <2>1. SUFFICES ASSUME NEW b \in Full(pool, order), Before(b, D + 1) = Used, b[D + 1] = Candidate
                 PROVE  Beaten(best', costs[D + 1] + Rest(pool, order, b, D))
    BY DEF NextBeaten
  <2> DEFINE rest == Rest(pool, order, b, D + 1)
  <2>2. rest \in Nat /\ costs[D + 1] + Rest(pool, order, b, D) = NextCost + rest
    BY <1>1, <2>1, TurnCost
  <2> HIDE DEF rest
  <2>3. NextCost <= NextCost + rest
    BY <1>2, <2>2
  <2> QED BY <1>3, <1>4, <2>2, <2>3 DEF Beaten
<1>8. TriedBeaten(pool, order, best', chosen, costs, Tried)
  BY <1>1, <1>6, <1>7, TriedStaysBeaten
<1>9. /\ DOMAIN seen' = {N} \cup DOMAIN seen
      /\ seen'[N] = NextCost
      /\ \A U \in DOMAIN seen : U # N => seen'[U] = seen[U]
      /\ OpenSeen(chosen, costs, seen')
  BY <1>1, RememberFacts
<1>10. Closed(pool, order, best', N, NextCost)
  <2>1. SUFFICES ASSUME NEW b \in Full(pool, order), NEW k \in 0..NumSlots, Before(b, k + 1) = N
                 PROVE  Beaten(best', NextCost + Rest(pool, order, b, k))
    BY DEF Closed
  <2>2. Legal(pool, order, b, NumSlots)
    BY DEF Full
  <2>3. Rest(pool, order, b, k) \in Nat
    BY <1>2, <2>2, RestFacts
  <2> DEFINE rest == Rest(pool, order, b, k)
  <2> HIDE DEF rest
  <2>4. NextCost <= NextCost + rest
    BY <1>2, <2>3 DEF rest
  <2>5. Beaten(best', NextCost + rest)
    BY <1>3, <1>4, <2>4 DEF Beaten
  <2> QED BY <2>5 DEF rest
<1>11. SeenOK(pool, order, best', chosen, seen')
  <2>1. SUFFICES ASSUME NEW U \in DOMAIN seen'
                 PROVE  /\ seen'[U] \in Nat
                        /\ Open(chosen, U) \/ Closed(pool, order, best', U, seen'[U])
    BY DEF SeenOK
  <2> HIDE DEF N
  <2>2. CASE U = N
    BY <1>2, <1>9, <1>10, <2>2
  <2>3. CASE U # N
    <3>1. U \in DOMAIN seen /\ seen'[U] = seen[U]
      BY <1>9, <2>3
    <3>2. seen[U] \in Nat /\ (Open(chosen, U) \/ Closed(pool, order, best, U, seen[U]))
      BY <1>1, <3>1 DEF ExactInv, SeenOK
    <3>3. Closed(pool, order, best, U, seen[U]) => Closed(pool, order, best', U, seen[U])
      BY <1>2, <1>6, <3>2, ClosedStays
    <3> QED BY <3>1, <3>2, <3>3
  <2> QED BY <2>2, <2>3
<1>12. ExactInv'
  BY <1>1, <1>8, <1>9, <1>11 DEF ExactInv
<1> QED BY <1>5, <1>12

LEMMA DescendKeeps ==
  ASSUME SearchInv, ExactInv, Descend
  PROVE  SearchInv' /\ ExactInv'
<1> DEFINE N == Used \cup {Candidate}
           D == Len(chosen)
           E == D + 1
           c == Longer
           v == Append(costs, NextCost)
           list == Ranked(N, order[D + 2])
           r == Append(Tried, list)
<1>1. /\ Trying /\ Usable /\ Remember /\ D + 1 < NumSlots
      /\ chosen' = c /\ costs' = v /\ ranked' = r
      /\ pool' = pool /\ status' = status /\ order' = order /\ best' = best
      /\ status = "searching"
  BY DEF Descend, Trying, Longer
<1>2. /\ pool \in Pools /\ InOrder(order) /\ NextCost \in Nat /\ NumSlots \in Nat /\ D \in Nat
      /\ E \in Nat /\ E < NumSlots /\ N \in SUBSET Cands /\ order[E + 1] \in Slots
      /\ E \in 0..NumSlots
  <2>1. /\ pool \in Pools /\ InOrder(order) /\ NextCost \in Nat /\ NumSlots \in Nat /\ D \in Nat
        /\ Used \in SUBSET Cands /\ Candidate \in Cands
    BY <1>1, TurnFacts, Sizes
  <2>2. E + 1 \in 1..NumSlots
    BY <1>1, <2>1
  <2> QED BY <1>1, <2>1, <2>2 DEF InOrder
<1>3. /\ c \in Seq(Cands) /\ Len(c) = E
      /\ \A i \in 1..D : c[i] = chosen[i]
      /\ c[E] = Candidate
      /\ Legal(pool, order, c, E) /\ Spent(pool, order, c, E) = NextCost
      /\ Before(c, E + 1) = N
      /\ \A k \in 0..D : /\ Before(c, k + 1) = Before(chosen, k + 1)
                         /\ Spent(pool, order, c, k) = Spent(pool, order, chosen, k)
  BY <1>1, LongerFacts
<1>4. Calls(pool, order, chosen, costs, Tried)
  BY <1>1, TriedCalls
<1>5. v \in Seq(Nat) /\ Len(v) = E + 1 /\ (\A i \in 1..E : v[i] = costs[i]) /\ v[E + 1] = NextCost
  <2>1. costs \in Seq(Nat) /\ Len(costs) = E
    BY <1>4 DEF Calls
  <2> HIDE DEF E
  <2> QED BY <1>2, <2>1, AppendFacts
<1>6. list \in Seq(Cands) /\ Range(list) = Fits(pool, order[E + 1])
  <2>1. order[D + 2] = order[E + 1]
    BY <1>2
  <2> HIDE DEF N, E
  <2> QED BY <1>2, <2>1, RankedFacts
<1>7. /\ r \in Seq(Seq(Cands)) /\ Len(r) = E + 1
      /\ \A i \in 1..E : r[i] = Tried[i]
      /\ r[E + 1] = list
  <2> DEFINE Lists == Seq(Cands)
  <2>1. Tried \in Seq(Lists) /\ Len(Tried) = E /\ list \in Lists
    BY <1>1, <1>6, TurnFacts
  <2> HIDE DEF Lists, E, list
  <2> QED BY <1>2, <2>1, AppendFacts DEF Lists
<1> HIDE DEF c, v, r, list, N
<1>8. \A k \in 0..E : k = E \/ (k \in 0..D /\ k + 1 \in 1..E)
  BY <1>2
<1>9. Calls(pool, order, c, v, r)
  <2>1. ASSUME NEW k \in 0..E
        PROVE  v[k + 1] = Spent(pool, order, c, k) /\ Range(r[k + 1]) \subseteq Fits(pool, order[k + 1])
    <3>1. CASE k = E
      BY <1>3, <1>5, <1>6, <1>7, <3>1
    <3>2. CASE k \in 0..D /\ k + 1 \in 1..E
      <4>1. costs[k + 1] = Spent(pool, order, chosen, k) /\ Range(Tried[k + 1]) \subseteq Fits(pool, order[k + 1])
        BY <1>4, <3>2 DEF Calls
      <4>2. v[k + 1] = costs[k + 1] /\ r[k + 1] = Tried[k + 1]
        BY <1>5, <1>7, <3>2
      <4>3. Spent(pool, order, c, k) = Spent(pool, order, chosen, k)
        BY <1>3, <3>2
      <4> QED BY <4>1, <4>2, <4>3
    <3> QED BY <1>8, <3>1, <3>2
  <2> HIDE DEF E
  <2> QED BY <1>2, <1>3, <1>5, <1>7, <2>1 DEF Calls
<1>10. SearchInv'
  BY <1>1, <1>9 DEF SearchInv
<1>11. /\ DOMAIN seen' = {N} \cup DOMAIN seen
       /\ seen'[N] = NextCost
       /\ \A U \in DOMAIN seen : U # N => seen'[U] = seen[U]
       /\ OpenSeen(chosen, costs, seen')
  BY <1>1, RememberFacts DEF N
<1>12. Open(c, N) /\ \A U : Open(chosen, U) => Open(c, U)
  <2>1. E \in 0..Len(c)
    BY <1>2, <1>3
  <2>2. Open(c, N)
    BY <1>3, <2>1 DEF Open
  <2>3. ASSUME NEW U, Open(chosen, U)
        PROVE  Open(c, U)
    <3>1. PICK k \in 0..D : U = Before(chosen, k + 1)
      BY <2>3 DEF Open
    <3>2. U = Before(c, k + 1) /\ k \in 0..Len(c)
      BY <1>2, <1>3, <3>1
    <3> QED BY <3>2 DEF Open
  <2> QED BY <2>2, <2>3
<1>13. SeenOK(pool, order, best, c, seen')
  <2>1. SUFFICES ASSUME NEW U \in DOMAIN seen'
                 PROVE  /\ seen'[U] \in Nat
                        /\ Open(c, U) \/ Closed(pool, order, best, U, seen'[U])
    BY DEF SeenOK
  <2>2. CASE U = N
    BY <1>2, <1>11, <1>12, <2>2
  <2>3. CASE U # N
    <3>1. U \in DOMAIN seen /\ seen'[U] = seen[U]
      BY <1>11, <2>3
    <3>2. seen[U] \in Nat /\ (Open(chosen, U) \/ Closed(pool, order, best, U, seen[U]))
      BY <1>1, <3>1 DEF ExactInv, SeenOK
    <3> QED BY <1>12, <3>1, <3>2
  <2> QED BY <2>2, <2>3
<1>14. OpenSeen(c, v, seen')
  <2>1. ASSUME NEW k \in 0..E
        PROVE  Before(c, k + 1) \in DOMAIN seen' /\ seen'[Before(c, k + 1)] = v[k + 1]
    <3>1. CASE k = E
      BY <1>3, <1>5, <1>11, <3>1
    <3>2. CASE k \in 0..D /\ k + 1 \in 1..E
      <4>1. Before(chosen, k + 1) \in DOMAIN seen' /\ seen'[Before(chosen, k + 1)] = costs[k + 1]
        BY <1>11, <3>2 DEF OpenSeen
      <4>2. Before(c, k + 1) = Before(chosen, k + 1) /\ v[k + 1] = costs[k + 1]
        BY <1>3, <1>5, <3>2
      <4> QED BY <4>1, <4>2
    <3> QED BY <1>8, <3>1, <3>2
  <2> QED BY <1>3, <2>1 DEF OpenSeen
<1>15. TriedBeaten(pool, order, best, c, v, r)
  <2>1. SUFFICES ASSUME NEW k \in 0..E, NEW b \in Full(pool, order),
                        Before(b, k + 1) = Before(c, k + 1),
                        b[k + 1] \notin Range(r[k + 1]),
                        ~(k < E /\ b[k + 1] = c[k + 1])
                 PROVE  Beaten(best, v[k + 1] + Rest(pool, order, b, k))
    BY <1>3 DEF TriedBeaten
  <2>2. CASE k = E
    <3>1. E + 1 \in 1..NumSlots
      BY <1>2
    <3>2. b[E + 1] \in Fits(pool, order[E + 1])
      BY <3>1 DEF Full, Legal
    <3>3. r[E + 1] = list
      BY <1>7
    <3> QED BY <1>6, <2>1, <2>2, <3>2, <3>3
  <2>3. CASE k \in 0..D /\ k + 1 \in 1..E
    <3>1. Before(b, k + 1) = Before(chosen, k + 1) /\ v[k + 1] = costs[k + 1] /\ r[k + 1] = Tried[k + 1]
      BY <1>3, <1>5, <1>7, <2>1, <2>3
    <3>2. b[k + 1] # c[k + 1]
      BY <1>2, <2>1, <2>3
    <3>3. b[k + 1] \notin Range(ranked[k + 1])
      <4>1. CASE k = D
        <5>1. c[D + 1] = Candidate
          BY <1>3
        <5>2. Range(ranked[D + 1]) = {Candidate} \cup Range(Tried[D + 1])
          BY <1>1, TurnFacts
        <5> QED BY <2>1, <3>1, <3>2, <4>1, <5>1, <5>2
      <4>2. CASE k # D
        <5>1. k + 1 \in 1..D
          BY <1>2, <2>3, <4>2
        <5>2. Tried[k + 1] = ranked[k + 1]
          BY <1>1, <5>1, TurnFacts
        <5> QED BY <2>1, <3>1, <5>2
      <4> QED BY <4>1, <4>2
    <3>4. ~(k < D /\ b[k + 1] = chosen[k + 1])
      <4>1. ASSUME k < D
            PROVE  chosen[k + 1] = c[k + 1]
        <5>1. k + 1 \in 1..D
          BY <1>2, <2>3, <4>1
        <5> QED BY <1>3, <5>1
      <4> QED BY <3>2, <4>1
    <3>5. TriedBeaten(pool, order, best, chosen, costs, ranked)
      BY <1>1 DEF ExactInv
    <3>6. Beaten(best, costs[k + 1] + Rest(pool, order, b, k))
      BY <2>3, <3>1, <3>3, <3>4, <3>5 DEF TriedBeaten
    <3> QED BY <3>1, <3>6
  <2> QED BY <1>8, <2>2, <2>3
<1>16. ExactInv'
  BY <1>1, <1>13, <1>14, <1>15 DEF ExactInv
<1> QED BY <1>10, <1>16

(* A call that has nothing left to try: all that goes on from it is beaten. *)
LEMMA EmptyIsClosed ==
  ASSUME SearchInv, ExactInv, status = "searching", Last(ranked) = <<>>,
         NEW b \in Full(pool, order),
         Before(b, Len(chosen) + 1) = Before(chosen, Len(chosen) + 1)
  PROVE  Beaten(best, costs[Len(chosen) + 1] + Rest(pool, order, b, Len(chosen)))
<1> DEFINE D == Len(chosen)
<1>1. Calls(pool, order, chosen, costs, ranked)
  BY DEF SearchInv
<1>2. D \in Nat /\ D \in 0..D /\ Len(ranked) = D + 1
  BY <1>1 DEF Calls
<1>3. ranked[D + 1] = <<>>
  BY <1>2 DEF Last
<1>4. Range(ranked[D + 1]) = {}
  BY <1>3 DEF Range
<1>5. TriedBeaten(pool, order, best, chosen, costs, ranked)
  BY DEF ExactInv
<1>6. ~(D < D)
  BY <1>2
<1> HIDE DEF D
<1> QED BY <1>2, <1>4, <1>5, <1>6 DEF TriedBeaten, D

LEMMA ReturnKeeps ==
  ASSUME SearchInv, ExactInv, Return
  PROVE  SearchInv' /\ ExactInv'
<1> DEFINE D == Len(chosen)
           c == Front(chosen)
           v == Front(costs)
           r == Front(ranked)
<1>1. /\ status = "searching" /\ Last(ranked) = <<>>
      /\ ranked' = r /\ costs' = v
      /\ chosen' = IF chosen = <<>> THEN <<>> ELSE c
      /\ status' = IF Len(ranked) > 1 THEN "searching" ELSE IF NoBest THEN "raised" ELSE "done"
      /\ pool' = pool /\ order' = order /\ best' = best /\ seen' = seen
  BY DEF Return
<1>2. /\ pool \in Pools /\ InOrder(order) /\ Found(pool, order, best)
      /\ Calls(pool, order, chosen, costs, ranked)
  BY <1>1 DEF SearchInv
<1>3. /\ chosen \in Seq(Cands) /\ D < NumSlots /\ D \in Nat /\ NumSlots \in Nat
      /\ costs \in Seq(Nat) /\ Len(costs) = D + 1
      /\ ranked \in Seq(Seq(Cands)) /\ Len(ranked) = D + 1
      /\ Legal(pool, order, chosen, D)
      /\ \A k \in 0..D : costs[k + 1] = Spent(pool, order, chosen, k)
      /\ \A k \in 0..D : Range(ranked[k + 1]) \subseteq Fits(pool, order[k + 1])
  <2>1. /\ chosen \in Seq(Cands) /\ D < NumSlots
        /\ costs \in Seq(Nat) /\ Len(costs) = D + 1
        /\ ranked \in Seq(Seq(Cands)) /\ Len(ranked) = D + 1
        /\ Legal(pool, order, chosen, D)
    BY <1>2 DEF Calls
  <2>2. \A k \in 0..D : costs[k + 1] = Spent(pool, order, chosen, k)
    BY <1>2 DEF Calls
  <2>3. \A k \in 0..D : Range(ranked[k + 1]) \subseteq Fits(pool, order[k + 1])
    BY <1>2 DEF Calls
  <2>4. D \in Nat /\ NumSlots \in Nat
    BY <2>1, Sizes
  <2> QED BY <2>1, <2>2, <2>3, <2>4
<1>4. CASE D = 0
  <2>1. status' = IF NoBest THEN "raised" ELSE "done"
    BY <1>1, <1>3, <1>4
  <2>2. SearchInv'
    BY <1>1, <1>2, <2>1 DEF SearchInv, NoBest
  <2>3. ASSUME NEW b \in Full(pool, order)
        PROVE  Beaten(best, Spent(pool, order, b, NumSlots))
    <3>1. Before(b, 1) = {} /\ Before(chosen, 1) = {}
      BY DEF Before
    <3>2. Before(b, D + 1) = Before(chosen, D + 1)
      BY <1>4, <3>1
    <3>3. Beaten(best, costs[D + 1] + Rest(pool, order, b, D))
      BY <1>1, <3>2, EmptyIsClosed
    <3>4. costs[1] = 0
      <4>1. costs[1] = Spent(pool, order, chosen, 0)
        BY <1>3, <1>4
      <4>2. Spent(pool, order, chosen, 0) = 0
        BY <1>2, <1>3, SpentFacts
      <4> QED BY <4>1, <4>2
    <3>5. Rest(pool, order, b, 0) = Spent(pool, order, b, NumSlots) /\ Rest(pool, order, b, 0) \in Nat
      <4>1. Legal(pool, order, b, NumSlots) /\ 0 \in 0..NumSlots
        BY <1>3 DEF Full
      <4> QED BY <1>2, <4>1, RestFacts
    <3>6. costs[D + 1] + Rest(pool, order, b, D) = Spent(pool, order, b, NumSlots)
      BY <1>4, <3>4, <3>5
    <3> QED BY <3>3, <3>6
  <2>4. ExactInv'
    BY <1>1, <2>1, <2>3 DEF ExactInv
  <2> QED BY <2>2, <2>4
<1>5. CASE D # 0
  <2> DEFINE F == D - 1
  <2>1. F \in Nat /\ D = F + 1 /\ D \in 0..NumSlots /\ F \in 0..NumSlots
    BY <1>3, <1>5
  <2>2. status' = "searching" /\ chosen' = c
    <3>1. chosen # <<>>
      BY <1>5
    <3> QED BY <1>1, <1>3, <1>5, <3>1
  <2>3. c \in Seq(Cands) /\ Len(c) = F /\ \A i \in 1..F : c[i] = chosen[i]
    <3>1. Len(chosen) = F + 1
      BY <2>1
    <3> HIDE DEF F, D
    <3>2. c \in Seq(Cands) /\ Len(c) = F
      BY <1>3, <2>1, <3>1, FrontFacts
    <3>3. ASSUME NEW i \in 1..F
          PROVE  c[i] = chosen[i]
      BY <1>3, <2>1, <3>1, FrontAt
    <3> QED BY <3>2, <3>3
  <2>4. v \in Seq(Nat) /\ Len(v) = D /\ \A i \in 1..D : v[i] = costs[i]
    <3> HIDE DEF D
    <3> QED BY <1>3, FrontFacts, ZenonT(30)
  <2>5. r \in Seq(Seq(Cands)) /\ Len(r) = D /\ \A i \in 1..D : r[i] = ranked[i]
    <3> DEFINE Lists == Seq(Cands)
    <3>1. ranked \in Seq(Lists) /\ Len(ranked) = D + 1 /\ D \in Nat
      BY <1>3
    <3> HIDE DEF Lists, D
    <3>2. r \in Seq(Lists) /\ Len(r) = D
      BY <3>1, FrontFacts
    <3>3. \A i \in 1..D : r[i] = ranked[i]
      BY <3>1 DEF Front
    <3> QED BY <3>2, <3>3 DEF Lists
  <2> HIDE DEF c, v, r, F
  <2>6. /\ Legal(pool, order, c, F)
        /\ \A i \in 1..(F + 1) : Before(c, i) = Before(chosen, i)
        /\ \A m \in 0..F : Spent(pool, order, c, m) = Spent(pool, order, chosen, m)
    <3>1. Agree(chosen, c, F)
      BY <2>3 DEF Agree
    <3>2. Legal(pool, order, chosen, F)
      BY <1>3, <2>1, LegalStart
    <3> QED BY <1>2, <2>1, <3>1, <3>2, SameStart
  <2>7. \A k \in 0..F : k \in 0..D /\ k < D /\ k + 1 \in 1..D /\ k + 1 \in 1..(F + 1)
    BY <2>1
  <2>8. Calls(pool, order, c, v, r)
    <3>1. ASSUME NEW k \in 0..F
          PROVE  v[k + 1] = Spent(pool, order, c, k) /\ Range(r[k + 1]) \subseteq Fits(pool, order[k + 1])
      <4>1. k \in 0..D /\ k + 1 \in 1..D
        BY <2>7
      <4>2. costs[k + 1] = Spent(pool, order, chosen, k) /\ Range(ranked[k + 1]) \subseteq Fits(pool, order[k + 1])
        BY <1>3, <4>1
      <4>3. v[k + 1] = costs[k + 1] /\ r[k + 1] = ranked[k + 1]
        BY <2>4, <2>5, <4>1
      <4> QED BY <2>6, <4>2, <4>3
    <3>2. F < NumSlots
      BY <1>3, <2>1
    <3> QED BY <2>1, <2>3, <2>4, <2>5, <2>6, <3>1, <3>2 DEF Calls
  <2>9. SearchInv'
    BY <1>1, <1>2, <2>2, <2>8 DEF SearchInv
  <2>10. /\ SeenOK(pool, order, best, chosen, seen)
         /\ OpenSeen(chosen, costs, seen)
         /\ TriedBeaten(pool, order, best, chosen, costs, ranked)
    BY <1>1 DEF ExactInv
  <2>11. D \in 0..D
    BY <1>3
  <2>12. SeenOK(pool, order, best, c, seen)
    <3>1. SUFFICES ASSUME NEW U \in DOMAIN seen
                   PROVE  /\ seen[U] \in Nat
                          /\ Open(c, U) \/ Closed(pool, order, best, U, seen[U])
      BY DEF SeenOK
    <3>2. seen[U] \in Nat /\ (Open(chosen, U) \/ Closed(pool, order, best, U, seen[U]))
      BY <2>10 DEF SeenOK
    <3>3. ASSUME NEW k \in 0..D, U = Before(chosen, k + 1), k # D
          PROVE  Open(c, U)
      <4>1. k \in 0..F /\ k + 1 \in 1..(F + 1)
        BY <1>3, <2>1, <3>3
      <4>2. U = Before(c, k + 1)
        BY <2>6, <3>3, <4>1
      <4> QED BY <2>3, <4>1, <4>2 DEF Open
    <3>4. ASSUME U = Before(chosen, D + 1)
          PROVE  Closed(pool, order, best, U, seen[U])
      <4>1. seen[U] = costs[D + 1]
        BY <2>10, <2>11, <3>4 DEF OpenSeen
      <4>2. Cardinality(U) = D
        BY <1>1, <2>11, <3>4, CountOfOpen
      <4>3. ASSUME NEW b \in Full(pool, order), NEW k \in 0..NumSlots, Before(b, k + 1) = U
            PROVE  Beaten(best, seen[U] + Rest(pool, order, b, k))
        <5>1. Cardinality(Before(b, k + 1)) = k
          BY <1>2, CountOfFull
        <5>2. k = D
          BY <4>2, <4>3, <5>1
        <5>3. Before(b, D + 1) = Before(chosen, D + 1)
          BY <3>4, <4>3, <5>2
        <5>4. Beaten(best, costs[D + 1] + Rest(pool, order, b, D))
          BY <1>1, <5>3, EmptyIsClosed
        <5> QED BY <4>1, <5>2, <5>4
      <4> QED BY <4>3 DEF Closed
    <3>5. Open(chosen, U) => Open(c, U) \/ Closed(pool, order, best, U, seen[U])
      BY <3>3, <3>4 DEF Open
    <3> QED BY <3>2, <3>5
  <2>13. OpenSeen(c, v, seen)
    <3>1. ASSUME NEW k \in 0..F
          PROVE  Before(c, k + 1) \in DOMAIN seen /\ seen[Before(c, k + 1)] = v[k + 1]
      <4>1. k \in 0..D /\ k + 1 \in 1..D /\ k + 1 \in 1..(F + 1)
        BY <2>7
      <4>2. Before(chosen, k + 1) \in DOMAIN seen /\ seen[Before(chosen, k + 1)] = costs[k + 1]
        BY <2>10, <4>1 DEF OpenSeen
      <4>3. Before(c, k + 1) = Before(chosen, k + 1) /\ v[k + 1] = costs[k + 1]
        BY <2>4, <2>6, <4>1
      <4> QED BY <4>2, <4>3
    <3> QED BY <2>3, <3>1 DEF OpenSeen
  <2>14. TriedBeaten(pool, order, best, c, v, r)
    <3>1. SUFFICES ASSUME NEW k \in 0..F, NEW b \in Full(pool, order),
                          Before(b, k + 1) = Before(c, k + 1),
                          b[k + 1] \notin Range(r[k + 1]),
                          ~(k < F /\ b[k + 1] = c[k + 1])
                   PROVE  Beaten(best, v[k + 1] + Rest(pool, order, b, k))
      BY <2>3 DEF TriedBeaten
    <3>2. k \in 0..D /\ k < D /\ k + 1 \in 1..D /\ k + 1 \in 1..(F + 1)
      BY <2>7
    <3>3. /\ Before(b, k + 1) = Before(chosen, k + 1)
          /\ v[k + 1] = costs[k + 1] /\ r[k + 1] = ranked[k + 1]
      BY <2>4, <2>5, <2>6, <3>1, <3>2
    <3>4. CASE b[k + 1] # chosen[k + 1]
      <4>1. Beaten(best, costs[k + 1] + Rest(pool, order, b, k))
        BY <2>10, <3>1, <3>2, <3>3, <3>4 DEF TriedBeaten
      <4> QED BY <3>3, <4>1
    <3>5. CASE b[k + 1] = chosen[k + 1]
      <4>1. k = F
        <5>1. ASSUME k < F
              PROVE  c[k + 1] = chosen[k + 1]
          <6>1. k + 1 \in 1..F
            BY <2>1, <5>1
          <6> QED BY <2>3, <6>1
        <5> QED BY <2>1, <3>1, <3>5, <5>1
      <4>2. b[D] = chosen[D] /\ Before(b, D) = Before(chosen, D) /\ v[k + 1] = costs[D]
        BY <2>1, <3>3, <3>5, <4>1
      <4>3. Before(b, D + 1) = Before(chosen, D + 1)
        <5>1. \A j : j \in 1..((D + 1) - 1) <=> j \in 1..(D - 1) \/ j = D
          BY <1>3, <2>1
        <5>2. Before(b, D + 1) = Before(b, D) \cup {b[D]}
          BY <5>1 DEF Before
        <5>3. Before(chosen, D + 1) = Before(chosen, D) \cup {chosen[D]}
          BY <5>1 DEF Before
        <5> QED BY <4>2, <5>2, <5>3
      <4>4. Beaten(best, costs[D + 1] + Rest(pool, order, b, D))
        BY <1>1, <4>3, EmptyIsClosed
      <4> DEFINE step == StepCost(pool, order, chosen, D)
                 rest == Rest(pool, order, b, D)
      <4>5. StepCost(pool, order, b, D) = step
        BY <4>2 DEF StepCost
      <4>6. costs[D + 1] = costs[D] + step
        <5>1. costs[D + 1] = Spent(pool, order, chosen, D)
          BY <1>3, <2>11
        <5>2. costs[D] = Spent(pool, order, chosen, D - 1)
          <6>1. F \in 0..D /\ F + 1 = D /\ F = D - 1
            BY <2>1
          <6>2. costs[F + 1] = Spent(pool, order, chosen, F)
            BY <1>3, <6>1
          <6> QED BY <6>1, <6>2
        <5>3. D > 0
          BY <2>1
        <5> HIDE DEF D
        <5> QED BY <1>2, <1>3, <2>1, <5>1, <5>2, <5>3, SpentFacts
      <4>7. Rest(pool, order, b, F) = step + rest /\ rest \in Nat
        <5>1. Legal(pool, order, b, NumSlots)
          BY DEF Full
        <5>2. F < NumSlots
          BY <1>3, <2>1
        <5>3. Rest(pool, order, b, F) = StepCost(pool, order, b, F + 1) + Rest(pool, order, b, F + 1)
          BY <1>2, <2>1, <5>1, <5>2, RestFacts
        <5>4. rest \in Nat
          BY <1>2, <2>1, <5>1, RestFacts
        <5> QED BY <2>1, <4>5, <5>3, <5>4
      <4>8. costs[D] \in Nat /\ step \in Nat
        <5>1. D \in 1..Len(costs) /\ D \in 1..D
          BY <1>3, <2>1
        <5>2. costs[D] \in Nat
          BY <1>3, <5>1
        <5>3. step \in Nat
          <6> HIDE DEF D
          <6> QED BY <1>2, <1>3, <2>1, <5>1, LegalSteps
        <5> QED BY <5>2, <5>3
      <4> HIDE DEF step, rest
      <4>9. costs[D + 1] + rest = costs[D] + Rest(pool, order, b, F)
        BY <4>6, <4>7, <4>8
      <4>10. Beaten(best, costs[D + 1] + rest)
        BY <4>4 DEF rest
      <4> QED BY <4>1, <4>2, <4>9, <4>10
    <3> QED BY <3>4, <3>5
  <2>15. ExactInv'
    BY <1>1, <2>2, <2>12, <2>13, <2>14 DEF ExactInv
  <2> QED BY <2>9, <2>15
<1> QED BY <1>4, <1>5

LEMMA StartKeeps ==
  ASSUME SearchInv, ExactInv, Start
  PROVE  SearchInv' /\ ExactInv'
<1>1. /\ pool \in Pools /\ order = <<>> /\ chosen = <<>> /\ best.assignment = <<>>
      /\ pool' = pool /\ chosen' = chosen /\ best' = best
  BY DEF SearchInv, Start
<1>2. CASE \E slot \in Slots : Compatible(slot) = {}
  <2>1. status' = "raised" /\ order' = order
    BY <1>2 DEF Start
  <2>2. \E s \in Slots : Fits(pool, s) = {}
    BY <1>2 DEF Compatible, Fits
  <2>3. Found(pool, order, best)
    BY DEF SearchInv
  <2>4. SearchInv'
    BY <1>1, <2>1, <2>2, <2>3 DEF SearchInv
  <2>5. ExactInv'
    BY <1>1, <2>1, <2>2 DEF ExactInv
  <2> QED BY <2>4, <2>5
<1>3. CASE ~\E slot \in Slots : Compatible(slot) = {}
  <2> DEFINE o == SearchOrder
             list == Ranked({}, o[1])
             memo == [used \in {{}} |-> 0]
  <2>1. /\ status' = "searching" /\ order' = o
        /\ costs' = <<0>> /\ ranked' = <<list>> /\ seen' = memo
    BY <1>3 DEF Start
  <2>2. InOrder(o) /\ o[1] \in Slots
    <3>1. Enumerates(o, Slots)
      BY <1>1, SearchOrderIs
    <3>2. o \in [1..NumSlots -> Slots] /\ OneToOne(o, 1..NumSlots) /\ Image(o, 1..NumSlots) = Slots
      <4> HIDE DEF o
      <4> QED BY <3>1, Sizes DEF Enumerates
    <3>3. 1 \in 1..NumSlots
      BY Sizes
    <3> HIDE DEF o
    <3> QED BY <3>2, <3>3 DEF InOrder
  <2>3. list \in Seq(Cands) /\ Range(list) = Fits(pool, o[1])
    <3>1. {} \in SUBSET Cands
      OBVIOUS
    <3> HIDE DEF o
    <3> QED BY <1>1, <2>2, <3>1, RankedFacts
  <2>4. memo[{}] = 0 /\ DOMAIN memo = {{}}
    OBVIOUS
  <2> HIDE DEF o, list, memo
  <2>5. NumSlots \in Nat /\ NumSlots > 0
    BY Sizes
  <2>6. Before(<<>>, 1) = {} /\ Legal(pool, o, <<>>, 0) /\ Spent(pool, o, <<>>, 0) = 0
    <3>1. Legal(pool, o, <<>>, 0)
      BY DEF Legal
    <3>2. 0 \in 0..NumSlots
      BY <2>5
    <3>3. Spent(pool, o, <<>>, 0) = 0
      BY <1>1, <2>2, <3>1, <3>2, SpentFacts
    <3> QED BY <3>1, <3>3 DEF Before
  <2>7. /\ chosen \in Seq(Cands) /\ Len(chosen) = 0 /\ \A k \in 0..Len(chosen) : k = 0
        /\ 0 \in 0..Len(chosen)
    BY <1>1
  <2>8. Calls(pool, o, chosen, <<0>>, <<list>>)
    <3>1. <<0>> \in Seq(Nat) /\ Len(<<0>>) = 1 /\ <<0>>[1] = 0
      OBVIOUS
    <3>2. <<list>> \in Seq(Seq(Cands)) /\ Len(<<list>>) = 1 /\ <<list>>[1] = list
      BY <2>3
    <3>3. Legal(pool, o, chosen, Len(chosen)) /\ Spent(pool, o, chosen, 0) = 0
      BY <1>1, <2>6, <2>7
    <3>4. ASSUME NEW k \in 0..Len(chosen)
          PROVE  /\ <<0>>[k + 1] = Spent(pool, o, chosen, k)
                 /\ Range(<<list>>[k + 1]) \subseteq Fits(pool, o[k + 1])
      <4>1. k = 0 /\ k + 1 = 1
        BY <2>7
      <4>2. <<0>>[k + 1] = Spent(pool, o, chosen, k)
        BY <3>1, <3>3, <4>1
      <4>3. <<list>>[k + 1] = list /\ o[k + 1] = o[1]
        BY <3>2, <4>1
      <4> QED BY <2>3, <4>2, <4>3
    <3> DEFINE v == <<0>>
               r == <<list>>
    <3>5. Len(v) = Len(chosen) + 1 /\ Len(r) = Len(chosen) + 1 /\ Len(chosen) < NumSlots
      BY <2>5, <2>7
    <3>6. v \in Seq(Nat) /\ r \in Seq(Seq(Cands))
      BY <3>1, <3>2
    <3>7. \A k \in 0..Len(chosen) : v[k + 1] = Spent(pool, o, chosen, k)
      BY <3>4
    <3>8. \A k \in 0..Len(chosen) : Range(r[k + 1]) \subseteq Fits(pool, o[k + 1])
      BY <3>4
    <3> HIDE DEF v, r
    <3>9. Calls(pool, o, chosen, v, r)
      BY <2>7, <3>3, <3>5, <3>6, <3>7, <3>8 DEF Calls
    <3> QED BY <3>9 DEF v, r
  <2>9. SearchInv'
    <3>1. Found(pool, o, best)
      BY <1>1 DEF Found
    <3> QED BY <1>1, <2>1, <2>2, <2>8, <3>1 DEF SearchInv
  <2>10. Before(chosen, 0 + 1) = {}
    BY <1>1, <2>6
  <2>11. SeenOK(pool, o, best, chosen, memo)
    <3>1. Open(chosen, {})
      BY <2>7, <2>10 DEF Open
    <3>2. ASSUME NEW U \in DOMAIN memo
          PROVE  memo[U] \in Nat /\ Open(chosen, U)
      <4>1. U = {}
        BY <2>4
      <4> QED BY <2>4, <3>1, <4>1
    <3> QED BY <3>2 DEF SeenOK
  <2>12. OpenSeen(chosen, <<0>>, memo)
    <3>1. ASSUME NEW k \in 0..Len(chosen)
          PROVE  Before(chosen, k + 1) \in DOMAIN memo /\ memo[Before(chosen, k + 1)] = <<0>>[k + 1]
      <4>1. k = 0 /\ <<0>>[0 + 1] = 0
        BY <2>7
      <4> QED BY <2>4, <2>10, <4>1
    <3> QED BY <3>1 DEF OpenSeen
  <2>13. TriedBeaten(pool, o, best, chosen, <<0>>, <<list>>)
    <3>1. ASSUME NEW k \in 0..Len(chosen), NEW b \in Full(pool, o)
          PROVE  b[k + 1] \in Range(<<list>>[k + 1])
      <4>1. k = 0 /\ k + 1 = 1 /\ 1 \in 1..NumSlots
        BY <2>5, <2>7
      <4>2. b[1] \in Fits(pool, o[1])
        BY <4>1 DEF Full, Legal
      <4>3. <<list>>[1] = list
        OBVIOUS
      <4> QED BY <2>3, <4>1, <4>2, <4>3
    <3> QED BY <3>1 DEF TriedBeaten
  <2>14. ExactInv'
    BY <1>1, <2>1, <2>11, <2>12, <2>13 DEF ExactInv
  <2> QED BY <2>9, <2>14
<1> QED BY <1>2, <1>3

-----------------------------------------------------------------------------
(* The theorems. *)

LEMMA SearchInvHolds == Spec => [](SearchInv /\ ExactInv)
<1>1. Init => SearchInv /\ ExactInv
  BY DEF Init, SearchInv, ExactInv, Found
<1>2. SearchInv /\ ExactInv /\ [Next]_vars => (SearchInv /\ ExactInv)'
  <2>1. SUFFICES ASSUME SearchInv, ExactInv, [Next]_vars
                 PROVE  SearchInv' /\ ExactInv'
    OBVIOUS
  <2>2. CASE Start
    BY <2>1, <2>2, StartKeeps
  <2>3. CASE PassOver
    BY <2>1, <2>3, PassOverKeeps
  <2>4. CASE Improve
    BY <2>1, <2>4, ImproveKeeps
  <2>5. CASE Descend
    BY <2>1, <2>5, DescendKeeps
  <2>6. CASE Return
    BY <2>1, <2>6, ReturnKeeps
  <2>7. CASE UNCHANGED vars
    BY <2>1, <2>7 DEF vars, SearchInv, ExactInv
  <2> QED BY <2>1, <2>2, <2>3, <2>4, <2>5, <2>6, <2>7 DEF Next
<1> QED BY <1>1, <1>2, PTL DEF Spec

(* What the search has found can be used as it is, and its penalty is what  *)
(* the assignment as a whole costs, in whatever order the slots were filled.*)
(* Pruning by the best so far and by the memo of used candidates loses no   *)
(* assignment of least penalty, and nothing is raised while there is an     *)
(* assignment (_select_candidates), for any number of candidates and slots. *)
THEOREM SearchIsAlwaysExact == Spec => []SearchIsExact
<1>1. SearchInv /\ ExactInv => SearchIsExact
  BY SearchIsExactHolds
<1> QED BY <1>1, SearchInvHolds, PTL
=============================================================================
