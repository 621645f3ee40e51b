---------------------------- MODULE Ledger_proofs ----------------------------
(***************************************************************************)
(* Proofs about Ledger, for any members with their order, any bounds and   *)
(* any split types.                                                        *)
(*                                                                         *)
(* LedgerInv says what rows may be stored: shares that a split can give,   *)
(* and that add up.  The properties of shares follow from it.              *)
(*                                                                         *)
(* SettlingUpSettles and PayingASuggestionHelps rest on sums over members, *)
(* rows and transfers, and on the order of the two lists.  The first part  *)
(* is about sums: SumFunction is a fold, so that one shows first that some *)
(* function adds up all subsets of a domain (SummingExists), and that all  *)
(* such functions agree (SumUnique).  The second is about places in an     *)
(* order (RankOnto).  Then: the balances of all members cancel             *)
(* (NetCancels), as each row moves as much as it takes; the overlaps of    *)
(* one interval with those of a list add up to what the list covers of it  *)
(* (OverlapsAddUp); so each creditor gets what the debts cover of his      *)
(* credit (Received, Paid), and nothing is left if the balances cancel.    *)
(*                                                                         *)
(* The last part is the loop of Debts.  LoopInv: both lists are paid up to *)
(* the same x, and the transfers made are those of the pairs of places of  *)
(* which one is behind the loop, whatever the order of the lists is that   *)
(* IsLedger takes them in.                                                 *)
(***************************************************************************)
EXTENDS MCLedger, FiniteSetTheorems, WellFoundedInduction, TLAPS

-----------------------------------------------------------------------------
\* Sums.

\* A set of natural numbers has a least one.
LEMMA LeastNumber ==
    ASSUME NEW S \in SUBSET Nat, S # {}
    PROVE  \E n \in S : \A m \in S : n <= m
<1>1. PICK n \in S : \A m \in S : <<m, n>> \notin OpToRel(<, Nat)
  BY NatLessThanWellFounded, WFMin
<1>2. \A m \in S : ~(m < n)
  BY <1>1 DEF OpToRel
<1> QED
  BY <1>2

\* Of some subsets of a finite set, one has no other among them with fewer elements.
LEMMA LeastSubset ==
    ASSUME NEW D, IsFiniteSet(D), NEW B \in SUBSET SUBSET D, B # {}
    PROVE  \E s \in B : \A x \in s : s \ {x} \notin B
<1> DEFINE N == {Cardinality(s) : s \in B}
<1>1. \A s \in B : IsFiniteSet(s)
  BY FS_Subset
<1>2. N # {} /\ N \subseteq Nat
  BY <1>1, FS_CardinalityType
<1>3. PICK n \in N : \A m \in N : n <= m
  BY <1>2, LeastNumber
<1>4. PICK s \in B : Cardinality(s) = n
  OBVIOUS
<1>5. ASSUME NEW x \in s, s \ {x} \in B
      PROVE  FALSE
  <2>1. Cardinality(s \ {x}) = n - 1 /\ n \in Nat
    BY <1>1, <1>2, <1>4, FS_RemoveElement
  <2>2. n <= n - 1
    BY <1>3, <1>5, <2>1
  <2> QED
    BY <2>1, <2>2
<1> QED
  BY <1>5

First(s) == CHOOSE x \in s : TRUE

\* What the sum of the community modules is made of.
IsSumming(g, f) ==
    g = [s \in SUBSET DOMAIN f |-> IF s = {} THEN 0 ELSE f[First(s)] + g[s \ {First(s)}]]

LEMMA SumIsSumming ==
    ASSUME NEW f
    PROVE  SumFunction(f) = (CHOOSE g : IsSumming(g, f))[DOMAIN f]
BY DEF SumFunction, SumFunctionOnSet, FoldFunctionOnSet, MapThenFoldSet, IsSumming, First

\* The sums of a function over the subsets of its domain, in whatever order.
IsSum(g, f) ==
    /\ g \in [SUBSET DOMAIN f -> Int]
    /\ g[{}] = 0
    /\ \A s \in SUBSET DOMAIN f : \A x \in s : g[s] = f[x] + g[s \ {x}]

LEMMA SummingExists ==
    ASSUME NEW D, IsFiniteSet(D), NEW f \in [D -> Int]
    PROVE  \E g : IsSumming(g, f)
<1> DEFINE Small(n) == {s \in SUBSET D : Cardinality(s) <= n}
           AddedTo(g, s) == IF s = {} THEN 0 ELSE f[First(s)] + g[s \ {First(s)}]
           Sums(n, g) == g = [s \in Small(n) |-> AddedTo(g, s)]
           B == {n \in Nat : ~ \E g : Sums(n, g)}
<1>1. \A s \in SUBSET D : /\ IsFiniteSet(s) /\ Cardinality(s) \in Nat
                          /\ s # {} => /\ First(s) \in s
                                       /\ Cardinality(s \ {First(s)}) = Cardinality(s) - 1
  <2> SUFFICES ASSUME NEW s \in SUBSET D
               PROVE  /\ IsFiniteSet(s) /\ Cardinality(s) \in Nat
                      /\ s # {} => /\ First(s) \in s
                                   /\ Cardinality(s \ {First(s)}) = Cardinality(s) - 1
    OBVIOUS
  <2>1. IsFiniteSet(s) /\ Cardinality(s) \in Nat
    BY FS_Subset, FS_CardinalityType
  <2>2. s # {} => First(s) \in s
    BY DEF First
  <2> QED
    BY <2>1, <2>2, FS_RemoveElement
<1>2. B = {}
  <2> SUFFICES ASSUME B # {} PROVE FALSE
    OBVIOUS
  <2>1. PICK n \in B : \A m \in B : n <= m
    BY LeastNumber
  <2>2. CASE n = 0
    <3>1. \A s \in Small(0) : s = {}
      <4>1. ASSUME NEW s \in Small(0), s # {} PROVE FALSE
        <5>1. s \in SUBSET D /\ s \ {First(s)} \in SUBSET D /\ Cardinality(s) <= 0
          OBVIOUS
        <5>2. Cardinality(s \ {First(s)}) \in Nat /\ Cardinality(s) \in Nat
          BY <1>1, <5>1
        <5>3. Cardinality(s \ {First(s)}) = Cardinality(s) - 1
          BY <1>1, <4>1, <5>1
        <5> QED
          BY <5>1, <5>2, <5>3
      <4> QED
        BY <4>1
    <3>2. Sums(0, [s \in Small(0) |-> 0])
      BY <3>1
    <3> QED
      BY <2>2, <3>2
  <2>3. CASE n # 0
    <3>1. PICK g : Sums(n - 1, g)
      <4>1. n \in Nat /\ B \subseteq Nat
        OBVIOUS
      <4> HIDE DEF B
      <4>2. n - 1 \in Nat /\ n - 1 \notin B
        BY <2>1, <2>3, <4>1
      <4> QED
        BY <4>2 DEF B
    <3> DEFINE h == [s \in Small(n) |-> AddedTo(g, s)]
    <3>2. ASSUME NEW s \in Small(n) PROVE AddedTo(g, s) = AddedTo(h, s)
      <4> SUFFICES ASSUME s # {} PROVE g[s \ {First(s)}] = h[s \ {First(s)}]
        OBVIOUS
      <4> DEFINE t == s \ {First(s)}
      <4>1. t \in Small(n - 1) /\ t \in Small(n)
        BY <1>1
      <4>2. g[t] = AddedTo(g, t)
        BY <3>1, <4>1
      <4> QED
        BY <4>1, <4>2
    <3>3. Sums(n, h)
      BY <3>2
    <3> QED
      BY <3>3
  <2> QED
    BY <2>2, <2>3
<1>3. PICK g : Sums(Cardinality(D), g)
  BY <1>1, <1>2
<1>4. Small(Cardinality(D)) = SUBSET D
  BY FS_Subset, FS_CardinalityType
<1>5. IsSumming(g, f)
  BY <1>3, <1>4 DEF IsSumming
<1> QED
  BY <1>5

LEMMA SummingIsSum ==
    ASSUME NEW D, IsFiniteSet(D), NEW f \in [D -> Int], NEW g, IsSumming(g, f)
    PROVE  IsSum(g, f)
<1>1. /\ DOMAIN f = D /\ DOMAIN g = SUBSET D
      /\ \A s \in SUBSET D : g[s] = IF s = {} THEN 0 ELSE f[First(s)] + g[s \ {First(s)}]
  BY DEF IsSumming
<1>2. \A s \in SUBSET D : s # {} => First(s) \in s
  BY DEF First
<1>3. g = [s \in SUBSET D |-> g[s]]
  BY <1>1 DEF IsSumming
<1>4. \A s \in SUBSET D : g[s] \in Int
  <2> DEFINE B == {s \in SUBSET D : g[s] \notin Int}
  <2> SUFFICES ASSUME B # {} PROVE FALSE
    OBVIOUS
  <2>1. PICK s \in B : \A x \in s : s \ {x} \notin B
    BY LeastSubset
  <2>2. s # {}
    BY <1>1
  <2>3. First(s) \in s /\ g[s \ {First(s)}] \in Int /\ f[First(s)] \in Int
    BY <1>2, <2>1, <2>2
  <2> QED
    BY <1>1, <2>2, <2>3
<1>5. \A s \in SUBSET D : \A x \in s : g[s] = f[x] + g[s \ {x}]
  <2> DEFINE B == {s \in SUBSET D : \E x \in s : g[s] # f[x] + g[s \ {x}]}
  <2> SUFFICES ASSUME B # {} PROVE FALSE
    OBVIOUS
  <2>1. PICK s \in B : \A x \in s : s \ {x} \notin B
    BY LeastSubset
  <2>2. PICK x \in s : g[s] # f[x] + g[s \ {x}]
    OBVIOUS
  <2> DEFINE y == First(s)
  <2>3. y \in s /\ g[s] = f[y] + g[s \ {y}] /\ x # y
    BY <1>1, <1>2, <2>2
  <2> HIDE DEF y
  <2>4. g[s \ {y}] = f[x] + g[(s \ {y}) \ {x}]
    BY <2>1, <2>3
  <2>5. g[s \ {x}] = f[y] + g[(s \ {x}) \ {y}]
    BY <2>1, <2>3
  <2>6. (s \ {x}) \ {y} = (s \ {y}) \ {x}
    OBVIOUS
  <2>7. f[x] \in Int /\ f[y] \in Int /\ g[(s \ {y}) \ {x}] \in Int
    BY <1>4, <2>3
  <2>8. PICK c \in Int : c = g[(s \ {y}) \ {x}]
    BY <2>7
  <2>9. g[s] = f[y] + (f[x] + c) /\ f[x] + g[s \ {x}] = f[x] + (f[y] + c)
    BY <2>3, <2>4, <2>5, <2>6, <2>8
  <2>10. f[y] + (f[x] + c) = f[x] + (f[y] + c)
    BY <2>7
  <2> QED
    BY <2>2, <2>9, <2>10
<1>6. g \in [SUBSET D -> Int]
  BY <1>3, <1>4
<1>7. g[{}] = 0
  BY <1>1
<1> QED
  BY <1>1, <1>5, <1>6, <1>7 DEF IsSum

LEMMA SumUnique ==
    ASSUME NEW D, IsFiniteSet(D), NEW f \in [D -> Int], NEW g, NEW h, IsSum(g, f), IsSum(h, f),
           NEW s \in SUBSET D
    PROVE  g[s] = h[s]
<1> DEFINE B == {t \in SUBSET D : g[t] # h[t]}
<1> SUFFICES ASSUME B # {} PROVE FALSE
  OBVIOUS
<1>1. PICK t \in B : \A x \in t : t \ {x} \notin B
  BY LeastSubset
<1>2. PICK x \in t : TRUE
  BY DEF IsSum
<1>3. g[t \ {x}] = h[t \ {x}]
  BY <1>1, <1>2
<1>4. g[t] = f[x] + g[t \ {x}] /\ h[t] = f[x] + h[t \ {x}]
  BY DEF IsSum
<1> QED
  BY <1>3, <1>4

LEMMA SumExists ==
    ASSUME NEW D, IsFiniteSet(D), NEW f \in [D -> Int]
    PROVE  \E g : IsSum(g, f) /\ g[D] = SumFunction(f)
<1>1. IsSumming(CHOOSE g : IsSumming(g, f), f)
  BY SummingExists
<1>2. IsSum(CHOOSE g : IsSumming(g, f), f)
  BY <1>1, SummingIsSum
<1> QED
  BY <1>2, SumIsSumming

\* How a sum is computed: by any function that adds the elements of a set one by one.
LEMMA SumIs ==
    ASSUME NEW D, IsFiniteSet(D), NEW f \in [D -> Int], NEW g, IsSum(g, f)
    PROVE  SumFunction(f) = g[D]
BY SumExists, SumUnique

LEMMA SumInt ==
    ASSUME NEW D, IsFiniteSet(D), NEW f \in [D -> Int]
    PROVE  SumFunction(f) \in Int
<1>1. PICK g : IsSum(g, f) /\ g[D] = SumFunction(f)
  BY SumExists
<1>2. DOMAIN f = D
  OBVIOUS
<1> QED
  BY <1>1, <1>2 DEF IsSum

\* The sums over parts of the domain.
LEMMA SumsOfParts ==
    ASSUME NEW D, IsFiniteSet(D), NEW f \in [D -> Int]
    PROVE  IsSum([s \in SUBSET D |-> SumFunction([x \in s |-> f[x]])], f)
<1>1. PICK g : IsSum(g, f)
  BY SumExists
<1>2. ASSUME NEW s \in SUBSET D
      PROVE  SumFunction([x \in s |-> f[x]]) = g[s]
  <2> DEFINE fs == [x \in s |-> f[x]]
             gs == [t \in SUBSET s |-> g[t]]
  <2>1. IsFiniteSet(s) /\ fs \in [s -> Int]
    BY FS_Subset
  <2>2. IsSum(gs, fs)
    BY <1>1 DEF IsSum
  <2>3. SumFunction(fs) = gs[s]
    BY <2>1, <2>2, SumIs
  <2> QED
    BY <2>3
<1>3. [s \in SUBSET D |-> SumFunction([x \in s |-> f[x]])] = g
  BY <1>1, <1>2 DEF IsSum
<1> QED
  BY <1>1, <1>3

\* The sum of f over a part of its domain.
PartSum(f, s) == SumFunction([x \in s |-> f[x]])

LEMMA PartSums ==
    ASSUME NEW D, IsFiniteSet(D), NEW f \in [D -> Int]
    PROVE  /\ PartSum(f, D) = SumFunction(f)
           /\ PartSum(f, {}) = 0
           /\ \A s \in SUBSET D : /\ PartSum(f, s) \in Int
                                  /\ \A x \in s : PartSum(f, s) = f[x] + PartSum(f, s \ {x})
<1> DEFINE g == [s \in SUBSET D |-> PartSum(f, s)]
<1>1. IsSum(g, f)
  BY SumsOfParts DEF PartSum
<1>2. f = [x \in D |-> f[x]] /\ DOMAIN f = D
  OBVIOUS
<1>3. PartSum(f, D) = SumFunction(f)
  BY <1>2 DEF PartSum
<1>4. /\ g \in [SUBSET D -> Int] /\ g[{}] = 0
      /\ \A s \in SUBSET D : \A x \in s : g[s] = f[x] + g[s \ {x}]
  BY <1>1, <1>2 DEF IsSum
<1>5. \A s \in SUBSET D : g[s] = PartSum(f, s) /\ \A x \in s : g[s \ {x}] = PartSum(f, s \ {x})
  OBVIOUS
<1>6. \A s \in SUBSET D : g[s] \in Int
  BY <1>4
<1>7. {} \in SUBSET D
  OBVIOUS
<1> HIDE DEF g
<1> QED
  BY <1>3, <1>4, <1>5, <1>6, <1>7

LEMMA PartSumRemove ==
    ASSUME NEW D, IsFiniteSet(D), NEW f \in [D -> Int], NEW s \in SUBSET D, NEW x \in s
    PROVE  PartSum(f, s) = f[x] + PartSum(f, s \ {x})
BY PartSums

\* A sum is computed by any function that adds the elements of a set one by one.
LEMMA SumBy ==
    ASSUME NEW D, IsFiniteSet(D), NEW f \in [D -> Int], NEW g \in [SUBSET D -> Int],
           g[{}] = 0, \A s \in SUBSET D : \A x \in s : g[s] = f[x] + g[s \ {x}]
    PROVE  SumFunction(f) = g[D]
<1>1. DOMAIN f = D
  OBVIOUS
<1>2. IsSum(g, f)
  BY <1>1 DEF IsSum
<1> QED
  BY <1>2, SumIs

LEMMA SumEmpty ==
    ASSUME NEW f \in [{} -> Int]
    PROVE  SumFunction(f) = 0
<1>1. IsFiniteSet({})
  BY FS_EmptySet
<1> QED
  BY <1>1, PartSums

LEMMA SumRemove ==
    ASSUME NEW D, IsFiniteSet(D), NEW f \in [D -> Int], NEW x \in D
    PROVE  /\ SumFunction(f) = f[x] + PartSum(f, D \ {x})
           /\ PartSum(f, D \ {x}) \in Int
<1>1. D \in SUBSET D /\ D \ {x} \in SUBSET D
  OBVIOUS
<1> QED
  BY <1>1, PartSums

LEMMA SumUpdate ==
    ASSUME NEW D, IsFiniteSet(D), NEW f \in [D -> Int], NEW x \in D, NEW v \in Int
    PROVE  SumFunction([f EXCEPT ![x] = v]) = SumFunction(f) + v - f[x]
<1> DEFINE g == [f EXCEPT ![x] = v]
<1>1. g \in [D -> Int] /\ g[x] = v
  OBVIOUS
<1>2. PartSum(g, D \ {x}) = PartSum(f, D \ {x})
  <2>1. [y \in D \ {x} |-> g[y]] = [y \in D \ {x} |-> f[y]]
    OBVIOUS
  <2> HIDE DEF g
  <2> QED
    BY <2>1 DEF PartSum
<1> HIDE DEF g
<1>3. SumFunction(g) = v + PartSum(f, D \ {x})
  BY <1>1, <1>2, SumRemove
<1>4. SumFunction(f) = f[x] + PartSum(f, D \ {x}) /\ PartSum(f, D \ {x}) \in Int
  BY SumRemove
<1> QED
  BY <1>3, <1>4 DEF g

LEMMA SumPlus ==
    ASSUME NEW D, IsFiniteSet(D), NEW f \in [D -> Int], NEW h \in [D -> Int],
           NEW k \in [D -> Int], \A x \in D : k[x] = f[x] + h[x]
    PROVE  SumFunction(k) = SumFunction(f) + SumFunction(h)
<1> DEFINE g == [s \in SUBSET D |-> PartSum(f, s) + PartSum(h, s)]
           fh == [x \in D |-> f[x] + h[x]]
<1>1. \A s \in SUBSET D : PartSum(f, s) \in Int /\ PartSum(h, s) \in Int
  BY PartSums
<1>2. g \in [SUBSET D -> Int] /\ fh \in [D -> Int]
  BY <1>1
<1>3. g[{}] = 0
  <2>1. PartSum(f, {}) = 0 /\ PartSum(h, {}) = 0
    BY PartSums
  <2> QED
    BY <2>1
<1>4. ASSUME NEW s \in SUBSET D, NEW x \in s
      PROVE  g[s] = fh[x] + g[s \ {x}]
  <2>1. PartSum(f, s) = f[x] + PartSum(f, s \ {x}) /\ PartSum(h, s) = h[x] + PartSum(h, s \ {x})
    BY PartSumRemove
  <2>2. f[x] \in Int /\ h[x] \in Int /\ PartSum(f, s \ {x}) \in Int /\ PartSum(h, s \ {x}) \in Int
    BY <1>1
  <2>3. g[s] = PartSum(f, s) + PartSum(h, s) /\ fh[x] = f[x] + h[x]
        /\ g[s \ {x}] = PartSum(f, s \ {x}) + PartSum(h, s \ {x})
    OBVIOUS
  <2> HIDE DEF g, fh
  <2> QED
    BY <2>1, <2>2, <2>3
<1>5. g[D] = SumFunction(f) + SumFunction(h)
  BY PartSums
<1> HIDE DEF g, fh
<1>6. SumFunction(fh) = g[D]
  BY <1>2, <1>3, <1>4, SumBy
<1>7. k = fh
  BY DEF fh
<1> QED
  BY <1>5, <1>6, <1>7

LEMMA SumNegative ==
    ASSUME NEW D, IsFiniteSet(D), NEW f \in [D -> Int]
    PROVE  SumFunction([x \in D |-> -f[x]]) = -SumFunction(f)
<1> DEFINE g == [s \in SUBSET D |-> -PartSum(f, s)]
           h == [x \in D |-> -f[x]]
<1>1. \A s \in SUBSET D : PartSum(f, s) \in Int
  BY PartSums
<1>2. g \in [SUBSET D -> Int] /\ h \in [D -> Int] /\ g[{}] = 0 /\ g[D] = -SumFunction(f)
  BY <1>1, PartSums
<1>3. ASSUME NEW s \in SUBSET D, NEW x \in s
      PROVE  g[s] = h[x] + g[s \ {x}]
  <2>1. PartSum(f, s) = f[x] + PartSum(f, s \ {x})
    BY PartSums
  <2>2. f[x] \in Int /\ PartSum(f, s \ {x}) \in Int
    BY <1>1
  <2>3. g[s] = -PartSum(f, s) /\ h[x] = -f[x] /\ g[s \ {x}] = -PartSum(f, s \ {x})
    OBVIOUS
  <2> HIDE DEF g, h
  <2> QED
    BY <2>1, <2>2, <2>3
<1> HIDE DEF g, h
<1>4. SumFunction(h) = g[D]
  BY <1>2, <1>3, SumBy
<1> QED
  BY <1>2, <1>4 DEF h

LEMMA SumMinus ==
    ASSUME NEW D, IsFiniteSet(D), NEW f \in [D -> Int], NEW h \in [D -> Int],
           NEW k \in [D -> Int], \A x \in D : k[x] = f[x] - h[x]
    PROVE  SumFunction(k) = SumFunction(f) - SumFunction(h)
<1> DEFINE n == [x \in D |-> -h[x]]
<1>1. n \in [D -> Int] /\ SumFunction(n) = -SumFunction(h)
  BY SumNegative
<1>2. \A x \in D : k[x] = f[x] + n[x]
  OBVIOUS
<1> HIDE DEF n
<1>3. SumFunction(k) = SumFunction(f) + SumFunction(n)
  BY <1>1, <1>2, SumPlus
<1>4. SumFunction(f) \in Int /\ SumFunction(h) \in Int
  BY SumInt
<1> QED
  BY <1>1, <1>2, <1>3, <1>4

LEMMA SumNat ==
    ASSUME NEW D, IsFiniteSet(D), NEW f \in [D -> Int], \A x \in D : f[x] >= 0
    PROVE  SumFunction(f) >= 0
<1> DEFINE B == {s \in SUBSET D : ~(PartSum(f, s) >= 0)}
<1>1. ASSUME B # {} PROVE FALSE
  <2>1. PICK s \in B : \A x \in s : s \ {x} \notin B
    BY <1>1, LeastSubset
  <2>2. PICK x \in s : TRUE
    BY PartSums
  <2>3. PartSum(f, s) = f[x] + PartSum(f, s \ {x})
    BY PartSums
  <2>4. PartSum(f, s \ {x}) >= 0 /\ PartSum(f, s \ {x}) \in Int
    BY <2>1, <2>2, PartSums
  <2>5. f[x] \in Int /\ f[x] >= 0
    OBVIOUS
  <2>6. ~(PartSum(f, s) >= 0)
    OBVIOUS
  <2> HIDE DEF B
  <2> QED
    BY <2>3, <2>4, <2>5, <2>6
<1>2. PartSum(f, D) >= 0
  BY <1>1
<1> QED
  BY <1>2, PartSums

LEMMA SumMonotone ==
    ASSUME NEW D, IsFiniteSet(D), NEW f \in [D -> Int], NEW h \in [D -> Int], \A x \in D : f[x] <= h[x]
    PROVE  SumFunction(f) <= SumFunction(h)
<1> DEFINE k == [x \in D |-> h[x] - f[x]]
<1>1. k \in [D -> Int] /\ \A x \in D : k[x] >= 0 /\ k[x] = h[x] - f[x]
  OBVIOUS
<1> HIDE DEF k
<1>2. SumFunction(k) = SumFunction(h) - SumFunction(f)
  BY <1>1, SumMinus
<1>3. SumFunction(k) >= 0
  BY <1>1, SumNat
<1>4. SumFunction(f) \in Int /\ SumFunction(h) \in Int
  BY SumInt
<1> QED
  BY <1>2, <1>3, <1>4

LEMMA SumPositive ==
    ASSUME NEW D, IsFiniteSet(D), NEW f \in [D -> Int], \A x \in D : f[x] >= 0, NEW y \in D
    PROVE  SumFunction(f) >= f[y]
<1>1. SumFunction(f) = f[y] + PartSum(f, D \ {y}) /\ PartSum(f, D \ {y}) \in Int
  BY SumRemove
<1> DEFINE rest == [x \in D \ {y} |-> f[x]]
<1>2. rest \in [D \ {y} -> Int] /\ \A x \in D \ {y} : rest[x] >= 0
  OBVIOUS
<1>3. IsFiniteSet(D \ {y})
  BY FS_Subset
<1>4. SumFunction(rest) = PartSum(f, D \ {y})
  BY DEF PartSum
<1> HIDE DEF rest
<1>5. SumFunction(rest) >= 0
  BY <1>2, <1>3, SumNat
<1> QED
  BY <1>1, <1>4, <1>5

\* The sum of a constant over a part of the domain.
LEMMA SumConstant ==
    ASSUME NEW D, IsFiniteSet(D), NEW A \in SUBSET D, NEW a \in Int, NEW k,
           k = [x \in D |-> IF x \in A THEN a ELSE 0]
    PROVE  SumFunction(k) = a * Cardinality(A)
<1> DEFINE f == [x \in D |-> IF x \in A THEN a ELSE 0]
           g == [s \in SUBSET D |-> a * Cardinality(s \cap A)]
<1>1. \A s \in SUBSET D : IsFiniteSet(s \cap A) /\ Cardinality(s \cap A) \in Nat
  BY FS_Subset, FS_CardinalityType
<1>2. \A n \in Nat : a * n \in Int /\ a * 0 = 0 /\ (n > 0 => a * n = a + a * (n - 1))
  OBVIOUS
<1>3. f \in [D -> Int] /\ g \in [SUBSET D -> Int]
  BY <1>1, <1>2
<1>4. g[{}] = 0
  <2>1. Cardinality({} \cap A) = 0
    BY FS_EmptySet
  <2> QED
    BY <2>1
<1>5. ASSUME NEW s \in SUBSET D, NEW x \in s
      PROVE  g[s] = f[x] + g[s \ {x}]
  <2>1. CASE x \in A
    <3>1. (s \ {x}) \cap A = (s \cap A) \ {x} /\ x \in s \cap A
      BY <2>1
    <3>2. Cardinality((s \ {x}) \cap A) = Cardinality(s \cap A) - 1
      <4>1. IsFiniteSet(s \cap A)
        BY <1>1
      <4>2. Cardinality((s \cap A) \ {x}) = Cardinality(s \cap A) - 1
        BY <3>1, <4>1, FS_RemoveElement
      <4> QED
        BY <3>1, <4>2
    <3>3. Cardinality((s \ {x}) \cap A) \in Nat /\ Cardinality(s \cap A) \in Nat
      BY <1>1
    <3>4. Cardinality(s \cap A) > 0
      BY <3>2, <3>3
    <3>5. a * Cardinality(s \cap A) = a + a * (Cardinality(s \cap A) - 1)
      BY <1>2, <3>3, <3>4
    <3> QED
      BY <2>1, <3>2, <3>5
  <2>2. CASE x \notin A
    <3>1. (s \ {x}) \cap A = s \cap A
      BY <2>2
    <3>2. g[s] \in Int
      BY <1>3
    <3>3. f[x] = 0 /\ g[s \ {x}] = g[s]
      BY <2>2, <3>1
    <3> HIDE DEF f, g
    <3> QED
      BY <3>2, <3>3
  <2> QED
    BY <2>1, <2>2
<1>6. g[D] = a * Cardinality(A)
  <2>1. D \cap A = A
    OBVIOUS
  <2> QED
    BY <2>1
<1> HIDE DEF f, g
<1>7. SumFunction(f) = g[D]
  BY <1>3, <1>4, <1>5, SumBy
<1> QED
  BY <1>6, <1>7 DEF f

\* The sum over a part of the domain, if there is nothing to add outside of it.
LEMMA SumOutside ==
    ASSUME NEW D, IsFiniteSet(D), NEW f \in [D -> Int], NEW A \in SUBSET D, \A x \in D \ A : f[x] = 0
    PROVE  SumFunction(f) = PartSum(f, A)
<1> DEFINE g == [s \in SUBSET D |-> PartSum(f, s \cap A)]
<1>1. \A s \in SUBSET D : PartSum(f, s \cap A) \in Int
  BY PartSums
<1>2. g \in [SUBSET D -> Int]
  BY <1>1
<1>3. g[{}] = 0
  <2>1. {} \cap A = {} /\ PartSum(f, {}) = 0
    BY PartSums
  <2> QED
    BY <2>1
<1>4. ASSUME NEW s \in SUBSET D, NEW x \in s
      PROVE  g[s] = f[x] + g[s \ {x}]
  <2>1. CASE x \in A
    <3>1. (s \ {x}) \cap A = (s \cap A) \ {x} /\ x \in s \cap A
      BY <2>1
    <3>2. PartSum(f, s \cap A) = f[x] + PartSum(f, (s \cap A) \ {x})
      BY <3>1, PartSums
    <3> QED
      BY <3>1, <3>2
  <2>2. CASE x \notin A
    <3>1. (s \ {x}) \cap A = s \cap A
      BY <2>2
    <3>2. g[s] \in Int
      BY <1>2
    <3>3. f[x] = 0 /\ g[s \ {x}] = g[s]
      BY <2>2, <3>1
    <3> HIDE DEF g
    <3> QED
      BY <3>2, <3>3
  <2> QED
    BY <2>1, <2>2
<1>5. g[D] = PartSum(f, A)
  <2>1. D \cap A = A
    OBVIOUS
  <2> QED
    BY <2>1
<1> HIDE DEF g
<1> QED
  BY <1>2, <1>3, <1>4, <1>5, SumBy

\* A sum over the image of a set under an injection.
LEMMA SumImage ==
    ASSUME NEW C, IsFiniteSet(C), NEW D, IsFiniteSet(D), NEW e \in [C -> D],
           \A c, d \in C : e[c] = e[d] => c = d, NEW f \in [D -> Int],
           NEW k, k = [c \in C |-> f[e[c]]]
    PROVE  SumFunction(k) = PartSum(f, {e[c] : c \in C})
<1> DEFINE fe == [c \in C |-> f[e[c]]]
           Image(s) == {e[c] : c \in s}
           g == [s \in SUBSET C |-> PartSum(f, Image(s))]
<1>1. \A s \in SUBSET C : Image(s) \in SUBSET D
  OBVIOUS
<1>2. g \in [SUBSET C -> Int] /\ fe \in [C -> Int]
  BY <1>1, PartSums
<1>3. g[{}] = 0
  <2>1. Image({}) = {} /\ PartSum(f, {}) = 0
    BY PartSums
  <2> QED
    BY <2>1
<1>4. ASSUME NEW s \in SUBSET C, NEW x \in s
      PROVE  g[s] = fe[x] + g[s \ {x}]
  <2>1. Image(s \ {x}) = Image(s) \ {e[x]} /\ e[x] \in Image(s)
    OBVIOUS
  <2>2. Image(s) \in SUBSET D
    BY <1>1
  <2> HIDE DEF Image
  <2>3. PartSum(f, Image(s)) = f[e[x]] + PartSum(f, Image(s) \ {e[x]})
    BY <2>1, <2>2, PartSums
  <2> QED
    BY <2>1, <2>3
<1>5. g[C] = PartSum(f, Image(C))
  OBVIOUS
<1> HIDE DEF g, fe
<1>6. SumFunction(fe) = g[C]
  BY <1>2, <1>3, <1>4, SumBy
<1> QED
  BY <1>5, <1>6 DEF fe

LEMMA SumBijection ==
    ASSUME NEW C, IsFiniteSet(C), NEW D, IsFiniteSet(D), NEW A \in SUBSET D, NEW e \in Bijection(C, A),
           NEW f \in [D -> Int], NEW k \in [C -> Int], \A c \in C : k[c] = f[e[c]]
    PROVE  SumFunction(k) = PartSum(f, A)
<1>1. e \in [C -> D] /\ (\A c, d \in C : e[c] = e[d] => c = d) /\ A = {e[c] : c \in C}
  BY DEF Bijection, Injection, Surjection, IsInjective
<1>2. k = [c \in C |-> f[e[c]]]
  OBVIOUS
<1>3. SumFunction(k) = PartSum(f, {e[c] : c \in C})
  BY <1>1, <1>2, SumImage
<1> QED
  BY <1>1, <1>3

LEMMA SumSwap ==
    ASSUME NEW A, IsFiniteSet(A), NEW B, IsFiniteSet(B), NEW F \in [A -> [B -> Int]]
    PROVE  SumFunction([a \in A |-> SumFunction(F[a])])
           = SumFunction([b \in B |-> SumFunction([a \in A |-> F[a][b]])])
<1> DEFINE Column(b) == [a \in A |-> F[a][b]]
           Sums(s) == [b \in B |-> PartSum(Column(b), s)]
           g == [s \in SUBSET A |-> SumFunction(Sums(s))]
           f == [a \in A |-> SumFunction(F[a])]
<1>1. \A b \in B : Column(b) \in [A -> Int]
  OBVIOUS
<1>2. \A s \in SUBSET A : Sums(s) \in [B -> Int]
  <2> SUFFICES ASSUME NEW s \in SUBSET A, NEW b \in B PROVE PartSum(Column(b), s) \in Int
    OBVIOUS
  <2> HIDE DEF Column
  <2> QED
    BY <1>1, PartSums
<1>3. g \in [SUBSET A -> Int] /\ f \in [A -> Int]
  <2>1. \A a \in A : SumFunction(F[a]) \in Int
    BY SumInt
  <2>2. \A s \in SUBSET A : SumFunction(Sums(s)) \in Int
    <3> HIDE DEF Sums
    <3> QED
      BY <1>2, SumInt
  <2> HIDE DEF Sums
  <2> QED
    BY <2>1, <2>2
<1>4. g[{}] = 0
  <2>1. \A b \in B : PartSum(Column(b), {}) = 0
    <3> HIDE DEF Column
    <3> QED
      BY <1>1, PartSums
  <2>2. Sums({}) = [b \in B |-> IF b \in {} THEN 0 ELSE 0]
    BY <2>1
  <2>3. SumFunction([b \in B |-> IF b \in {} THEN 0 ELSE 0]) = 0 * Cardinality({})
    BY SumConstant
  <2>4. Cardinality({}) = 0
    BY FS_EmptySet
  <2>5. g[{}] = SumFunction(Sums({}))
    OBVIOUS
  <2> HIDE DEF g, Sums
  <2> QED
    BY <2>2, <2>3, <2>4, <2>5
<1>5. ASSUME NEW s \in SUBSET A, NEW x \in s
      PROVE  g[s] = f[x] + g[s \ {x}]
  <2> DEFINE t == s \ {x}
             r == F[x]
             p == Sums(t)
  <2>1. r \in [B -> Int]
    OBVIOUS
  <2>2. t \in SUBSET A
    OBVIOUS
  <2>3. \A b \in B : PartSum(Column(b), s) = r[b] + PartSum(Column(b), t)
    <3> SUFFICES ASSUME NEW b \in B PROVE PartSum(Column(b), s) = r[b] + PartSum(Column(b), t)
      OBVIOUS
    <3>1. Column(b)[x] = r[b]
      OBVIOUS
    <3> HIDE DEF Column
    <3>2. PartSum(Column(b), s) = Column(b)[x] + PartSum(Column(b), s \ {x})
      BY <1>1, PartSums
    <3> QED
      BY <3>1, <3>2
  <2>4. Sums(s) = [b \in B |-> r[b] + p[b]]
    <3> HIDE DEF Column, r
    <3> QED
      BY <2>3
  <2>5. p \in [B -> Int]
    BY <1>2, <2>2
  <2>6. g[s] = SumFunction(Sums(s)) /\ g[t] = SumFunction(p) /\ f[x] = SumFunction(r)
    BY <2>2
  <2> HIDE DEF p, r, Sums, g, f
  <2>7. Sums(s) \in [B -> Int] /\ \A b \in B : Sums(s)[b] = r[b] + p[b]
    BY <1>2, <2>4
  <2>8. SumFunction(Sums(s)) = SumFunction(r) + SumFunction(p)
    BY <2>1, <2>5, <2>7, SumPlus
  <2> QED
    BY <2>6, <2>8
<1>6. g[A] = SumFunction([b \in B |-> SumFunction([a \in A |-> F[a][b]])])
  <2>1. \A b \in B : PartSum(Column(b), A) = SumFunction(Column(b))
    <3> HIDE DEF Column
    <3> QED
      BY <1>1, PartSums
  <2>2. Sums(A) = [b \in B |-> SumFunction(Column(b))]
    BY <2>1
  <2> QED
    BY <2>2
<1> HIDE DEF g, f
<1>7. SumFunction(f) = g[A]
  BY <1>2, <1>3, <1>4, <1>5, SumBy
<1> QED
  BY <1>6, <1>7 DEF f

\* A set of numbers to which every number belongs if the one before it does.
LEMMA Counting ==
    ASSUME NEW n \in Nat, NEW A \in SUBSET (0..n), 0 \in A, \A k \in 1..n : k - 1 \in A => k \in A
    PROVE  \A k \in 0..n : k \in A
<1> DEFINE B == {k \in 0..n : k \notin A}
<1>1. B \in SUBSET Nat
  OBVIOUS
<1>2. ASSUME B # {} PROVE FALSE
  <2>1. PICK k \in B : \A m \in B : k <= m
    BY <1>1, <1>2, LeastNumber
  <2>2. k # 0 /\ k \in 0..n /\ k \notin A
    OBVIOUS
  <2>3. k \in 1..n /\ k - 1 \in 0..n /\ ~(k <= k - 1)
    BY <2>2
  <2>4. k - 1 \in A
    <3>1. k - 1 \notin B
      <4> HIDE DEF B
      <4> QED
        BY <2>1, <2>3
    <3> QED
      BY <2>3, <3>1
  <2> QED
    BY <2>2, <2>3, <2>4
<1> QED
  BY <1>2

LEMMA FirstNumbers ==
    ASSUME NEW n \in Nat, NEW k \in 1..n
    PROVE  1..k \in SUBSET (1..n) /\ k \in 1..k /\ (1..k) \ {k} = 1..(k - 1)
OBVIOUS

\* Sums over the first numbers.
LEMMA SumFirst ==
    ASSUME NEW n \in Nat, NEW f \in [1..n -> Int]
    PROVE  /\ PartSum(f, 1..0) = 0
           /\ PartSum(f, 1..n) = SumFunction(f)
           /\ \A k \in 0..n : PartSum(f, 1..k) \in Int
           /\ \A k \in 1..n : PartSum(f, 1..k) = f[k] + PartSum(f, 1..(k - 1))
<1> DEFINE D == 1..n
<1>1. IsFiniteSet(D) /\ f \in [D -> Int]
  BY FS_Interval
<1>2. \A k \in 0..n : 1..k \in SUBSET D
  OBVIOUS
<1>3. 1..0 = {}
  OBVIOUS
<1>4. ASSUME NEW k \in 1..n PROVE PartSum(f, 1..k) = f[k] + PartSum(f, 1..(k - 1))
  <2> DEFINE s == 1..k
  <2>1. s \in SUBSET D /\ k \in s /\ s \ {k} = 1..(k - 1)
    BY FirstNumbers
  <2> HIDE DEF D, s
  <2>2. PartSum(f, s) = f[k] + PartSum(f, s \ {k})
    BY <1>1, <2>1, PartSumRemove
  <2> QED
    BY <2>1, <2>2 DEF s
<1>5. \A k \in 0..n : PartSum(f, 1..k) \in Int
  <2> SUFFICES ASSUME NEW k \in 0..n PROVE PartSum(f, 1..k) \in Int
    OBVIOUS
  <2> DEFINE s == 1..k
  <2>1. s \in SUBSET D
    BY <1>2
  <2> HIDE DEF D, s
  <2>2. PartSum(f, s) \in Int
    BY <1>1, <2>1, PartSums
  <2> QED
    BY <2>2 DEF s
<1>6. PartSum(f, {}) = 0 /\ PartSum(f, D) = SumFunction(f)
  <2> HIDE DEF D
  <2> QED
    BY <1>1, PartSums
<1> QED
  BY <1>3, <1>4, <1>5, <1>6

LEMMA SumTelescope ==
    ASSUME NEW n \in Nat, NEW P \in [0..n -> Int],
           NEW f \in [1..n -> Int], \A i \in 1..n : f[i] = P[i] - P[i - 1]
    PROVE  SumFunction(f) = P[n] - P[0]
<1> DEFINE A == {k \in 0..n : PartSum(f, 1..k) = P[k] - P[0]}
<1>1. 0 \in A
  <2>1. PartSum(f, 1..0) = 0 /\ P[0] \in Int /\ 0 \in 0..n
    BY SumFirst
  <2> QED
    BY <2>1
<1>2. ASSUME NEW k \in 1..n, k - 1 \in A PROVE k \in A
  <2>1. PartSum(f, 1..k) = f[k] + PartSum(f, 1..(k - 1))
    BY SumFirst
  <2>2. PartSum(f, 1..(k - 1)) = P[k - 1] - P[0]
    BY <1>2
  <2>3. P[k] \in Int /\ P[k - 1] \in Int /\ P[0] \in Int
    OBVIOUS
  <2>4. PartSum(f, 1..k) = P[k] - P[0]
    BY <2>1, <2>2, <2>3
  <2> QED
    BY <2>4
<1>3. A \in SUBSET (0..n) /\ n \in 0..n
  OBVIOUS
<1>4. n \in A
  <2> HIDE DEF A
  <2> QED
    BY <1>1, <1>2, <1>3, Counting
<1> QED
  BY <1>4, SumFirst

-----------------------------------------------------------------------------
\* Places in an order R, a set of pairs, of a finite set S.

LEMMA Interval ==
    ASSUME NEW n \in Nat
    PROVE  IsFiniteSet(0..(n - 1)) /\ Cardinality(0..(n - 1)) = n
<1> DEFINE b == n - 1
<1>1. 0 \in Int /\ b \in Int
  OBVIOUS
<1>2. IsFiniteSet(0..b) /\ Cardinality(0..b) = IF 0 > b THEN 0 ELSE b - 0 + 1
  <2> HIDE DEF b
  <2> QED
    BY <1>1, FS_Interval
<1>3. (IF 0 > b THEN 0 ELSE b - 0 + 1) = n
  OBVIOUS
<1> QED
  BY <1>2, <1>3

IsOrder(R, S) ==
    /\ \A a, b \in S : a # b => <<a, b>> \in R \/ <<b, a>> \in R
    /\ \A a \in S : <<a, a>> \notin R
    /\ \A a, b, c \in S : <<a, b>> \in R /\ <<b, c>> \in R => <<a, c>> \in R

Rank(R, S, m) == Cardinality({k \in S : <<k, m>> \in R})

LEMMA RankOrders ==
    ASSUME NEW S, IsFiniteSet(S), NEW R, IsOrder(R, S)
    PROVE  /\ \A m \in S : Rank(R, S, m) \in 0..(Cardinality(S) - 1)
           /\ \A a, b \in S : <<a, b>> \in R <=> Rank(R, S, a) < Rank(R, S, b)
           /\ \A a, b \in S : Rank(R, S, a) = Rank(R, S, b) => a = b
<1> DEFINE below(m) == {k \in S : <<k, m>> \in R}
<1>1. \A m \in S : below(m) \in SUBSET S /\ below(m) # S
  BY DEF IsOrder
<1>2. \A m \in S : Rank(R, S, m) = Cardinality(below(m))
  BY DEF Rank
<1>3. ASSUME NEW a \in S, NEW b \in S, <<a, b>> \in R
      PROVE  below(a) \in SUBSET below(b) /\ below(a) # below(b)
  <2>1. a \in below(b) /\ a \notin below(a)
    BY <1>3 DEF IsOrder
  <2> QED
    BY <1>3, <2>1 DEF IsOrder
<1> HIDE DEF below
<1>4. \A m \in S : IsFiniteSet(below(m)) /\ Cardinality(below(m)) \in Nat
  BY <1>1, FS_Subset, FS_CardinalityType
<1>5. \A a, b \in S : <<a, b>> \in R => Cardinality(below(a)) < Cardinality(below(b))
  BY <1>3, <1>4, FS_Subset
<1>6. \A m \in S : Cardinality(below(m)) < Cardinality(S)
  <2> SUFFICES ASSUME NEW m \in S PROVE Cardinality(below(m)) < Cardinality(S)
    OBVIOUS
  <2>1. Cardinality(below(m)) <= Cardinality(S) /\ Cardinality(below(m)) # Cardinality(S)
    BY <1>1, FS_Subset
  <2> QED
    BY <1>4, <2>1, FS_CardinalityType
<1>7. Cardinality(S) \in Nat
  BY FS_CardinalityType
<1>8. \A m \in S : Rank(R, S, m) \in 0..(Cardinality(S) - 1)
  BY <1>2, <1>4, <1>6, <1>7
<1>9. ASSUME NEW a \in S, NEW b \in S
       PROVE  /\ <<a, b>> \in R <=> Rank(R, S, a) < Rank(R, S, b)
              /\ Rank(R, S, a) = Rank(R, S, b) => a = b
  <2>1. Rank(R, S, a) \in Int /\ Rank(R, S, b) \in Int
    BY <1>8
  <2>2. /\ <<a, b>> \in R => Rank(R, S, a) < Rank(R, S, b)
        /\ <<b, a>> \in R => Rank(R, S, b) < Rank(R, S, a)
    BY <1>2, <1>5
  <2>3. a # b => <<a, b>> \in R \/ <<b, a>> \in R
    BY DEF IsOrder
  <2> QED
    BY <2>1, <2>2, <2>3
<1> QED
  BY <1>8, <1>9

LEMMA RankOnto ==
    ASSUME NEW S, IsFiniteSet(S), NEW R, IsOrder(R, S), NEW i, i \in Nat, i < Cardinality(S)
    PROVE  \E m \in S : Rank(R, S, m) = i
<1> DEFINE n == Cardinality(S)
           T == 0..(n - 1)
           f == [m \in S |-> Rank(R, S, m)]
<1>1. n \in Nat
  BY FS_CardinalityType
<1>2. f \in Injection(S, T)
  BY RankOrders DEF Injection, IsInjective
<1>3. IsFiniteSet(T) /\ Cardinality(T) = n
  <2> HIDE DEF n
  <2> QED
    BY <1>1, Interval
<1> HIDE DEF f
<1>4. f \in Surjection(S, T)
  BY <1>2, <1>3, FS_Injection
<1>5. i \in T
  BY <1>1
<1>6. PICK m \in S : f[m] = i
  BY <1>4, <1>5 DEF Surjection
<1> QED
  BY <1>6 DEF f

LEMMA RankOntoAll ==
    ASSUME NEW S, IsFiniteSet(S), NEW R, IsOrder(R, S), NEW n, n = Cardinality(S)
    PROVE  \A i \in 0..(n - 1) : \E m \in S : Rank(R, S, m) = i
<1> SUFFICES ASSUME NEW i \in 0..(n - 1) PROVE \E m \in S : Rank(R, S, m) = i
  OBVIOUS
<1>1. i \in Nat /\ i < n
  BY FS_CardinalityType
<1> QED
  BY <1>1, RankOnto

LEMMA RankCount ==
    ASSUME NEW S, IsFiniteSet(S), NEW R, IsOrder(R, S), NEW r \in 0..Cardinality(S)
    PROVE  Cardinality({m \in S : Rank(R, S, m) < r}) = r
<1> DEFINE L == {m \in S : Rank(R, S, m) < r}
           T == 0..(r - 1)
           f == [m \in L |-> Rank(R, S, m)]
<1>1. r \in Nat /\ Cardinality(S) \in Nat
  BY FS_CardinalityType
<1>2. f \in Injection(L, T)
  <2>1. \A m \in L : Rank(R, S, m) \in T
    BY <1>1, RankOrders
  <2>2. \A a, b \in L : f[a] = f[b] => a = b
    BY RankOrders
  <2> QED
    BY <2>1, <2>2 DEF Injection, IsInjective
<1>3. f \in Surjection(L, T)
  <2> SUFFICES ASSUME NEW i \in T PROVE \E m \in L : f[m] = i
    BY <1>2 DEF Surjection, Injection
  <2>1. i \in Nat /\ i < Cardinality(S) /\ i < r
    BY <1>1
  <2>2. PICK m \in S : Rank(R, S, m) = i
    BY <2>1, RankOnto
  <2>3. m \in L
    BY <2>1, <2>2
  <2> QED
    BY <2>2, <2>3
<1>4. IsFiniteSet(T) /\ Cardinality(T) = r
  BY <1>1, Interval
<1> HIDE DEF f, L
<1> QED
  BY <1>2, <1>3, <1>4, FS_Injection DEF L

-----------------------------------------------------------------------------
\* What the splits of a total give.

LEMMA MembersFinite == IsFiniteSet(Members)
BY MembersAssumption

LEMMA MembersNat == Members \subseteq Nat
BY MembersAssumption

LEMMA EqualSharesFit ==
    ASSUME NEW total \in Nat, NEW who \in SUBSET Members, who # {}
    PROVE  /\ EqualShares(total, who) \in [Members -> Int]
           /\ \A m \in Members : EqualShares(total, who)[m] >= 0
           /\ SumFunction(EqualShares(total, who)) = total
<1> DEFINE n == Cardinality(who)
           q == total \div n
           r == total % n
           R == {p \in who \X who : p[1] < p[2]}
           low == {m \in who : Rank(R, who, m) < r}
           a == [m \in Members |-> IF m \in who THEN q ELSE 0]
           b == [m \in Members |-> IF m \in low THEN 1 ELSE 0]
           rank(m) == Cardinality({k \in who : k < m})
<1>1. IsFiniteSet(who) /\ n \in Nat /\ n > 0
  <2>1. IsFiniteSet(who)
    BY MembersFinite, FS_Subset
  <2>2. n \in Nat /\ n # 0
    BY <2>1, FS_CardinalityType, FS_EmptySet
  <2> QED
    BY <2>1, <2>2
<1>2. q \in Nat /\ r \in 0..n /\ q * n + r = total
  <2> HIDE DEF n
  <2> QED
    BY <1>1
<1>3. IsOrder(R, who)
  BY MembersNat DEF IsOrder
<1>4. \A m \in who : Rank(R, who, m) = rank(m)
  <2> SUFFICES ASSUME NEW m \in who PROVE {k \in who : <<k, m>> \in R} = {k \in who : k < m}
    BY DEF Rank
  <2> QED
    OBVIOUS
<1>5. Cardinality(low) = r
  <2> HIDE DEF R, r
  <2> QED
    BY <1>1, <1>2, <1>3, RankCount
<1>6. EqualShares(total, who) = [m \in Members |-> a[m] + b[m]]
  <2> SUFFICES ASSUME NEW m \in Members
               PROVE  (IF m \notin who THEN 0 ELSE q + (IF rank(m) < r THEN 1 ELSE 0)) = a[m] + b[m]
    BY DEF EqualShares
  <2> HIDE DEF q, r
  <2>1. CASE m \notin who
    BY <2>1
  <2>2. CASE m \in who
    <3>1. m \in low <=> rank(m) < r
      BY <1>4, <2>2
    <3> HIDE DEF low, rank
    <3> QED
      BY <2>2, <3>1
  <2> QED
    BY <2>1, <2>2
<1>7. SumFunction(a) = q * n
  <2> HIDE DEF q
  <2> QED
    BY <1>2, MembersFinite, SumConstant
<1>8. SumFunction(b) = 1 * r
  <2>1. low \in SUBSET Members
    OBVIOUS
  <2> HIDE DEF low
  <2> QED
    BY <1>5, <2>1, MembersFinite, SumConstant
<1>9. /\ a \in [Members -> Int] /\ \A m \in Members : a[m] >= 0
      /\ b \in [Members -> Int] /\ \A m \in Members : b[m] >= 0
  <2> HIDE DEF q, low
  <2> QED
    BY <1>2
<1> HIDE DEF a, b, q, r
<1> DEFINE shares == EqualShares(total, who)
<1>10. /\ shares \in [Members -> Int] /\ \A m \in Members : shares[m] >= 0
       /\ \A m \in Members : shares[m] = a[m] + b[m]
  BY <1>6, <1>9
<1> HIDE DEF shares
<1>11. SumFunction(shares) = SumFunction(a) + SumFunction(b)
  BY <1>9, <1>10, MembersFinite, SumPlus
<1>12. SumFunction(shares) = total
  BY <1>2, <1>7, <1>8, <1>11
<1> QED
  BY <1>10, <1>12 DEF shares

LEMMA RoundedSharesFit ==
    ASSUME NEW total \in Nat, NEW weight \in [Members -> Nat], SumFunction(weight) > 0, NEW h \in Members
    PROVE  /\ RoundedShares(total, weight, h) \in [Members -> Int]
           /\ SumFunction(RoundedShares(total, weight, h)) = total
<1> DEFINE W == SumFunction(weight)
           raw == [m \in Members |-> RoundHalfUp(total, weight[m], W)]
           v == raw[h] + total - SumFunction(raw)
<1>1. W \in Int /\ W > 0
  <2>1. weight \in [Members -> Int]
    OBVIOUS
  <2>2. W \in Int
    BY <2>1, MembersFinite, SumInt
  <2> QED
    BY <2>2
<1>2. raw \in [Members -> Int]
  <2> SUFFICES ASSUME NEW m \in Members PROVE (2 * total * weight[m] + W) \div (2 * W) \in Int
    BY DEF RoundHalfUp
  <2>1. 2 * total * weight[m] + W \in Int /\ 2 * W \in Int /\ 2 * W > 0
    BY <1>1
  <2> QED
    BY <2>1
<1>3. RoundedShares(total, weight, h) = [raw EXCEPT ![h] = v]
  BY DEF RoundedShares
<1> HIDE DEF raw
<1>4. SumFunction(raw) \in Int
  BY <1>2, MembersFinite, SumInt
<1>5. raw[h] \in Int /\ v \in Int
  BY <1>2, <1>4
<1>6. SumFunction([raw EXCEPT ![h] = v]) = SumFunction(raw) + v - raw[h]
  <2> HIDE DEF v
  <2> QED
    BY <1>2, <1>5, MembersFinite, SumUpdate
<1>7. SumFunction(raw) + v - raw[h] = total
  BY <1>4, <1>5
<1> QED
  BY <1>2, <1>3, <1>5, <1>6, <1>7

\* Every member but h has the same share, whoever carries the leftover.
LEMMA RoundedSharesDiffer ==
    ASSUME NEW total, NEW weight, NEW h \in Members, NEW k \in Members, NEW m \in Members \ {h, k}
    PROVE  RoundedShares(total, weight, h)[m] = RoundedShares(total, weight, k)[m]
BY DEF RoundedShares

-----------------------------------------------------------------------------
\* Rows of expenses.

\* An expense as it may be stored.
RowFits(x) ==
    /\ x \in Row
    /\ SumFunction(x.paid) = x.total /\ \A m \in Members : x.paid[m] >= 0
    /\ SumFunction(x.owed) = x.total /\ \A m \in Members : x.owed[m] >= 0
    /\ x.who # {}
    /\ x.split = "SHARE" => SumFunction(x.weight) > 0
    /\ x.owed \in NormalizedShares(x.total, x.split, x.who, x.owed, x.weight)

GroupOK == group_deleted \in BOOLEAN /\ active \subseteq Members

ExpensesOK ==
    /\ DOMAIN expense \subseteq Expenses /\ IsFiniteSet(DOMAIN expense)
    /\ \A e \in DOMAIN expense : RowFits(expense[e])

SettlementFits(x) == x \in SettlementRow /\ x.from # x.to

SettlementsOK ==
    /\ DOMAIN settlement \subseteq Settlements /\ IsFiniteSet(DOMAIN settlement)
    /\ \A s \in DOMAIN settlement : SettlementFits(settlement[s])

LedgerInv == GroupOK /\ ExpensesOK /\ SettlementsOK

LEMMA Bounds == MaxAmount \in Nat /\ MaxWeight \in Nat /\ SplitTypes \subseteq {"EQUAL", "EXACT", "SHARE"}
BY BoundsAssumption, SplitTypesAssumption

\* What is computed for shares that have passed the checks may be stored.
LEMMA SharesFit ==
    ASSUME NEW total \in 1..MaxAmount, NEW split \in SplitTypes, NEW who \in SUBSET Members,
           NEW amount \in [Members -> Int], NEW weight \in [Members -> 0..MaxWeight],
           ValidShares(total, split, who, amount, weight),
           NEW owed \in NormalizedShares(total, split, who, amount, weight)
    PROVE  /\ owed \in [Members -> Int]
           /\ SumFunction(owed) = total /\ \A m \in Members : owed[m] >= 0
           /\ owed \in NormalizedShares(total, split, who, owed, weight)
<1>1. total \in Nat /\ who # {} /\ weight \in [Members -> Nat]
  BY Bounds DEF ValidShares
<1>2. CASE split = "EQUAL"
  <2>1. owed = EqualShares(total, who)
    BY <1>2 DEF NormalizedShares
  <2> QED
    BY <1>1, <1>2, <2>1, EqualSharesFit DEF NormalizedShares
<1>3. CASE split = "SHARE"
  <2>1. owed \in WeightedShares(total, who, weight)
    BY <1>3 DEF NormalizedShares
  <2>2. PICK h \in Heaviest(weight, who) :
          owed = RoundedShares(total, weight, h) /\ \A m \in Members : owed[m] >= 0
    BY <2>1 DEF WeightedShares
  <2>3. h \in Members /\ SumFunction(weight) > 0
    BY <1>3, <2>2 DEF Heaviest, ValidShares
  <2>4. owed \in [Members -> Int] /\ SumFunction(owed) = total
    BY <1>1, <2>2, <2>3, RoundedSharesFit
  <2> QED
    BY <1>3, <2>1, <2>2, <2>4 DEF NormalizedShares
<1>4. CASE split = "EXACT"
  BY <1>4 DEF NormalizedShares, ValidShares
<1> QED
  BY <1>2, <1>3, <1>4, Bounds

LEMMA StoredFits ==
    ASSUME NEW total \in 1..MaxAmount, NEW split \in SplitTypes, NEW paid \in [Members -> Int],
           NEW who \in SUBSET Members, NEW amount \in [Members -> Int],
           NEW weight \in [Members -> 0..MaxWeight], NEW del \in BOOLEAN,
           ValidPayers(total, paid), ValidShares(total, split, who, amount, weight),
           NEW owed \in NormalizedShares(total, split, who, amount, weight)
    PROVE  RowFits(Stored(total, split, paid, who, weight, owed, del))
<1> DEFINE kept == IF split = "EQUAL" THEN Nobody ELSE weight
           x == Stored(total, split, paid, who, weight, owed, del)
<1>1. /\ owed \in [Members -> Int]
      /\ SumFunction(owed) = total /\ \A m \in Members : owed[m] >= 0
      /\ owed \in NormalizedShares(total, split, who, owed, weight)
  BY SharesFit
<1>2. kept \in [Members -> 0..MaxWeight]
  BY Bounds DEF Nobody
<1>3. owed \in NormalizedShares(total, split, who, owed, kept)
  BY <1>1 DEF NormalizedShares
<1>4. split = "SHARE" => SumFunction(kept) > 0
  BY DEF ValidShares
<1>5. who # {} /\ SumFunction(paid) = total /\ \A m \in Members : paid[m] >= 0
  BY DEF ValidShares, ValidPayers
<1>6. x = [total |-> total, split |-> split, paid |-> paid, who |-> who, owed |-> owed,
           weight |-> kept, deleted |-> del]
  BY DEF Stored
<1> HIDE DEF kept, x
<1>7. x \in Row
  BY <1>1, <1>2, <1>6 DEF Row
<1>8. /\ x.total = total /\ x.split = split /\ x.paid = paid /\ x.who = who /\ x.owed = owed
      /\ x.weight = kept
  BY <1>6
<1>9. RowFits(x)
  BY <1>1, <1>3, <1>4, <1>5, <1>7, <1>8 DEF RowFits
<1> QED
  BY <1>9 DEF x

LEMMA DeletedFits ==
    ASSUME NEW x, RowFits(x), NEW y, y = [x EXCEPT !.deleted = TRUE]
    PROVE  RowFits(y)
<1>1. x \in Row
  BY DEF RowFits
<1>2. y \in Row
  BY <1>1 DEF Row
<1>3. /\ y.total = x.total /\ y.split = x.split /\ y.paid = x.paid /\ y.who = x.who /\ y.owed = x.owed
      /\ y.weight = x.weight
  BY <1>1 DEF Row
<1> QED
  BY <1>2, <1>3 DEF RowFits

LEMMA DeletedSettlementFits ==
    ASSUME NEW x, SettlementFits(x), NEW y, y = [x EXCEPT !.deleted = TRUE]
    PROVE  SettlementFits(y)
BY DEF SettlementFits, SettlementRow

LEMMA LedgerInvTypeOK == LedgerInv => TypeOK
BY DEF LedgerInv, GroupOK, ExpensesOK, SettlementsOK, RowFits, SettlementFits, TypeOK

LEMMA LedgerInvInit == Init => LedgerInv
<1> SUFFICES ASSUME Init PROVE LedgerInv
  OBVIOUS
<1>1. DOMAIN expense = {} /\ DOMAIN settlement = {}
  BY DEF Init
<1>2. IsFiniteSet({})
  BY FS_EmptySet
<1>3. GroupOK
  BY DEF Init, GroupOK
<1> QED
  BY <1>1, <1>2, <1>3 DEF LedgerInv, ExpensesOK, SettlementsOK

LEMMA AllDeletedFacts ==
    ASSUME NEW table, NEW new, new = AllDeleted(table)
    PROVE  /\ DOMAIN new = DOMAIN table
           /\ \A i \in DOMAIN table : new[i] = [table[i] EXCEPT !.deleted = TRUE]
BY DEF AllDeleted

LEMMA WeightsTypes ==
    ASSUME NEW split \in SplitTypes, NEW who \in SUBSET Members, NEW amount \in Amounts(split, who),
           NEW weight \in Weights(split, who)
    PROVE  amount \in [Members -> Int] /\ weight \in [Members -> 0..MaxWeight]
<1>1. Nobody \in [Members -> Int] /\ Nobody \in [Members -> 0..MaxWeight]
  BY Bounds DEF Nobody
<1>2. amount \in [Members -> Int]
  BY <1>1, Bounds DEF Amounts
<1>3. weight \in [Members -> 0..MaxWeight]
  BY <1>1 DEF Weights
<1> QED
  BY <1>2, <1>3

LEMMA RewriteKeeps ==
    ASSUME LedgerInv, NEW e \in DOMAIN expense,
           NEW total \in 1..MaxAmount, NEW split \in SplitTypes, NEW paid \in [Members -> Int],
           NEW who \in SUBSET Members, NEW amount \in [Members -> Int],
           NEW weight \in [Members -> 0..MaxWeight], NEW del \in BOOLEAN,
           ValidPayers(total, paid),
           Rewrite(e, total, split, paid, who, amount, weight, del)
    PROVE  ExpensesOK'
<1>1. expense[e].deleted \in BOOLEAN
  BY DEF LedgerInv, ExpensesOK, RowFits, Row
<1> DEFINE d == expense[e].deleted \/ del
<1>2. d \in BOOLEAN
  BY <1>1
<1>3. PICK owed \in NormalizedShares(total, split, who, amount, weight) :
        expense' = [expense EXCEPT ![e] = Stored(total, split, paid, who, weight, owed, d)]
  BY DEF Rewrite
<1>4. ValidShares(total, split, who, amount, weight)
  BY DEF Rewrite
<1> HIDE DEF d
<1>5. RowFits(Stored(total, split, paid, who, weight, owed, d))
  BY <1>2, <1>4, StoredFits
<1>6. /\ DOMAIN expense' = DOMAIN expense
      /\ expense'[e] = Stored(total, split, paid, who, weight, owed, d)
      /\ \A i \in DOMAIN expense \ {e} : expense'[i] = expense[i]
  BY <1>3
<1> QED
  BY <1>5, <1>6 DEF LedgerInv, ExpensesOK

LEMMA LedgerInvStep == LedgerInv /\ [Next]_vars => LedgerInv'
<1> SUFFICES ASSUME LedgerInv, [Next]_vars PROVE LedgerInv'
  OBVIOUS
<1> USE DEF LedgerInv
<1>1. CASE SoftDeleteGroup
  <2>1. GroupOK'
    BY <1>1 DEF SoftDeleteGroup, GroupOK
  <2>2. ExpensesOK'
    <3>1. expense' = AllDeleted(expense)
      BY <1>1 DEF SoftDeleteGroup
    <3>2. /\ DOMAIN expense' = DOMAIN expense
          /\ \A e \in DOMAIN expense : expense'[e] = [expense[e] EXCEPT !.deleted = TRUE]
      BY <3>1, AllDeletedFacts
    <3> QED
      BY <3>2, DeletedFits DEF ExpensesOK
  <2>3. SettlementsOK'
    <3>1. settlement' = AllDeleted(settlement)
      BY <1>1 DEF SoftDeleteGroup
    <3>2. /\ DOMAIN settlement' = DOMAIN settlement
          /\ \A s \in DOMAIN settlement : settlement'[s] = [settlement[s] EXCEPT !.deleted = TRUE]
      BY <3>1, AllDeletedFacts
    <3> QED
      BY <3>2, DeletedSettlementFits DEF SettlementsOK
  <2> QED
    BY <2>1, <2>2, <2>3
<1>2. CASE TombstoneGroup
  BY <1>2 DEF TombstoneGroup, GroupOK, ExpensesOK, SettlementsOK
<1>3. ASSUME NEW m \in Members, RemoveMember(m)
      PROVE  LedgerInv'
  BY <1>3 DEF RemoveMember, GroupOK, ExpensesOK, SettlementsOK
<1>4. ASSUME UNCHANGED <<group_deleted, active, settlement>>
      PROVE  GroupOK' /\ SettlementsOK'
  BY <1>4 DEF GroupOK, SettlementsOK
<1>5. ASSUME UNCHANGED <<group_deleted, active, expense>>
      PROVE  GroupOK' /\ ExpensesOK'
  BY <1>5 DEF GroupOK, ExpensesOK
<1>6. ASSUME NEW e \in Expenses, SoftDeleteExpense(e)
      PROVE  LedgerInv'
  <2>1. /\ DOMAIN expense' = DOMAIN expense
        /\ expense'[e] = [expense[e] EXCEPT !.deleted = TRUE]
        /\ \A i \in DOMAIN expense \ {e} : expense'[i] = expense[i]
    BY <1>6 DEF SoftDeleteExpense
  <2>2. ExpensesOK'
    BY <2>1, DeletedFits DEF ExpensesOK
  <2> QED
    BY <1>4, <1>6, <2>2 DEF SoftDeleteExpense
<1>7. ASSUME NEW e \in Expenses, NEW total \in 1..MaxAmount, NEW split \in SplitTypes, NEW paid \in Payers,
             CreateExpense(e, total, split, paid)
      PROVE  LedgerInv'
  <2>1. paid \in [Members -> Int] /\ ValidPayers(total, paid)
    <3>1. paid \in [Members -> Int]
      BY Bounds DEF Payers
    <3> QED
      BY <1>7, <3>1 DEF CreateExpense
  <2> PICK who \in SUBSET Members :
         \E amount \in Amounts(split, who), weight \in Weights(split, who) :
            /\ ValidShares(total, split, who, amount, weight)
            /\ \E owed \in NormalizedShares(total, split, who, amount, weight) :
                  expense' = Put(expense, e, Stored(total, split, paid, who, weight, owed, FALSE))
    BY <1>7 DEF CreateExpense
  <2>2. PICK amount \in Amounts(split, who), weight \in Weights(split, who) :
          /\ ValidShares(total, split, who, amount, weight)
          /\ \E owed \in NormalizedShares(total, split, who, amount, weight) :
                expense' = Put(expense, e, Stored(total, split, paid, who, weight, owed, FALSE))
    OBVIOUS
  <2>3. PICK owed \in NormalizedShares(total, split, who, amount, weight) :
          expense' = Put(expense, e, Stored(total, split, paid, who, weight, owed, FALSE))
    BY <2>2
  <2>4. RowFits(Stored(total, split, paid, who, weight, owed, FALSE))
    <3>1. amount \in [Members -> Int] /\ weight \in [Members -> 0..MaxWeight]
      BY WeightsTypes
    <3> QED
      BY <2>1, <2>2, <3>1, StoredFits
  <2> DEFINE x == Stored(total, split, paid, who, weight, owed, FALSE)
  <2>5. ExpensesOK'
    <3> HIDE DEF x
    <3>1. expense' = Put(expense, e, x) /\ RowFits(x)
      BY <2>3, <2>4 DEF x
    <3>2. /\ DOMAIN expense' = DOMAIN expense \cup {e} /\ expense'[e] = x
          /\ \A i \in DOMAIN expense \ {e} : expense'[i] = expense[i]
      BY <3>1 DEF Put
    <3>3. IsFiniteSet(DOMAIN expense \cup {e})
      BY FS_AddElement DEF ExpensesOK
    <3> QED
      BY <3>1, <3>2, <3>3 DEF ExpensesOK
  <2> QED
    BY <1>4, <1>7, <2>5 DEF CreateExpense
<1>8. ASSUME NEW e \in Expenses, NEW total \in 1..MaxAmount, NEW split \in SplitTypes, NEW paid \in Payers,
             NEW del \in BOOLEAN, UpdateExpense(e, total, split, paid, del)
      PROVE  LedgerInv'
  <2>1. paid \in [Members -> Int] /\ ValidPayers(total, paid) /\ e \in DOMAIN expense
    BY <1>8, Bounds DEF Payers, UpdateExpense
  <2>2. CASE Rewrite(e, total, split, paid, expense[e].who, expense[e].owed, expense[e].weight, del)
    <3>1. /\ expense[e].who \in SUBSET Members /\ expense[e].owed \in [Members -> Int]
          /\ expense[e].weight \in [Members -> 0..MaxWeight]
      BY <2>1 DEF ExpensesOK, RowFits, Row
    <3>2. ExpensesOK'
      BY <2>1, <2>2, <3>1, RewriteKeeps
    <3> QED
      BY <1>4, <2>2, <3>2 DEF Rewrite
  <2>3. ASSUME NEW who \in SUBSET Members, NEW amount \in Amounts(split, who),
               NEW weight \in Weights(split, who),
               Rewrite(e, total, split, paid, who, amount, weight, del)
        PROVE  LedgerInv'
    <3>1. amount \in [Members -> Int] /\ weight \in [Members -> 0..MaxWeight]
      BY WeightsTypes
    <3>2. ExpensesOK'
      BY <2>1, <2>3, <3>1, RewriteKeeps
    <3> QED
      BY <1>4, <2>3, <3>2 DEF Rewrite
  <2> QED
    BY <1>8, <2>2, <2>3 DEF UpdateExpense
<1>9. ASSUME NEW s \in Settlements, SoftDeleteSettlement(s)
      PROVE  LedgerInv'
  <2>1. /\ DOMAIN settlement' = DOMAIN settlement
        /\ settlement'[s] = [settlement[s] EXCEPT !.deleted = TRUE]
        /\ \A i \in DOMAIN settlement \ {s} : settlement'[i] = settlement[i]
    BY <1>9 DEF SoftDeleteSettlement
  <2>2. SettlementsOK'
    BY <2>1, DeletedSettlementFits DEF SettlementsOK
  <2> QED
    BY <1>5, <1>9, <2>2 DEF SoftDeleteSettlement
<1>10. ASSUME NEW s \in Settlements, NEW from \in Members, NEW to \in Members, NEW amount \in 1..MaxAmount,
              CreateSettlement(s, from, to, amount)
       PROVE  LedgerInv'
  <2> DEFINE x == [from |-> from, to |-> to, amount |-> amount, deleted |-> FALSE]
  <2>1. SettlementFits(x)
    BY <1>10 DEF CreateSettlement, ValidSettlement, SettlementFits, SettlementRow
  <2>2. settlement' = Put(settlement, s, x)
    BY <1>10 DEF CreateSettlement
  <2> HIDE DEF x
  <2>3. SettlementsOK'
    <3>1. /\ DOMAIN settlement' = DOMAIN settlement \cup {s} /\ settlement'[s] = x
          /\ \A i \in DOMAIN settlement \ {s} : settlement'[i] = settlement[i]
      BY <2>2 DEF Put
    <3>2. IsFiniteSet(DOMAIN settlement \cup {s})
      BY FS_AddElement DEF SettlementsOK
    <3> QED
      BY <2>1, <3>1, <3>2 DEF SettlementsOK
  <2> QED
    BY <1>5, <1>10, <2>3 DEF CreateSettlement
<1>11. ASSUME NEW s \in Settlements, NEW from \in Members, NEW to \in Members, NEW amount \in 1..MaxAmount,
              NEW del \in BOOLEAN, UpdateSettlement(s, from, to, amount, del)
       PROVE  LedgerInv'
  <2> DEFINE d == settlement[s].deleted \/ del
             x == [from |-> from, to |-> to, amount |-> amount, deleted |-> d]
  <2>1. s \in DOMAIN settlement /\ d \in BOOLEAN
    BY <1>11 DEF UpdateSettlement, SettlementsOK, SettlementFits, SettlementRow
  <2>2. settlement' = [settlement EXCEPT ![s] = x]
    BY <1>11 DEF UpdateSettlement
  <2> HIDE DEF d
  <2>3. SettlementFits(x)
    BY <1>11, <2>1 DEF UpdateSettlement, ValidSettlement, SettlementFits, SettlementRow
  <2> HIDE DEF x
  <2>4. SettlementsOK'
    BY <2>1, <2>2, <2>3 DEF SettlementsOK
  <2> QED
    BY <1>5, <1>11, <2>4 DEF UpdateSettlement
<1>12. CASE UNCHANGED vars
  BY <1>12 DEF vars, GroupOK, ExpensesOK, SettlementsOK
<1> QED
  BY <1>1, <1>2, <1>3, <1>6, <1>7, <1>8, <1>9, <1>10, <1>11, <1>12 DEF Next

LEMMA LedgerInvHolds == Spec => []LedgerInv
BY LedgerInvInit, LedgerInvStep, PTL DEF Spec

-----------------------------------------------------------------------------
\* What holds of the rows in every state.

\* Rows of expenses and settlements stay well formed, whatever is entered, changed and
\* deleted, for any members, bounds and split types.
THEOREM LedgerTypeCorrect == Spec => []TypeOK
BY LedgerInvHolds, LedgerInvTypeOK, PTL

\* No sequence of updates, of all or some fields, makes or loses a unit of an expense or
\* lets anybody owe a negative share: for any members, weights and totals.
THEOREM SharesAlwaysCoverTotal == Spec => []SharesCoverTotal
<1>1. LedgerInv => SharesCoverTotal
  BY DEF LedgerInv, ExpensesOK, RowFits, SharesCoverTotal
<1> QED
  BY <1>1, LedgerInvHolds, PTL

\* Any stored expense whose members are all active can be edited.
THEOREM StoredRowsAreEditable == Spec => []StoredRowsStayEditable
<1>1. LedgerInv => StoredRowsStayEditable
  <2> SUFFICES ASSUME LedgerInv, NEW e \in DOMAIN expense,
                      Positive(expense[e].paid) \cup expense[e].who \subseteq active
               PROVE  LET x == expense[e]
                      IN /\ ValidPayers(x.total, x.paid)
                         /\ ValidShares(x.total, x.split, x.who, x.owed, x.weight)
                         /\ NormalizedShares(x.total, x.split, x.who, x.owed, x.weight) # {}
    BY DEF StoredRowsStayEditable
  <2> PICK x : x = expense[e]
    OBVIOUS
  <2>1. RowFits(x)
    BY DEF LedgerInv, ExpensesOK
  <2>2. x.total > 0
    BY <2>1, Bounds DEF RowFits, Row
  <2>3. ValidPayers(x.total, x.paid)
    BY <2>1, <2>2 DEF RowFits, ValidPayers
  <2>4. ValidShares(x.total, x.split, x.who, x.owed, x.weight)
    BY <2>1 DEF RowFits, ValidShares
  <2> QED
    BY <2>1, <2>3, <2>4 DEF RowFits
<1> QED
  BY <1>1, LedgerInvHolds, PTL

\* Saving a stored expense again changes no share but those of heaviest members.
THEOREM ResavingAlwaysKeepsShares == Spec => []ResavingKeepsShares
<1>1. LedgerInv => ResavingKeepsShares
  <2> SUFFICES ASSUME LedgerInv, NEW e \in DOMAIN expense, NEW x, x = expense[e],
                      NEW owed \in NormalizedShares(x.total, x.split, x.who, x.owed, x.weight),
                      NEW m \in Members, ~(x.split = "SHARE" /\ m \in Heaviest(x.weight, x.who))
               PROVE  owed[m] = x.owed[m]
    BY DEF ResavingKeepsShares
  <2>1. RowFits(x)
    BY DEF LedgerInv, ExpensesOK
  <2>2. x.owed \in NormalizedShares(x.total, x.split, x.who, x.owed, x.weight)
    BY <2>1 DEF RowFits
  <2>3. x.split \in {"EQUAL", "EXACT", "SHARE"} /\ x.who \subseteq Members
    BY <2>1, Bounds DEF RowFits, Row
  <2>4. CASE x.split = "SHARE"
    <3>1. /\ owed \in WeightedShares(x.total, x.who, x.weight)
          /\ x.owed \in WeightedShares(x.total, x.who, x.weight)
      BY <2>2, <2>4 DEF NormalizedShares
    <3>2. PICK h \in Heaviest(x.weight, x.who) : owed = RoundedShares(x.total, x.weight, h)
      BY <3>1 DEF WeightedShares
    <3>3. PICK k \in Heaviest(x.weight, x.who) : x.owed = RoundedShares(x.total, x.weight, k)
      BY <3>1 DEF WeightedShares
    <3>4. h \in Members /\ k \in Members /\ m \in Members \ {h, k}
      BY <2>3, <2>4, <3>2, <3>3 DEF Heaviest
    <3> QED
      BY <3>2, <3>3, <3>4, RoundedSharesDiffer
  <2>5. CASE x.split # "SHARE"
    BY <2>2, <2>3, <2>5 DEF NormalizedShares
  <2> QED
    BY <2>4, <2>5
<1> QED
  BY <1>1, LedgerInvHolds, PTL

-----------------------------------------------------------------------------
\* Lists of ids, and the intervals their balances cover when laid end to end.

\* Every id is in the list, and once.
Lists(s, ids) ==
    /\ Cardinality(ids) \in Nat /\ s \in [1..Cardinality(ids) -> ids]
    /\ \A i, j \in 1..Cardinality(ids) : s[i] = s[j] => i = j
    /\ \A m \in ids : \E i \in 1..Cardinality(ids) : s[i] = m

\* A list of the members of a set, each at its place in an order.
LEMMA PlacesList ==
    ASSUME NEW ids, IsFiniteSet(ids), NEW R, IsOrder(R, ids), NEW n, n = Cardinality(ids),
           NEW s \in [1..n -> ids], \A i \in 1..n : Rank(R, ids, s[i]) = i - 1
    PROVE  Lists(s, ids)
<1>1. n \in Nat
  BY FS_CardinalityType
<1>5. \A m \in ids : \E i \in 1..n : s[i] = m
  <2> SUFFICES ASSUME NEW m \in ids PROVE \E i \in 1..n : s[i] = m
    OBVIOUS
  <2> DEFINE r == Rank(R, ids, m)
  <2>1. r \in 0..(n - 1)
    BY <1>1, RankOrders
  <2>2. r + 1 \in 1..n /\ (r + 1) - 1 = r
    BY <1>1, <2>1
  <2>3. s[r + 1] \in ids /\ Rank(R, ids, s[r + 1]) = r
    BY <2>2
  <2>4. s[r + 1] = m
    BY <1>1, <2>3, RankOrders
  <2> QED
    BY <2>2, <2>4
<1>6. \A i, j \in 1..n : s[i] = s[j] => i = j
  <2> SUFFICES ASSUME NEW i \in 1..n, NEW j \in 1..n, s[i] = s[j] PROVE i = j
    OBVIOUS
  <2>1. i - 1 = j - 1
    OBVIOUS
  <2> QED
    BY <2>1
<1> QED
  BY <1>1, <1>5, <1>6 DEF Lists

LEMMA BeforeOrders ==
    ASSUME NEW ids \in SUBSET Nat, NEW balance, \A m \in ids : balance[m] \in Int,
           NEW R, R = {p \in ids \X ids : Before(balance, p[1], p[2])}
    PROVE  IsOrder(R, ids)
<1>1. \A m \in ids : m \in Int /\ balance[m] \in Int
  OBVIOUS
<1>2. \A a, b \in ids : <<a, b>> \in R <=> Before(balance, a, b)
  OBVIOUS
<1>3. \A a, b \in ids : a # b => Before(balance, a, b) \/ Before(balance, b, a)
  BY <1>1 DEF Before
<1>4. \A a \in ids : ~Before(balance, a, a)
  BY <1>1 DEF Before
<1>5. \A a, b, c \in ids : Before(balance, a, b) /\ Before(balance, b, c) => Before(balance, a, c)
  BY <1>1 DEF Before
<1> QED
  BY <1>2, <1>3, <1>4, <1>5 DEF IsOrder

LEMMA SortedInOrder ==
    ASSUME NEW ids, IsFiniteSet(ids), NEW balance, NEW R, IsOrder(R, ids),
           \A k, m \in ids : <<k, m>> \in R <=> Before(balance, k, m)
    PROVE  Lists(Sorted(balance, ids), ids)
<1> DEFINE n == Cardinality(ids)
           s == Sorted(balance, ids)
<1>2. \A m \in ids : Rank(R, ids, m) = Cardinality({k \in ids : Before(balance, k, m)})
  <2> SUFFICES ASSUME NEW m \in ids
               PROVE  {k \in ids : <<k, m>> \in R} = {k \in ids : Before(balance, k, m)}
    BY DEF Rank
  <2> QED
    OBVIOUS
<1> DEFINE place(i) == CHOOSE m \in ids : Cardinality({k \in ids : Before(balance, k, m)}) = i - 1
<1>3. s = [i \in 1..n |-> place(i)]
  BY DEF Sorted
<1>4. n \in Nat
  BY FS_CardinalityType
<1>5. ASSUME NEW i \in 1..n
      PROVE  place(i) \in ids /\ Rank(R, ids, place(i)) = i - 1
  <2>1. \A r \in 0..(n - 1) : \E m \in ids : Rank(R, ids, m) = r
    BY RankOntoAll
  <2>2. i - 1 \in 0..(n - 1)
    BY <1>4
  <2>3. \E m \in ids : Rank(R, ids, m) = i - 1
    BY <2>1, <2>2
  <2>4. \E m \in ids : Cardinality({k \in ids : Before(balance, k, m)}) = i - 1
    BY <1>2, <2>3
  <2>5. place(i) \in ids /\ Cardinality({k \in ids : Before(balance, k, place(i))}) = i - 1
    BY <2>4
  <2> QED
    BY <1>2, <2>5
<1>6. s \in [1..n -> ids] /\ \A i \in 1..n : Rank(R, ids, s[i]) = i - 1
  <2> HIDE DEF s, place
  <2> QED
    BY <1>3, <1>5
<1> HIDE DEF s, n
<1>7. Lists(s, ids)
  BY <1>6, PlacesList DEF n
<1> QED
  BY <1>7 DEF s

LEMMA SortedLists ==
    ASSUME NEW ids, ids \subseteq Nat, IsFiniteSet(ids), NEW balance, \A m \in ids : balance[m] \in Int
    PROVE  Lists(Sorted(balance, ids), ids)
<1> DEFINE R == {p \in ids \X ids : Before(balance, p[1], p[2])}
<1>1. IsOrder(R, ids)
  BY BeforeOrders
<1>2. \A k, m \in ids : <<k, m>> \in R <=> Before(balance, k, m)
  OBVIOUS
<1> HIDE DEF R
<1> QED
  BY <1>1, <1>2, SortedInOrder

LEMMA MagnitudeFacts ==
    ASSUME NEW x \in Int
    PROVE  /\ Magnitude(x) \in Int /\ Magnitude(x) >= 0
           /\ x >= 0 => Magnitude(x) = x
           /\ x <= 0 => Magnitude(x) = -x
BY DEF Magnitude, Greatest

\* Ends grow by what is owed to, or by, the next in line.
Reaches(P, n, s, balance) ==
    /\ n \in Nat /\ P \in [0..n -> Int] /\ P[0] = 0
    /\ \A i \in 1..n : P[i] = P[i - 1] + Magnitude(balance[s[i]]) /\ P[i - 1] <= P[i]

Ends(balance, s, n) == [i \in 0..n |-> Prefix(balance, s, i)]
Magnitudes(balance, s, n) == [i \in 1..n |-> Magnitude(balance[s[i]])]

LEMMA PrefixReaches ==
    ASSUME NEW D, NEW balance \in [D -> Int], NEW n \in Nat, NEW s \in [1..n -> D]
    PROVE  /\ Reaches(Ends(balance, s, n), n, s, balance)
           /\ Ends(balance, s, n)[n] = SumFunction(Magnitudes(balance, s, n))
<1> DEFINE f == [i \in 1..n |-> Magnitude(balance[s[i]])]
<1>1. \A i \in 1..n : Magnitude(balance[s[i]]) \in Int /\ Magnitude(balance[s[i]]) >= 0
  BY MagnitudeFacts
<1>2. f \in [1..n -> Int]
  BY <1>1
<1>3. \A k \in 0..n : Prefix(balance, s, k) = PartSum(f, 1..k)
  <2> SUFFICES ASSUME NEW k \in 0..n
               PROVE  [i \in 1..k |-> f[i]] = [i \in 1..k |-> Magnitude(balance[s[i]])]
    BY DEF Prefix, PartSum
  <2>1. \A i \in 1..k : i \in 1..n
    OBVIOUS
  <2> QED
    BY <2>1
<1>4. \A i \in 1..n : f[i] = Magnitude(balance[s[i]])
  OBVIOUS
<1>5. SumFunction(f) = SumFunction(Magnitudes(balance, s, n))
  BY DEF Magnitudes
<1> DEFINE P == Ends(balance, s, n)
<1> HIDE DEF f
<1>6. 0 \in 0..n /\ n \in 0..n /\ \A i \in 1..n : i \in 0..n /\ i - 1 \in 0..n
  OBVIOUS
<1>7. \A k \in 0..n : PartSum(f, 1..k) \in Int
  BY <1>2, SumFirst
<1>8. \A k \in 1..n : PartSum(f, 1..k) = f[k] + PartSum(f, 1..(k - 1))
  BY <1>2, SumFirst
<1>9. PartSum(f, 1..0) = 0 /\ PartSum(f, 1..n) = SumFunction(f)
  BY <1>2, SumFirst
<1>10. ASSUME NEW i \in 1..n
       PROVE  /\ Prefix(balance, s, i) = Prefix(balance, s, i - 1) + Magnitude(balance[s[i]])
              /\ Prefix(balance, s, i - 1) <= Prefix(balance, s, i)
  <2> PICK x \in Int : x = Prefix(balance, s, i - 1)
    BY <1>3, <1>6, <1>7
  <2> PICK y \in Int : y = Magnitude(balance[s[i]]) /\ y >= 0
    BY <1>1
  <2>1. Prefix(balance, s, i) = y + x
    BY <1>3, <1>4, <1>6, <1>8
  <2> QED
    BY <2>1
<1>11. P = [i \in 0..n |-> Prefix(balance, s, i)]
  BY DEF Ends
<1> HIDE DEF P
<1>12. P \in [0..n -> Int] /\ P[0] = 0 /\ P[n] = SumFunction(Magnitudes(balance, s, n))
  BY <1>3, <1>5, <1>6, <1>7, <1>9, <1>11
<1>13. \A i \in 1..n : P[i] = P[i - 1] + Magnitude(balance[s[i]]) /\ P[i - 1] <= P[i]
  <2> SUFFICES ASSUME NEW i \in 1..n
               PROVE  P[i] = P[i - 1] + Magnitude(balance[s[i]]) /\ P[i - 1] <= P[i]
    OBVIOUS
  <2>1. P[i] = Prefix(balance, s, i) /\ P[i - 1] = Prefix(balance, s, i - 1)
    BY <1>6, <1>11
  <2> QED
    BY <1>10, <2>1
<1> QED
  BY <1>12, <1>13 DEF Reaches, P

LEMMA Monotone ==
    ASSUME NEW n \in Nat, NEW P \in [0..n -> Int], \A i \in 1..n : P[i - 1] <= P[i],
           NEW j \in 0..n, NEW k \in 0..n, j <= k
    PROVE  P[j] <= P[k]
<1> DEFINE A == {i \in 0..n : j <= i => P[j] <= P[i]}
<1>1. A \in SUBSET (0..n)
  OBVIOUS
<1>2. 0 \in A
  OBVIOUS
<1>3. ASSUME NEW i \in 1..n, i - 1 \in A PROVE i \in A
  <2>1. i \in 0..n /\ i - 1 \in 0..n /\ P[i] \in Int /\ P[i - 1] \in Int /\ P[j] \in Int
    OBVIOUS
  <2>2. P[i - 1] <= P[i] /\ (j <= i - 1 => P[j] <= P[i - 1])
    BY <1>3
  <2>3. CASE j <= i - 1
    BY <2>1, <2>2, <2>3
  <2>4. CASE ~(j <= i - 1)
    BY <2>1, <2>4
  <2> QED
    BY <2>3, <2>4
<1> HIDE DEF A
<1>4. k \in A
  BY <1>1, <1>2, <1>3, Counting
<1> QED
  BY <1>4 DEF A

\* How far interval [a, b] reaches into what ends at x.
Clamp(a, b, x) == Greatest(a, Least(b, x))

LEMMA ClampOverlap ==
    \A a, b, x, y \in Int : a <= b /\ x <= y =>
        Greatest(0, Least(b, y) - Greatest(a, x)) = Clamp(a, b, y) - Clamp(a, b, x)
BY DEF Clamp, Greatest, Least

\* The overlaps of one interval with all of a list add up to what of it the list covers.
Overlaps(a, b, Q, n) == [i \in 1..n |-> Greatest(0, Least(b, Q[i]) - Greatest(a, Q[i - 1]))]

LEMMA OverlapsAddUp ==
    ASSUME NEW n, NEW Q, NEW s, NEW balance, Reaches(Q, n, s, balance),
           NEW a \in Int, NEW b \in Int, 0 <= a, a <= b,
           NEW F, F = Overlaps(a, b, Q, n)
    PROVE  /\ n \in Nat /\ F \in [1..n -> Int] /\ \A i \in 1..n : F[i] >= 0
           /\ SumFunction(F) = Clamp(a, b, Q[n]) - a
<1>6. n \in Nat /\ Q \in [0..n -> Int] /\ Q[0] = 0 /\ \A i \in 1..n : Q[i - 1] <= Q[i]
  BY DEF Reaches
<1>7. F = [i \in 1..n |-> Greatest(0, Least(b, Q[i]) - Greatest(a, Q[i - 1]))]
  BY DEF Overlaps
<1>8. ASSUME NEW i \in 1..n
      PROVE  /\ Greatest(0, Least(b, Q[i]) - Greatest(a, Q[i - 1])) \in Int
             /\ Greatest(0, Least(b, Q[i]) - Greatest(a, Q[i - 1])) >= 0
  <2>1. i \in 0..n /\ i - 1 \in 0..n
    BY <1>6
  <2>2. Q[i] \in Int /\ Q[i - 1] \in Int
    BY <1>6, <2>1
  <2> QED
    BY <2>2 DEF Greatest, Least
<1>9. F \in [1..n -> Int] /\ \A i \in 1..n : F[i] >= 0
  BY <1>7, <1>8
<1>10. \A i \in 1..n : F[i] = Greatest(0, Least(b, Q[i]) - Greatest(a, Q[i - 1]))
  BY <1>7
<1> DEFINE T == [i \in 0..n |-> Clamp(a, b, Q[i])]
<1>1. T \in [0..n -> Int]
  <2> SUFFICES ASSUME NEW i \in 0..n PROVE Clamp(a, b, Q[i]) \in Int
    OBVIOUS
  <2>1. Q[i] \in Int
    BY <1>6
  <2> QED
    BY <2>1 DEF Clamp, Greatest, Least
<1>2. ASSUME NEW i \in 1..n PROVE F[i] = T[i] - T[i - 1]
  <2>1. i \in 0..n /\ i - 1 \in 0..n
    BY <1>6
  <2>2. Q[i - 1] \in Int /\ Q[i] \in Int /\ Q[i - 1] <= Q[i]
    BY <1>6, <2>1
  <2>3. Greatest(0, Least(b, Q[i]) - Greatest(a, Q[i - 1])) = Clamp(a, b, Q[i]) - Clamp(a, b, Q[i - 1])
    BY <2>2, ClampOverlap
  <2> QED
    BY <1>10, <2>1, <2>3
<1>3. T[0] = a
  BY <1>6 DEF Clamp, Greatest, Least
<1>4. T[n] = Clamp(a, b, Q[n])
  BY <1>6
<1> HIDE DEF T
<1>5. SumFunction(F) = T[n] - T[0]
  BY <1>1, <1>2, <1>6, <1>9, SumTelescope
<1> QED
  BY <1>3, <1>4, <1>5, <1>6, <1>9

-----------------------------------------------------------------------------
\* What a list of transfers moves.

\* Of n transfers those that move something.
Moving(e, n) == {t \in {e[i] : i \in 1..n} : t.amount > 0}

LEMMA TotalImage ==
    ASSUME NEW n \in Nat, NEW F \in [1..n -> Int], \A i \in 1..n : F[i] >= 0,
           NEW e, \A i, j \in 1..n : e[i] = e[j] => i = j, \A i \in 1..n : e[i].amount = F[i]
    PROVE  Total(Moving(e, n)) = SumFunction(F)
<1> DEFINE C == 1..n
           D == {e[i] : i \in C}
           f == [t \in D |-> t.amount]
           A == {t \in D : t.amount > 0}
           g == [i \in C |-> e[i]]
<1>1. IsFiniteSet(C) /\ F \in [C -> Int] /\ \A i \in C : F[i] >= 0
  BY FS_Interval
<1>2. g \in Bijection(C, D)
  BY DEF Bijection, Injection, Surjection, IsInjective
<1>3. \A i \in C : g[i].amount = F[i] /\ g[i] \in D
  OBVIOUS
<1>4. \A t \in D : \E i \in C : t = g[i]
  OBVIOUS
<1> HIDE DEF C, D, g
<1>5. IsFiniteSet(D)
  BY <1>1, <1>2, FS_Surjection DEF Bijection
<1>6. \A t \in D : t.amount \in Int /\ t.amount >= 0
  BY <1>1, <1>3, <1>4
<1>7. f \in [D -> Int]
  BY <1>6
<1>8. \A i \in C : F[i] = f[g[i]]
  BY <1>3
<1>9. A \in SUBSET D /\ \A t \in D \ A : f[t] = 0
  BY <1>6
<1>10. Total(A) = SumFunction([t \in A |-> f[t]])
  <2>1. [t \in A |-> t.amount] = [t \in A |-> f[t]]
    OBVIOUS
  <2> QED
    BY <2>1 DEF Total
<1> HIDE DEF f, A
<1>11. SumFunction(F) = PartSum(f, D)
  BY <1>1, <1>2, <1>5, <1>7, <1>8, SumBijection
<1>12. PartSum(f, D) = SumFunction(f)
  BY <1>5, <1>7, PartSums
<1>13. SumFunction(f) = PartSum(f, A)
  BY <1>5, <1>7, <1>9, SumOutside
<1>14. SumFunction(F) = Total(A)
  BY <1>10, <1>11, <1>12, <1>13 DEF PartSum
<1> QED
  BY <1>14 DEF A, D, C, Moving

\* The places of a list, as a set like any other.
Places(n) == 1..n

LEMMA SumOfList ==
    ASSUME NEW D, IsFiniteSet(D), NEW f \in [D -> Int], NEW ids \in SUBSET D, NEW s, Lists(s, ids),
           NEW C, C = Places(Cardinality(ids)), NEW k \in [C -> Int], \A i \in C : k[i] = f[s[i]]
    PROVE  SumFunction(k) = PartSum(f, ids)
<1>1. IsFiniteSet(C)
  BY FS_Interval DEF Lists, Places
<1>2. s \in Bijection(C, ids)
  BY DEF Lists, Bijection, Injection, Surjection, IsInjective, Places
<1> QED
  BY <1>1, <1>2, SumBijection

LEMMA Symmetric ==
    \A a, b \in Int : Least(a, b) = Least(b, a) /\ Greatest(a, b) = Greatest(b, a)
BY DEF Least, Greatest

LEMMA ReachesOrdered ==
    ASSUME NEW balance, NEW s, NEW n, NEW P, Reaches(P, n, s, balance)
    PROVE  \A j, k \in 0..n : j <= k => P[j] <= P[k]
BY Monotone DEF Reaches

LEMMA ReachesAt ==
    ASSUME NEW balance, NEW s, NEW n, NEW P, Reaches(P, n, s, balance), NEW c \in 1..n
    PROVE  /\ P[c - 1] \in Int /\ P[c] \in Int /\ P[n] \in Int
           /\ 0 <= P[c - 1] /\ P[c - 1] <= P[c] /\ P[c] <= P[n]
           /\ P[c] = P[c - 1] + Magnitude(balance[s[c]])
<1>1. n \in Nat /\ P \in [0..n -> Int] /\ P[0] = 0
  BY DEF Reaches
<1>2. c \in 0..n /\ c - 1 \in 0..n /\ 0 \in 0..n /\ n \in 0..n /\ 0 <= c - 1 /\ c <= n
  BY <1>1
<1>3. P[0] <= P[c - 1] /\ P[c] <= P[n]
  BY <1>2, ReachesOrdered
<1>4. P[c] = P[c - 1] + Magnitude(balance[s[c]]) /\ P[c - 1] <= P[c]
  BY DEF Reaches
<1>5. P[c - 1] \in Int /\ P[c] \in Int /\ P[n] \in Int
  BY <1>1, <1>2
<1> QED
  BY <1>1, <1>3, <1>4, <1>5

LEMMA ListReaches ==
    ASSUME NEW D, IsFiniteSet(D), NEW balance \in [D -> Int], NEW ids \in SUBSET D, NEW s, Lists(s, ids),
           NEW n, n = Cardinality(ids), NEW f, f = [m \in D |-> Magnitude(balance[m])]
    PROVE  /\ Reaches(Ends(balance, s, n), n, s, balance)
           /\ Ends(balance, s, n)[n] = PartSum(f, ids)
<1> DEFINE C == Places(n)
           k == Magnitudes(balance, s, n)
<1>1. n \in Nat /\ s \in [1..n -> D]
  BY DEF Lists
<1>2. s \in [C -> D]
  BY <1>1 DEF Places
<1>3. f \in [D -> Int]
  BY MagnitudeFacts
<1>4. k = [i \in C |-> Magnitude(balance[s[i]])]
  BY DEF Places, Magnitudes
<1>5. Reaches(Ends(balance, s, n), n, s, balance) /\ Ends(balance, s, n)[n] = SumFunction(k)
  BY <1>1, PrefixReaches
<1> HIDE DEF k, C
<1>6. k \in [C -> Int] /\ \A i \in C : k[i] = f[s[i]]
  BY <1>2, <1>4, MagnitudeFacts
<1>7. SumFunction(k) = PartSum(f, ids)
  BY <1>3, <1>6, SumOfList DEF C
<1> QED
  BY <1>5, <1>7

-----------------------------------------------------------------------------
\* What each member gets, and pays, by the transfers suggested.

Balanced(D, balance) == D \subseteq Nat /\ IsFiniteSet(D) /\ balance \in [D -> Int]

\* The two lists, and the intervals their balances cover.
IsLedger(balance, N, M, cs, ds, P, Q) ==
    /\ N = Cardinality(InCredit(balance)) /\ M = Cardinality(InDebt(balance))
    /\ cs = SortedCreditors(balance) /\ ds = SortedDebtors(balance)
    /\ P = Ends(balance, cs, N) /\ Q = Ends(balance, ds, M)

LEMMA LedgerExists ==
    ASSUME NEW balance
    PROVE  \E N, M, cs, ds, P, Q : IsLedger(balance, N, M, cs, ds, P, Q)
BY DEF IsLedger

LEMMA SidesOf ==
    ASSUME NEW D, NEW balance, Balanced(D, balance)
    PROVE  /\ InCredit(balance) \in SUBSET D /\ InDebt(balance) \in SUBSET D
           /\ \A m \in D : /\ m \in InCredit(balance) <=> balance[m] > 0
                           /\ m \in InDebt(balance) <=> balance[m] < 0
BY DEF Balanced, InCredit, InDebt

LEMMA LedgerLists ==
    ASSUME NEW D, NEW balance, Balanced(D, balance),
           NEW N, NEW M, NEW cs, NEW ds, NEW P, NEW Q, IsLedger(balance, N, M, cs, ds, P, Q)
    PROVE  /\ N \in Nat /\ Lists(cs, InCredit(balance))
           /\ M \in Nat /\ Lists(ds, InDebt(balance))
<1>1. InCredit(balance) \in SUBSET D /\ InDebt(balance) \in SUBSET D
  BY SidesOf
<1>2. IsFiniteSet(InCredit(balance)) /\ IsFiniteSet(InDebt(balance))
  BY <1>1, FS_Subset DEF Balanced
<1>3. /\ InCredit(balance) \subseteq Nat /\ InDebt(balance) \subseteq Nat
      /\ \A m \in InCredit(balance) : balance[m] \in Int
      /\ \A m \in InDebt(balance) : balance[m] \in Int
  BY <1>1 DEF Balanced
<1>4. Lists(Sorted(balance, InCredit(balance)), InCredit(balance))
  BY <1>2, <1>3, SortedLists
<1>5. Lists(Sorted(balance, InDebt(balance)), InDebt(balance))
  BY <1>2, <1>3, SortedLists
<1> QED
  BY <1>4, <1>5 DEF IsLedger, SortedCreditors, SortedDebtors, Lists

LEMMA LedgerReaches ==
    ASSUME NEW D, NEW balance, Balanced(D, balance),
           NEW N, NEW M, NEW cs, NEW ds, NEW P, NEW Q, IsLedger(balance, N, M, cs, ds, P, Q),
           NEW f, f = [m \in D |-> Magnitude(balance[m])]
    PROVE  /\ Reaches(P, N, cs, balance) /\ P[N] = PartSum(f, InCredit(balance))
           /\ Reaches(Q, M, ds, balance) /\ Q[M] = PartSum(f, InDebt(balance))
<1>1. InCredit(balance) \in SUBSET D /\ InDebt(balance) \in SUBSET D
  BY SidesOf
<1>2. Lists(cs, InCredit(balance)) /\ Lists(ds, InDebt(balance))
  BY LedgerLists
<1>3. IsFiniteSet(D) /\ balance \in [D -> Int]
  BY DEF Balanced
<1>4. /\ N = Cardinality(InCredit(balance)) /\ M = Cardinality(InDebt(balance))
      /\ P = Ends(balance, cs, N) /\ Q = Ends(balance, ds, M)
  BY DEF IsLedger
<1>5. Reaches(P, N, cs, balance) /\ P[N] = PartSum(f, InCredit(balance))
  BY <1>1, <1>2, <1>3, <1>4, ListReaches
<1>6. Reaches(Q, M, ds, balance) /\ Q[M] = PartSum(f, InDebt(balance))
  BY <1>1, <1>2, <1>3, <1>4, ListReaches
<1> QED
  BY <1>5, <1>6

\* The transfer between the creditor at place c and the debtor at place d.
LEMMA TransferBetween ==
    ASSUME NEW balance, NEW N, NEW M, NEW cs, NEW ds, NEW P, NEW Q, N \in Nat, M \in Nat,
           P = Ends(balance, cs, N), Q = Ends(balance, ds, M),
           Reaches(P, N, cs, balance), Reaches(Q, M, ds, balance), NEW c \in 1..N, NEW d \in 1..M
    PROVE  /\ Transfer(balance, cs, ds, c, d).from = ds[d]
           /\ Transfer(balance, cs, ds, c, d).to = cs[c]
           /\ Transfer(balance, cs, ds, c, d).amount = Overlaps(P[c - 1], P[c], Q, M)[d]
           /\ Transfer(balance, cs, ds, c, d).amount = Overlaps(Q[d - 1], Q[d], P, N)[c]
<1>1. c \in 0..N /\ c - 1 \in 0..N /\ d \in 0..M /\ d - 1 \in 0..M
  OBVIOUS
<1>2. /\ P[c] = Prefix(balance, cs, c) /\ P[c - 1] = Prefix(balance, cs, c - 1)
      /\ Q[d] = Prefix(balance, ds, d) /\ Q[d - 1] = Prefix(balance, ds, d - 1)
  BY <1>1 DEF Ends
<1> DEFINE w == Overlap(balance, cs, ds, c, d)
<1>3. P[c] \in Int /\ P[c - 1] \in Int /\ Q[d] \in Int /\ Q[d - 1] \in Int
  BY <1>1 DEF Reaches
<1>4. w = Greatest(0, Least(P[c], Q[d]) - Greatest(P[c - 1], Q[d - 1]))
  BY <1>2 DEF Overlap
<1>5. Least(P[c], Q[d]) = Least(Q[d], P[c]) /\ Greatest(P[c - 1], Q[d - 1]) = Greatest(Q[d - 1], P[c - 1])
  BY <1>3, Symmetric
<1>6. w = Overlaps(P[c - 1], P[c], Q, M)[d]
  BY <1>4 DEF Overlaps
<1>7. w = Overlaps(Q[d - 1], Q[d], P, N)[c]
  BY <1>4, <1>5 DEF Overlaps
<1> HIDE DEF w
<1>8. Transfer(balance, cs, ds, c, d) = [from |-> ds[d], to |-> cs[c], amount |-> w]
  BY DEF Transfer, w
<1> QED
  BY <1>6, <1>7, <1>8

\* Everything one member gets from, or pays to, a list of others.
LEMMA OneSide ==
    ASSUME NEW n, NEW Q, NEW s, NEW balance, Reaches(Q, n, s, balance),
           NEW a \in Int, NEW b \in Int, 0 <= a, a <= b,
           NEW e, \A i, j \in 1..n : e[i] = e[j] => i = j,
           \A i \in 1..n : e[i].amount = Overlaps(a, b, Q, n)[i]
    PROVE  Total(Moving(e, n)) = Clamp(a, b, Q[n]) - a
<1> DEFINE F == Overlaps(a, b, Q, n)
<1>1. /\ n \in Nat /\ F \in [1..n -> Int] /\ \A i \in 1..n : F[i] >= 0
      /\ SumFunction(F) = Clamp(a, b, Q[n]) - a
  BY OverlapsAddUp
<1>2. Total(Moving(e, n)) = SumFunction(F)
  <2> HIDE DEF F
  <2> QED
    BY <1>1, TotalImage DEF F
<1> QED
  BY <1>1, <1>2

LEMMA Suggestions ==
    ASSUME NEW balance, NEW N, NEW M, NEW cs, NEW ds, NEW P, NEW Q, N \in Nat, M \in Nat,
           IsLedger(balance, N, M, cs, ds, P, Q),
           Lists(cs, InCredit(balance)), Lists(ds, InDebt(balance))
    PROVE  \A t : t \in SimplifiedDebts(balance) <=>
                    \E c \in 1..N, d \in 1..M : t = Transfer(balance, cs, ds, c, d) /\ t.amount > 0
<1>1. DOMAIN cs = 1..N /\ DOMAIN ds = 1..M
  BY DEF IsLedger, Lists
<1>2. SimplifiedDebts(balance)
      = {t \in {Transfer(balance, cs, ds, c, d) : c \in 1..N, d \in 1..M} : t.amount > 0}
  BY <1>1 DEF IsLedger, SimplifiedDebts
<1> QED
  BY <1>2

\* What a creditor gets: as much of his interval as the debts cover.
LEMMA Received ==
    ASSUME NEW D, NEW balance, Balanced(D, balance),
           NEW N, NEW M, NEW cs, NEW ds, NEW P, NEW Q, IsLedger(balance, N, M, cs, ds, P, Q),
           NEW c \in 1..N
    PROVE  Total({t \in SimplifiedDebts(balance) : t.to = cs[c]}) = Clamp(P[c - 1], P[c], Q[M]) - P[c - 1]
<1> DEFINE e == [d \in 1..M |-> Transfer(balance, cs, ds, c, d)]
<1>1. /\ N \in Nat /\ Lists(cs, InCredit(balance))
      /\ M \in Nat /\ Lists(ds, InDebt(balance))
  BY LedgerLists
<1>2. Reaches(P, N, cs, balance) /\ Reaches(Q, M, ds, balance)
  BY LedgerReaches
<1>3. P = Ends(balance, cs, N) /\ Q = Ends(balance, ds, M)
  BY DEF IsLedger
<1>4. ASSUME NEW k \in 1..N, NEW d \in 1..M
      PROVE  /\ Transfer(balance, cs, ds, k, d).from = ds[d]
             /\ Transfer(balance, cs, ds, k, d).to = cs[k]
             /\ Transfer(balance, cs, ds, k, d).amount = Overlaps(P[k - 1], P[k], Q, M)[d]
  BY <1>1, <1>2, <1>3, TransferBetween
<1>5. \A d \in 1..M : e[d].from = ds[d] /\ e[d].to = cs[c] /\ e[d].amount = Overlaps(P[c - 1], P[c], Q, M)[d]
  BY <1>4
<1>6. \A t : t \in SimplifiedDebts(balance) <=>
               \E k \in 1..N, d \in 1..M : t = Transfer(balance, cs, ds, k, d) /\ t.amount > 0
  BY <1>1, Suggestions
<1>7. \A k \in 1..N : cs[k] = cs[c] => k = c
  BY <1>1 DEF Lists, IsLedger
<1>8. \A i, j \in 1..M : ds[i] = ds[j] => i = j
  BY <1>1 DEF Lists, IsLedger
<1>9. {t \in SimplifiedDebts(balance) : t.to = cs[c]} = Moving(e, M)
  <2>1. ASSUME NEW t, t \in SimplifiedDebts(balance), t.to = cs[c]
        PROVE  t \in Moving(e, M)
    <3>1. PICK k \in 1..N, d \in 1..M : t = Transfer(balance, cs, ds, k, d) /\ t.amount > 0
      BY <1>6, <2>1
    <3>2. k = c
      BY <1>4, <1>7, <2>1, <3>1
    <3>3. t = e[d]
      BY <3>1, <3>2
    <3> QED
      BY <3>1, <3>3 DEF Moving
  <2>2. ASSUME NEW t, t \in Moving(e, M)
        PROVE  t \in SimplifiedDebts(balance) /\ t.to = cs[c]
    <3>1. PICK d \in 1..M : t = e[d] /\ t.amount > 0
      BY <2>2 DEF Moving
    <3>2. t = Transfer(balance, cs, ds, c, d)
      BY <3>1
    <3> QED
      BY <1>5, <1>6, <3>1, <3>2
  <2> QED
    BY <2>1, <2>2
<1>10. \A i, j \in 1..M : e[i] = e[j] => i = j
  BY <1>5, <1>8
<1>11. /\ P[c - 1] \in Int /\ P[c] \in Int /\ P[c - 1] <= P[c] /\ 0 <= P[c - 1]
  BY <1>2, ReachesAt
<1>12. \A d \in 1..M : e[d].amount = Overlaps(P[c - 1], P[c], Q, M)[d]
  BY <1>5
<1> HIDE DEF e
<1>13. Total(Moving(e, M)) = Clamp(P[c - 1], P[c], Q[M]) - P[c - 1]
  <2> DEFINE a == P[c - 1]
             b == P[c]
  <2>1. a \in Int /\ b \in Int /\ 0 <= a /\ a <= b
    BY <1>11
  <2>2. \A d \in 1..M : e[d].amount = Overlaps(a, b, Q, M)[d]
    BY <1>12
  <2> HIDE DEF a, b
  <2>3. Total(Moving(e, M)) = Clamp(a, b, Q[M]) - a
    BY <1>2, <1>10, <2>1, <2>2, OneSide
  <2> QED
    BY <2>3 DEF a, b
<1> QED
  BY <1>9, <1>13

\* What a debtor pays: as much of his interval as the credits cover.
LEMMA Paid ==
    ASSUME NEW D, NEW balance, Balanced(D, balance),
           NEW N, NEW M, NEW cs, NEW ds, NEW P, NEW Q, IsLedger(balance, N, M, cs, ds, P, Q),
           NEW d \in 1..M
    PROVE  Total({t \in SimplifiedDebts(balance) : t.from = ds[d]}) = Clamp(Q[d - 1], Q[d], P[N]) - Q[d - 1]
<1> DEFINE e == [c \in 1..N |-> Transfer(balance, cs, ds, c, d)]
<1>1. /\ N \in Nat /\ Lists(cs, InCredit(balance))
      /\ M \in Nat /\ Lists(ds, InDebt(balance))
  BY LedgerLists
<1>2. Reaches(P, N, cs, balance) /\ Reaches(Q, M, ds, balance)
  BY LedgerReaches
<1>3. P = Ends(balance, cs, N) /\ Q = Ends(balance, ds, M)
  BY DEF IsLedger
<1>4. ASSUME NEW c \in 1..N, NEW k \in 1..M
      PROVE  /\ Transfer(balance, cs, ds, c, k).from = ds[k]
             /\ Transfer(balance, cs, ds, c, k).to = cs[c]
             /\ Transfer(balance, cs, ds, c, k).amount = Overlaps(Q[k - 1], Q[k], P, N)[c]
  BY <1>1, <1>2, <1>3, TransferBetween
<1>5. \A c \in 1..N : e[c].from = ds[d] /\ e[c].to = cs[c] /\ e[c].amount = Overlaps(Q[d - 1], Q[d], P, N)[c]
  BY <1>4
<1>6. \A t : t \in SimplifiedDebts(balance) <=>
               \E c \in 1..N, k \in 1..M : t = Transfer(balance, cs, ds, c, k) /\ t.amount > 0
  BY <1>1, Suggestions
<1>7. \A k \in 1..M : ds[k] = ds[d] => k = d
  BY <1>1 DEF Lists, IsLedger
<1>8. \A i, j \in 1..N : cs[i] = cs[j] => i = j
  BY <1>1 DEF Lists, IsLedger
<1>9. {t \in SimplifiedDebts(balance) : t.from = ds[d]} = Moving(e, N)
  <2>1. ASSUME NEW t, t \in SimplifiedDebts(balance), t.from = ds[d]
        PROVE  t \in Moving(e, N)
    <3>1. PICK c \in 1..N, k \in 1..M : t = Transfer(balance, cs, ds, c, k) /\ t.amount > 0
      BY <1>6, <2>1
    <3>2. k = d
      BY <1>4, <1>7, <2>1, <3>1
    <3>3. t = e[c]
      BY <3>1, <3>2
    <3> QED
      BY <3>1, <3>3 DEF Moving
  <2>2. ASSUME NEW t, t \in Moving(e, N)
        PROVE  t \in SimplifiedDebts(balance) /\ t.from = ds[d]
    <3>1. PICK c \in 1..N : t = e[c] /\ t.amount > 0
      BY <2>2 DEF Moving
    <3>2. t = Transfer(balance, cs, ds, c, d)
      BY <3>1
    <3> QED
      BY <1>5, <1>6, <3>1, <3>2
  <2> QED
    BY <2>1, <2>2
<1>10. \A i, j \in 1..N : e[i] = e[j] => i = j
  BY <1>5, <1>8
<1>11. /\ Q[d - 1] \in Int /\ Q[d] \in Int /\ Q[d - 1] <= Q[d] /\ 0 <= Q[d - 1]
  BY <1>2, ReachesAt
<1>12. \A c \in 1..N : e[c].amount = Overlaps(Q[d - 1], Q[d], P, N)[c]
  BY <1>5
<1> HIDE DEF e
<1>13. Total(Moving(e, N)) = Clamp(Q[d - 1], Q[d], P[N]) - Q[d - 1]
  <2> DEFINE a == Q[d - 1]
             b == Q[d]
  <2>1. a \in Int /\ b \in Int /\ 0 <= a /\ a <= b
    BY <1>11
  <2>2. \A c \in 1..N : e[c].amount = Overlaps(a, b, P, N)[c]
    BY <1>12
  <2> HIDE DEF a, b
  <2>3. Total(Moving(e, N)) = Clamp(a, b, P[N]) - a
    BY <1>2, <1>10, <2>1, <2>2, OneSide
  <2> QED
    BY <2>3 DEF a, b
<1> QED
  BY <1>9, <1>13

LEMMA TotalOfNone == Total({}) = 0
<1>1. [t \in {} |-> t.amount] \in [{} -> Int]
  OBVIOUS
<1> QED
  BY <1>1, SumEmpty DEF Total

\* What is left of a balance when everything suggested is paid.
Rest(balance, m) ==
    balance[m] + Total({t \in SimplifiedDebts(balance) : t.from = m})
               - Total({t \in SimplifiedDebts(balance) : t.to = m})

LEMMA ClampBetween ==
    \A a, b, x \in Int : /\ a <= b => Clamp(a, b, x) <= b
                         /\ a <= b /\ b <= x => Clamp(a, b, x) = b
                         /\ Clamp(a, b, x) \in Int
BY DEF Clamp, Greatest, Least

LEMMA RestOf ==
    ASSUME NEW D, NEW balance, Balanced(D, balance),
           NEW N, NEW M, NEW cs, NEW ds, NEW P, NEW Q, IsLedger(balance, N, M, cs, ds, P, Q),
           NEW m \in D
    PROVE  /\ balance[m] >= 0 => Rest(balance, m) >= 0 /\ (P[N] <= Q[M] => Rest(balance, m) = 0)
           /\ balance[m] <= 0 => Rest(balance, m) <= 0 /\ (Q[M] <= P[N] => Rest(balance, m) = 0)
           /\ Rest(balance, m) \in Int
<1> DEFINE S == SimplifiedDebts(balance)
           from == {t \in S : t.from = m}
           to == {t \in S : t.to = m}
<1>1. /\ N \in Nat /\ Lists(cs, InCredit(balance))
      /\ M \in Nat /\ Lists(ds, InDebt(balance))
  BY LedgerLists
<1>2. Reaches(P, N, cs, balance) /\ Reaches(Q, M, ds, balance)
  BY LedgerReaches
<1>3. /\ \A t \in S : t.from \in InDebt(balance) /\ t.to \in InCredit(balance)
  <2> SUFFICES ASSUME NEW t \in S PROVE t.from \in InDebt(balance) /\ t.to \in InCredit(balance)
    OBVIOUS
  <2>1. PICK c \in 1..N, d \in 1..M : t = Transfer(balance, cs, ds, c, d)
    BY <1>1, Suggestions
  <2>2. t.from = ds[d] /\ t.to = cs[c]
    BY <2>1 DEF Transfer
  <2> QED
    BY <1>1, <2>2 DEF Lists, IsLedger
<1>4. /\ balance[m] \in Int
      /\ m \in InCredit(balance) <=> balance[m] > 0
      /\ m \in InDebt(balance) <=> balance[m] < 0
  BY SidesOf DEF Balanced
<1>5. Rest(balance, m) = balance[m] + Total(from) - Total(to)
  BY DEF Rest
<1>6. ~(balance[m] < 0) => Total(from) = 0
  <2> SUFFICES ASSUME ~(balance[m] < 0) PROVE from = {}
    BY TotalOfNone
  <2> QED
    BY <1>3, <1>4
<1>7. ~(balance[m] > 0) => Total(to) = 0
  <2> SUFFICES ASSUME ~(balance[m] > 0) PROVE to = {}
    BY TotalOfNone
  <2> QED
    BY <1>3, <1>4
<1>8. CASE balance[m] > 0
  <2>1. PICK c \in 1..N : cs[c] = m
    BY <1>1, <1>4, <1>8 DEF Lists, IsLedger
  <2>2. Total(to) = Clamp(P[c - 1], P[c], Q[M]) - P[c - 1]
    BY <2>1, Received
  <2>3. /\ P[c - 1] \in Int /\ P[c] \in Int /\ P[N] \in Int /\ P[c - 1] <= P[c] /\ P[c] <= P[N]
        /\ P[c] = P[c - 1] + Magnitude(balance[m])
    BY <1>2, <2>1, ReachesAt
  <2>4. Q[M] \in Int
    BY <1>2 DEF Reaches
  <2>5. Magnitude(balance[m]) = balance[m]
    BY <1>4, <1>8, MagnitudeFacts
  <2>6. Total(from) = 0
    BY <1>4, <1>6, <1>8
  <2>7. /\ Clamp(P[c - 1], P[c], Q[M]) <= P[c]
        /\ P[c] <= Q[M] => Clamp(P[c - 1], P[c], Q[M]) = P[c]
        /\ Clamp(P[c - 1], P[c], Q[M]) \in Int
    BY <2>3, <2>4, ClampBetween
  <2> DEFINE w == Clamp(P[c - 1], P[c], Q[M])
  <2> HIDE DEF w
  <2>8. Rest(balance, m) = P[c] - w
    BY <1>4, <1>5, <2>2, <2>3, <2>5, <2>6, <2>7 DEF w
  <2> QED
    BY <1>8, <1>4, <2>3, <2>4, <2>7, <2>8 DEF w
<1>9. CASE balance[m] < 0
  <2>1. PICK d \in 1..M : ds[d] = m
    BY <1>1, <1>4, <1>9 DEF Lists, IsLedger
  <2>2. Total(from) = Clamp(Q[d - 1], Q[d], P[N]) - Q[d - 1]
    BY <2>1, Paid
  <2>3. /\ Q[d - 1] \in Int /\ Q[d] \in Int /\ Q[M] \in Int /\ Q[d - 1] <= Q[d] /\ Q[d] <= Q[M]
        /\ Q[d] = Q[d - 1] + Magnitude(balance[m])
    BY <1>2, <2>1, ReachesAt
  <2>4. P[N] \in Int
    BY <1>2 DEF Reaches
  <2>5. Magnitude(balance[m]) = -balance[m]
    BY <1>4, <1>9, MagnitudeFacts
  <2>6. Total(to) = 0
    BY <1>4, <1>7, <1>9
  <2>7. /\ Clamp(Q[d - 1], Q[d], P[N]) <= Q[d]
        /\ Q[d] <= P[N] => Clamp(Q[d - 1], Q[d], P[N]) = Q[d]
        /\ Clamp(Q[d - 1], Q[d], P[N]) \in Int
    BY <2>3, <2>4, ClampBetween
  <2> DEFINE w == Clamp(Q[d - 1], Q[d], P[N])
  <2> HIDE DEF w
  <2>8. Rest(balance, m) = w - Q[d]
    BY <1>4, <1>5, <2>2, <2>3, <2>5, <2>6, <2>7 DEF w
  <2> QED
    BY <1>9, <1>4, <2>3, <2>4, <2>7, <2>8 DEF w
<1>10. CASE ~(balance[m] > 0) /\ ~(balance[m] < 0)
  <2>1. balance[m] = 0
    BY <1>4, <1>10
  <2>2. Rest(balance, m) = 0
    BY <1>5, <1>6, <1>7, <1>10, <2>1
  <2> QED
    BY <2>1, <2>2
<1> QED
  BY <1>8, <1>9, <1>10

-----------------------------------------------------------------------------
\* Everything paid, all balances are zero if they cancel.

\* f where it counts.
Where(f, D, A) == [x \in D |-> IF x \in A THEN f[x] ELSE 0]

LEMMA SumWhere ==
    ASSUME NEW D, IsFiniteSet(D), NEW f \in [D -> Int], NEW A \in SUBSET D
    PROVE  Where(f, D, A) \in [D -> Int] /\ SumFunction(Where(f, D, A)) = PartSum(f, A)
<1> DEFINE w == Where(f, D, A)
<1>1. w \in [D -> Int] /\ (\A x \in A : w[x] = f[x]) /\ \A x \in D \ A : w[x] = 0
  BY DEF Where
<1>2. PartSum(w, A) = PartSum(f, A)
  <2> HIDE DEF w
  <2>1. [x \in A |-> w[x]] = [x \in A |-> f[x]]
    BY <1>1
  <2> QED
    BY <2>1 DEF PartSum
<1> HIDE DEF w
<1>3. SumFunction(w) = PartSum(w, A)
  BY <1>1, SumOutside
<1> QED
  BY <1>1, <1>2, <1>3 DEF w

LEMMA SidesAddUp ==
    ASSUME NEW D, NEW balance, Balanced(D, balance),
           NEW N, NEW M, NEW cs, NEW ds, NEW P, NEW Q, IsLedger(balance, N, M, cs, ds, P, Q)
    PROVE  P[N] - Q[M] = SumFunction(balance) /\ P[N] \in Int /\ Q[M] \in Int
<1> DEFINE f == [m \in D |-> Magnitude(balance[m])]
           fc == Where(f, D, InCredit(balance))
           fd == Where(f, D, InDebt(balance))
<1>1. IsFiniteSet(D) /\ balance \in [D -> Int]
  BY DEF Balanced
<1>2. f \in [D -> Int]
  BY <1>1, MagnitudeFacts
<1>3. \A m \in D : balance[m] = fc[m] - fd[m]
  <2> SUFFICES ASSUME NEW m \in D PROVE balance[m] = fc[m] - fd[m]
    OBVIOUS
  <2>1. balance[m] \in Int
    BY <1>1
  <2>2. (m \in InCredit(balance) <=> balance[m] > 0) /\ (m \in InDebt(balance) <=> balance[m] < 0)
    BY SidesOf
  <2>3. /\ fc[m] = IF m \in InCredit(balance) THEN Magnitude(balance[m]) ELSE 0
        /\ fd[m] = IF m \in InDebt(balance) THEN Magnitude(balance[m]) ELSE 0
    BY DEF Where
  <2> QED
    BY <2>1, <2>2, <2>3, MagnitudeFacts
<1>4. P[N] = PartSum(f, InCredit(balance)) /\ Q[M] = PartSum(f, InDebt(balance))
  BY LedgerReaches
<1>5. InCredit(balance) \in SUBSET D /\ InDebt(balance) \in SUBSET D
  BY SidesOf
<1> HIDE DEF f
<1>6. /\ fc \in [D -> Int] /\ SumFunction(fc) = PartSum(f, InCredit(balance))
      /\ fd \in [D -> Int] /\ SumFunction(fd) = PartSum(f, InDebt(balance))
  BY <1>1, <1>2, <1>5, SumWhere
<1> HIDE DEF fc, fd
<1>7. SumFunction(balance) = SumFunction(fc) - SumFunction(fd)
  BY <1>1, <1>3, <1>6, SumMinus
<1>8. P[N] \in Int /\ Q[M] \in Int
  BY <1>1, <1>2, <1>4, <1>5, PartSums
<1> QED
  BY <1>4, <1>6, <1>7, <1>8

LEMMA PayingSettles ==
    ASSUME NEW D, NEW balance, Balanced(D, balance)
    PROVE  /\ (\A m \in D : Rest(balance, m) >= 0) \/ (\A m \in D : Rest(balance, m) <= 0)
           /\ SumFunction(balance) = 0 => \A m \in D : Rest(balance, m) = 0
<1> PICK N, M, cs, ds, P, Q : IsLedger(balance, N, M, cs, ds, P, Q)
  BY LedgerExists
<1>1. P[N] - Q[M] = SumFunction(balance) /\ P[N] \in Int /\ Q[M] \in Int
  BY SidesAddUp
<1>2. ASSUME NEW m \in D
      PROVE  /\ balance[m] \in Int
             /\ balance[m] >= 0 => Rest(balance, m) >= 0 /\ (P[N] <= Q[M] => Rest(balance, m) = 0)
             /\ balance[m] <= 0 => Rest(balance, m) <= 0 /\ (Q[M] <= P[N] => Rest(balance, m) = 0)
             /\ Rest(balance, m) \in Int
  <2>1. balance[m] \in Int
    BY DEF Balanced
  <2> QED
    BY <2>1, RestOf
<1>3. CASE P[N] <= Q[M]
  <2>1. \A m \in D : Rest(balance, m) <= 0
    BY <1>2, <1>3
  <2>2. SumFunction(balance) = 0 => Q[M] <= P[N]
    BY <1>1
  <2>3. SumFunction(balance) = 0 => \A m \in D : Rest(balance, m) = 0
    BY <1>2, <1>3, <2>2
  <2> QED
    BY <2>1, <2>3
<1>4. CASE Q[M] <= P[N]
  <2>1. \A m \in D : Rest(balance, m) >= 0
    BY <1>2, <1>4
  <2>2. SumFunction(balance) = 0 => P[N] <= Q[M]
    BY <1>1
  <2>3. SumFunction(balance) = 0 => \A m \in D : Rest(balance, m) = 0
    BY <1>2, <1>4, <2>2
  <2> QED
    BY <2>1, <2>3
<1> QED
  BY <1>1, <1>3, <1>4

-----------------------------------------------------------------------------
\* The balances of all members, active or not, cancel.

LEMMA LiveRows ==
    ASSUME LedgerInv
    PROVE  /\ IsFiniteSet(Live(expense)) /\ Live(expense) \in SUBSET DOMAIN expense
           /\ \A e \in Live(expense) :
                 /\ expense[e].paid \in [Members -> Int] /\ expense[e].owed \in [Members -> Int]
                 /\ SumFunction(expense[e].paid) = SumFunction(expense[e].owed)
           /\ IsFiniteSet(Live(settlement)) /\ Live(settlement) \in SUBSET DOMAIN settlement
           /\ \A s \in Live(settlement) :
                 /\ settlement[s].amount \in Int
                 /\ settlement[s].from \in Members /\ settlement[s].to \in Members
                 /\ settlement[s].from # settlement[s].to
<1>1. Live(expense) \in SUBSET DOMAIN expense /\ Live(settlement) \in SUBSET DOMAIN settlement
  BY DEF Live
<1>2. IsFiniteSet(Live(expense)) /\ IsFiniteSet(Live(settlement))
  BY <1>1, FS_Subset DEF LedgerInv, ExpensesOK, SettlementsOK
<1>3. ASSUME NEW e \in Live(expense)
      PROVE  /\ expense[e].paid \in [Members -> Int] /\ expense[e].owed \in [Members -> Int]
             /\ SumFunction(expense[e].paid) = SumFunction(expense[e].owed)
  BY <1>1 DEF LedgerInv, ExpensesOK, RowFits, Row
<1>4. ASSUME NEW s \in Live(settlement)
      PROVE  /\ settlement[s].amount \in Int
             /\ settlement[s].from \in Members /\ settlement[s].to \in Members
             /\ settlement[s].from # settlement[s].to
  BY <1>1 DEF LedgerInv, SettlementsOK, SettlementFits, SettlementRow
<1> QED
  BY <1>1, <1>2, <1>3, <1>4

\* A table of columns, summed by member, gives the sum of its rows' sums.
IsTable(F, A, B) == \A a \in A : F[a] \in [B -> Int]
SumsAcross(F, A, B) == [b \in B |-> SumFunction([a \in A |-> F[a][b]])]
SumsAlong(F, A) == [a \in A |-> SumFunction(F[a])]

LEMMA SumByMember ==
    ASSUME NEW A, IsFiniteSet(A), NEW B, IsFiniteSet(B), NEW F, IsTable(F, A, B)
    PROVE  /\ SumsAcross(F, A, B) \in [B -> Int]
           /\ SumFunction(SumsAcross(F, A, B)) = SumFunction(SumsAlong(F, A))
<1> DEFINE g == SumsAcross(F, A, B)
            G == [a \in A |-> F[a]]
           Col(b) == [a \in A |-> F[a][b]]
<1>1. G \in [A -> [B -> Int]]
  BY DEF IsTable
<1>2. \A b \in B : Col(b) \in [A -> Int]
  BY DEF IsTable
<1>3. \A b \in B : SumFunction(Col(b)) \in Int
  <2> HIDE DEF Col
  <2> QED
    BY <1>2, SumInt
<1>4. g = [b \in B |-> SumFunction(Col(b))]
  BY DEF SumsAcross
<1> HIDE DEF g
<1>5. g \in [B -> Int]
  <2> HIDE DEF Col
  <2> QED
    BY <1>3, <1>4
<1>6. \A b \in B : [a \in A |-> G[a][b]] = Col(b)
  OBVIOUS
<1>7. [b \in B |-> SumFunction([a \in A |-> G[a][b]])] = g
  <2> HIDE DEF G, Col
  <2> QED
    BY <1>4, <1>6
<1>8. [a \in A |-> SumFunction(G[a])] = SumsAlong(F, A)
  BY DEF SumsAlong
<1> HIDE DEF G
<1>9. SumFunction([a \in A |-> SumFunction(G[a])]) = SumFunction([b \in B |-> SumFunction([a \in A |-> G[a][b]])])
  BY <1>1, SumSwap
<1> QED
  BY <1>5, <1>7, <1>8, <1>9 DEF g

\* Amounts, summed by the member each belongs to.
LEMMA SumPerMember ==
    ASSUME NEW A, IsFiniteSet(A), NEW B, IsFiniteSet(B), NEW amt \in [A -> Int], NEW who \in [A -> B],
           NEW g, g = [b \in B |-> PartSum(amt, {a \in A : who[a] = b})]
    PROVE  g \in [B -> Int] /\ SumFunction(g) = SumFunction(amt)
<1> DEFINE Row0(a) == [b \in B |-> IF b \in {who[a]} THEN amt[a] ELSE 0]
           F == [a \in A |-> Row0(a)]
           Own(b) == {a \in A : who[a] = b}
           h == SumsAcross(F, A, B)
<1>1. \A a \in A : F[a] = Row0(a) /\ Row0(a) \in [B -> Int]
  OBVIOUS
<1>2. ASSUME NEW a \in A PROVE SumFunction(F[a]) = amt[a]
  <2> DEFINE W == {who[a]}
             v == amt[a]
             k == F[a]
  <2>1. W \in SUBSET B /\ v \in Int
    OBVIOUS
  <2>2. k = [b \in B |-> IF b \in W THEN v ELSE 0]
    BY <1>1
  <2>3. Cardinality(W) = 1
    BY FS_Singleton
  <2> HIDE DEF W, v, k
  <2>4. SumFunction(k) = v * Cardinality(W)
    BY <2>1, <2>2, SumConstant
  <2>5. SumFunction(k) = v
    BY <2>1, <2>3, <2>4
  <2> QED
    BY <2>5 DEF v, k
<1>3. ASSUME NEW b \in B PROVE [a \in A |-> F[a][b]] = Where(amt, A, Own(b))
  <2>1. \A a \in A : F[a][b] = IF a \in Own(b) THEN amt[a] ELSE 0
    BY <1>1
  <2> HIDE DEF F, Own
  <2> QED
    BY <2>1 DEF Where
<1>4. ASSUME NEW b \in B PROVE SumFunction([a \in A |-> F[a][b]]) = PartSum(amt, Own(b))
  <2>1. Own(b) \in SUBSET A
    OBVIOUS
  <2> HIDE DEF Own, F
  <2>2. SumFunction(Where(amt, A, Own(b))) = PartSum(amt, Own(b))
    BY <2>1, SumWhere
  <2> QED
    BY <1>3, <2>2
<1>5. g = [b \in B |-> PartSum(amt, Own(b))]
  OBVIOUS
<1>6. g = h
  <2> HIDE DEF F, Own
  <2> QED
    BY <1>4, <1>5 DEF SumsAcross
<1>7. IsTable(F, A, B)
  BY <1>1 DEF IsTable
<1>8. amt = SumsAlong(F, A)
  <2> HIDE DEF F
  <2> QED
    BY <1>2 DEF SumsAlong
<1> HIDE DEF F
<1>10. h \in [B -> Int] /\ SumFunction(h) = SumFunction(SumsAlong(F, A))
  BY <1>7, SumByMember
<1> QED
  BY <1>6, <1>8, <1>10

\* What the expenses make each member have paid, or owe; and the settlements.
ByExpenses(column) == [m \in Members |-> SumFunction([e \in Live(expense) |-> column[e][m]])]
BySettlements(side) ==
    [m \in Members |-> SumFunction([s \in {s \in Live(settlement) : side[s] = m} |-> settlement[s].amount])]

PaidColumn == [e \in Live(expense) |-> expense[e].paid]
OwedColumn == [e \in Live(expense) |-> expense[e].owed]
FromSide == [s \in Live(settlement) |-> settlement[s].from]
ToSide == [s \in Live(settlement) |-> settlement[s].to]

LEMMA ExpensesCancel ==
    ASSUME LedgerInv
    PROVE  /\ ByExpenses(PaidColumn) \in [Members -> Int] /\ ByExpenses(OwedColumn) \in [Members -> Int]
           /\ SumFunction(ByExpenses(PaidColumn)) = SumFunction(ByExpenses(OwedColumn))
<1> DEFINE A == Live(expense)
<1>1. /\ IsFiniteSet(A) /\ \A e \in A : PaidColumn[e] \in [Members -> Int] /\ OwedColumn[e] \in [Members -> Int]
      /\ \A e \in A : SumFunction(PaidColumn[e]) = SumFunction(OwedColumn[e])
  BY LiveRows DEF PaidColumn, OwedColumn
<1>2. ASSUME NEW F, IsTable(F, A, Members)
      PROVE  ByExpenses(F) \in [Members -> Int] /\ SumFunction(ByExpenses(F)) = SumFunction(SumsAlong(F, A))
  <2>1. ByExpenses(F) = SumsAcross(F, A, Members)
    BY DEF ByExpenses, SumsAcross
  <2> QED
    BY <1>1, <1>2, <2>1, MembersFinite, SumByMember
<1>3. IsTable(PaidColumn, A, Members) /\ IsTable(OwedColumn, A, Members)
  BY <1>1 DEF IsTable
<1>4. SumsAlong(PaidColumn, A) = SumsAlong(OwedColumn, A)
  BY <1>1 DEF SumsAlong
<1> HIDE DEF A
<1>5. /\ ByExpenses(PaidColumn) \in [Members -> Int]
      /\ SumFunction(ByExpenses(PaidColumn)) = SumFunction(SumsAlong(PaidColumn, A))
  BY <1>2, <1>3
<1>6. /\ ByExpenses(OwedColumn) \in [Members -> Int]
      /\ SumFunction(ByExpenses(OwedColumn)) = SumFunction(SumsAlong(OwedColumn, A))
  BY <1>2, <1>3
<1> QED
  BY <1>4, <1>5, <1>6

LEMMA SettlementsCancel ==
    ASSUME LedgerInv
    PROVE  /\ BySettlements(FromSide) \in [Members -> Int] /\ BySettlements(ToSide) \in [Members -> Int]
           /\ SumFunction(BySettlements(FromSide)) = SumFunction(BySettlements(ToSide))
<1> DEFINE A == Live(settlement)
           amt == [s \in A |-> settlement[s].amount]
<1>1. /\ IsFiniteSet(A) /\ amt \in [A -> Int] /\ FromSide \in [A -> Members] /\ ToSide \in [A -> Members]
  BY LiveRows DEF FromSide, ToSide
<1>2. ASSUME NEW side \in [A -> Members]
      PROVE  BySettlements(side) \in [Members -> Int] /\ SumFunction(BySettlements(side)) = SumFunction(amt)
  <2> DEFINE g == BySettlements(side)
             Own(m) == {s \in A : side[s] = m}
  <2>1. ASSUME NEW m \in Members
        PROVE  SumFunction([s \in Own(m) |-> settlement[s].amount]) = PartSum(amt, Own(m))
    <3>1. [s \in Own(m) |-> settlement[s].amount] = [s \in Own(m) |-> amt[s]]
      OBVIOUS
    <3> QED
      BY <3>1 DEF PartSum
  <2>2. g = [m \in Members |-> SumFunction([s \in Own(m) |-> settlement[s].amount])]
    BY DEF BySettlements
  <2>3. g = [m \in Members |-> PartSum(amt, Own(m))]
    <3> HIDE DEF Own, amt, g
    <3> QED
      BY <2>1, <2>2
  <2>4. g = [m \in Members |-> PartSum(amt, {s \in A : side[s] = m})]
    BY <2>3
  <2> HIDE DEF g, A, amt
  <2>5. g \in [Members -> Int] /\ SumFunction(g) = SumFunction(amt)
    BY <1>1, <2>4, MembersFinite, SumPerMember
  <2> QED
    BY <2>5 DEF g
<1> HIDE DEF A, amt
<1> QED
  BY <1>1, <1>2

LEMMA NetIs ==
    ASSUME LedgerInv, NEW m \in Members
    PROVE  NetBalance(m) = (ByExpenses(PaidColumn)[m] + BySettlements(FromSide)[m])
                           - (ByExpenses(OwedColumn)[m] + BySettlements(ToSide)[m])
<1>1. SumFunction([e \in Live(expense) |-> PaidColumn[e][m]]) = SumFunction([e \in Live(expense) |-> expense[e].paid[m]])
  <2>1. [e \in Live(expense) |-> PaidColumn[e][m]] = [e \in Live(expense) |-> expense[e].paid[m]]
    BY DEF PaidColumn
  <2> QED
    BY <2>1
<1>2. SumFunction([e \in Live(expense) |-> OwedColumn[e][m]]) = SumFunction([e \in Live(expense) |-> expense[e].owed[m]])
  <2>1. [e \in Live(expense) |-> OwedColumn[e][m]] = [e \in Live(expense) |-> expense[e].owed[m]]
    BY DEF OwedColumn
  <2> QED
    BY <2>1
<1>3. {s \in Live(settlement) : FromSide[s] = m} = {s \in Live(settlement) : settlement[s].from = m}
  BY DEF FromSide
<1>4. {s \in Live(settlement) : ToSide[s] = m} = {s \in Live(settlement) : settlement[s].to = m}
  BY DEF ToSide
<1>5. ByExpenses(PaidColumn)[m] + BySettlements(FromSide)[m] = PaidTotal(m)
  BY <1>1, <1>3 DEF ByExpenses, BySettlements, PaidTotal
<1>6. ByExpenses(OwedColumn)[m] + BySettlements(ToSide)[m] = OwedTotal(m)
  BY <1>2, <1>4 DEF ByExpenses, BySettlements, OwedTotal
<1> QED
  BY <1>5, <1>6 DEF NetBalance

LEMMA NetCancels ==
    ASSUME LedgerInv
    PROVE  /\ \A m \in Members : NetBalance(m) \in Int
           /\ SumFunction([m \in Members |-> NetBalance(m)]) = 0
<1> DEFINE p == ByExpenses(PaidColumn)
           o == ByExpenses(OwedColumn)
           f == BySettlements(FromSide)
           t == BySettlements(ToSide)
           pf == [m \in Members |-> p[m] + f[m]]
           ot == [m \in Members |-> o[m] + t[m]]
           net0 == [m \in Members |-> NetBalance(m)]
<1>1. /\ p \in [Members -> Int] /\ o \in [Members -> Int] /\ SumFunction(p) = SumFunction(o)
  BY ExpensesCancel
<1>2. /\ f \in [Members -> Int] /\ t \in [Members -> Int] /\ SumFunction(f) = SumFunction(t)
  BY SettlementsCancel
<1>3. \A m \in Members : NetBalance(m) = (p[m] + f[m]) - (o[m] + t[m])
  BY NetIs
<1> HIDE DEF p, o, f, t
<1>4. pf \in [Members -> Int] /\ ot \in [Members -> Int]
  BY <1>1, <1>2
<1>5. \A m \in Members : NetBalance(m) \in Int
  BY <1>1, <1>2, <1>3
<1>6. net0 \in [Members -> Int] /\ \A m \in Members : net0[m] = pf[m] - ot[m]
  BY <1>3, <1>5
<1>7. (\A m \in Members : pf[m] = p[m] + f[m]) /\ \A m \in Members : ot[m] = o[m] + t[m]
  OBVIOUS
<1> HIDE DEF pf, ot, net0
<1>8. SumFunction(pf) = SumFunction(p) + SumFunction(f)
  BY <1>1, <1>2, <1>4, <1>7, MembersFinite, SumPlus
<1>9. SumFunction(ot) = SumFunction(o) + SumFunction(t)
  BY <1>1, <1>2, <1>4, <1>7, MembersFinite, SumPlus
<1>10. SumFunction(net0) = SumFunction(pf) - SumFunction(ot)
  BY <1>4, <1>6, MembersFinite, SumMinus
<1>11. SumFunction(pf) \in Int /\ SumFunction(ot) \in Int
  BY <1>4, MembersFinite, SumInt
<1>12. SumFunction(net0) = 0
  BY <1>1, <1>2, <1>8, <1>9, <1>10, <1>11
<1> QED
  BY <1>5, <1>12 DEF net0

LEMMA ActiveMembers == LedgerInv => active \in SUBSET Members /\ IsFiniteSet(active)
<1> SUFFICES ASSUME LedgerInv PROVE active \in SUBSET Members /\ IsFiniteSet(active)
  OBVIOUS
<1>1. active \in SUBSET Members
  BY DEF LedgerInv, GroupOK
<1> QED
  BY <1>1, MembersFinite, FS_Subset

LEMMA BalancesBalanced ==
    ASSUME LedgerInv
    PROVE  Balanced(active, Balances)
<1>1. active \in SUBSET Members /\ IsFiniteSet(active)
  BY ActiveMembers
<1>2. Balances \in [active -> Int]
  BY <1>1, NetCancels DEF Balances
<1>3. active \subseteq Nat
  BY <1>1, MembersNat
<1> QED
  BY <1>1, <1>2, <1>3 DEF Balanced

LEMMA BalancesCancel ==
    ASSUME LedgerInv, \A m \in Members \ active : NetBalance(m) = 0
    PROVE  SumFunction(Balances) = 0
<1> DEFINE f == [m \in Members |-> NetBalance(m)]
<1>1. active \in SUBSET Members
  BY ActiveMembers
<1>2. f \in [Members -> Int] /\ SumFunction(f) = 0
  BY NetCancels
<1>3. \A m \in Members \ active : f[m] = 0
  OBVIOUS
<1>4. [m \in active |-> f[m]] = Balances
  BY <1>1 DEF Balances
<1> HIDE DEF f
<1>5. SumFunction(f) = PartSum(f, active)
  BY <1>1, <1>2, <1>3, MembersFinite, SumOutside
<1> QED
  BY <1>2, <1>4, <1>5 DEF PartSum

\* Whatever was entered, changed and deleted, and whoever was removed: paying all the
\* transfers suggested settles the group, or leaves only claims, or only debts, where a
\* removed member took an open balance along.
THEOREM SettlingUpAlwaysSettles == Spec => []SettlingUpSettles
<1>1. ASSUME LedgerInv PROVE SettlingUpSettles
  <2> DEFINE rest == [m \in active |-> Balances[m]
                        + Total({t \in Suggested : t.from = m})
                        - Total({t \in Suggested : t.to = m})]
  <2>1. /\ (\A m \in active : Rest(Balances, m) >= 0) \/ (\A m \in active : Rest(Balances, m) <= 0)
        /\ SumFunction(Balances) = 0 => \A m \in active : Rest(Balances, m) = 0
    BY <1>1, BalancesBalanced, PayingSettles
  <2>2. \A m \in active : rest[m] = Rest(Balances, m)
    BY DEF Rest, Suggested
  <2>3. (\A m \in Members \ active : NetBalance(m) = 0) => SumFunction(Balances) = 0
    BY <1>1, BalancesCancel
  <2>4. /\ (\A m \in active : rest[m] >= 0) \/ (\A m \in active : rest[m] <= 0)
        /\ (\A m \in Members \ active : NetBalance(m) = 0) => \A m \in active : rest[m] = 0
    <3> HIDE DEF rest
    <3> QED
      BY <2>1, <2>2, <2>3
  <2> QED
    BY <2>4 DEF SettlingUpSettles
<1>2. LedgerInv => SettlingUpSettles
  BY <1>1
<1> QED
  BY <1>2, LedgerInvHolds, PTL

-----------------------------------------------------------------------------
\* One suggestion paid.

LEMMA OverlapBounded ==
    \A a, b, x, y \in Int : a <= b /\ x <= y =>
        /\ Greatest(0, Least(b, y) - Greatest(a, x)) <= b - a
        /\ Greatest(0, Least(b, y) - Greatest(a, x)) <= y - x
BY DEF Greatest, Least

\* A transfer suggested goes from somebody in debt to somebody in credit and is no larger
\* than either's balance.
LEMMA TransferBounded ==
    ASSUME NEW D, NEW balance, Balanced(D, balance), NEW t \in SimplifiedDebts(balance)
    PROVE  /\ t.from \in D /\ t.to \in D /\ t.amount \in Int
           /\ 0 < t.amount /\ t.amount <= balance[t.to] /\ t.amount <= -balance[t.from]
<1> PICK N, M, cs, ds, P, Q : IsLedger(balance, N, M, cs, ds, P, Q)
  BY LedgerExists
<1>1. /\ N \in Nat /\ Lists(cs, InCredit(balance))
      /\ M \in Nat /\ Lists(ds, InDebt(balance))
  BY LedgerLists
<1>2. Reaches(P, N, cs, balance) /\ Reaches(Q, M, ds, balance)
  BY LedgerReaches
<1>3. P = Ends(balance, cs, N) /\ Q = Ends(balance, ds, M)
  BY DEF IsLedger
<1>4. PICK c \in 1..N, d \in 1..M : t = Transfer(balance, cs, ds, c, d) /\ t.amount > 0
  BY <1>1, Suggestions
<1>5. t.from = ds[d] /\ t.to = cs[c] /\ t.amount = Overlaps(P[c - 1], P[c], Q, M)[d]
  BY <1>1, <1>2, <1>3, <1>4, TransferBetween
<1>6. t.from \in InDebt(balance) /\ t.to \in InCredit(balance)
  BY <1>1, <1>5 DEF Lists, IsLedger
<1>7. /\ t.from \in D /\ balance[t.from] < 0 /\ balance[t.from] \in Int
      /\ t.to \in D /\ balance[t.to] > 0 /\ balance[t.to] \in Int
  BY <1>6, SidesOf DEF Balanced
<1>8. /\ P[c - 1] \in Int /\ P[c] \in Int /\ P[c - 1] <= P[c] /\ P[c] = P[c - 1] + Magnitude(balance[t.to])
  BY <1>2, <1>5, ReachesAt
<1>9. /\ Q[d - 1] \in Int /\ Q[d] \in Int /\ Q[d - 1] <= Q[d] /\ Q[d] = Q[d - 1] + Magnitude(balance[t.from])
  BY <1>2, <1>5, ReachesAt
<1>10. t.amount = Greatest(0, Least(P[c], Q[d]) - Greatest(P[c - 1], Q[d - 1]))
  BY <1>5 DEF Overlaps
<1>11. t.amount <= P[c] - P[c - 1] /\ t.amount <= Q[d] - Q[d - 1]
  BY <1>8, <1>9, <1>10, OverlapBounded
<1>12. Magnitude(balance[t.to]) = balance[t.to] /\ Magnitude(balance[t.from]) = -balance[t.from]
  BY <1>7, MagnitudeFacts
<1>13. t.amount \in Int
  BY <1>8, <1>9, <1>10 DEF Greatest, Least
<1>14. t.amount <= balance[t.to] /\ t.amount <= -balance[t.from]
  <2> PICK w : w = t.amount
    OBVIOUS
  <2> QED
    BY <1>7, <1>8, <1>9, <1>11, <1>12, <1>13
<1> QED
  BY <1>4, <1>7, <1>13, <1>14

\* The credits of active members, zero for the others.
Gains == [m \in active |-> IF NetBalance(m) > 0 THEN NetBalance(m) ELSE 0]

LEMMA OutstandingIs ==
    LedgerInv => Gains \in [active -> Int] /\ Outstanding = SumFunction(Gains)
<1> SUFFICES ASSUME LedgerInv PROVE Gains \in [active -> Int] /\ Outstanding = SumFunction(Gains)
  OBVIOUS
<1> DEFINE A == {k \in active : NetBalance(k) > 0}
<1>1. active \in SUBSET Members /\ IsFiniteSet(active)
  BY ActiveMembers
<1>2. \A m \in active : NetBalance(m) \in Int
  BY <1>1, NetCancels
<1>3. Gains \in [active -> Int]
  BY <1>2 DEF Gains
<1>4. A \in SUBSET active /\ \A m \in active \ A : Gains[m] = 0
  BY DEF Gains
<1>5. [m \in A |-> Gains[m]] = [m \in A |-> NetBalance(m)]
  BY DEF Gains
<1>6. Outstanding = SumFunction([m \in A |-> NetBalance(m)])
  BY DEF Outstanding
<1> HIDE DEF A
<1>7. SumFunction(Gains) = PartSum(Gains, A)
  BY <1>1, <1>3, <1>4, SumOutside
<1> QED
  BY <1>3, <1>5, <1>6, <1>7 DEF PartSum

LEMMA OutstandingIsNext == LedgerInv' => (Outstanding = SumFunction(Gains))'
BY OutstandingIs, PTL

LEMMA SumAdd ==
    ASSUME NEW A, IsFiniteSet(A), NEW s, s \notin A, NEW f, NEW g,
           g \in [A -> Int], f \in [A \cup {s} -> Int], \A x \in A : f[x] = g[x]
    PROVE  SumFunction(f) = f[s] + SumFunction(g)
<1> DEFINE D == A \cup {s}
<1>1. IsFiniteSet(D) /\ f \in [D -> Int] /\ s \in D
  BY FS_AddElement
<1>2. D \ {s} = A
  OBVIOUS
<1>3. [x \in A |-> f[x]] = g
  OBVIOUS
<1> HIDE DEF D
<1>4. SumFunction(f) = f[s] + PartSum(f, D \ {s})
  BY <1>1, SumRemove
<1> QED
  BY <1>2, <1>3, <1>4 DEF PartSum

\* A settlement recorded.
LEMMA NewRow ==
    ASSUME LedgerInv, NEW s \in Settlements, NEW from \in Members, NEW to \in Members,
           NEW amount \in 1..MaxAmount, CreateSettlement(s, from, to, amount)
    PROVE  /\ expense' = expense /\ active' = active /\ s \notin DOMAIN settlement
           /\ DOMAIN settlement' = DOMAIN settlement \cup {s}
           /\ settlement'[s] = [from |-> from, to |-> to, amount |-> amount, deleted |-> FALSE]
           /\ \A i \in DOMAIN settlement : settlement'[i] = settlement[i]
           /\ Live(settlement)' = Live(settlement) \cup {s} /\ s \notin Live(settlement)
           /\ from # to /\ from \in active /\ to \in active /\ amount \in Int
<1>1. /\ expense' = expense /\ active' = active /\ s \notin DOMAIN settlement
      /\ settlement' = Put(settlement, s, [from |-> from, to |-> to, amount |-> amount, deleted |-> FALSE])
  BY DEF CreateSettlement
<1>2. /\ DOMAIN settlement' = DOMAIN settlement \cup {s}
      /\ settlement'[s] = [from |-> from, to |-> to, amount |-> amount, deleted |-> FALSE]
      /\ \A i \in DOMAIN settlement : settlement'[i] = settlement[i]
  BY <1>1 DEF Put
<1>3. Live(settlement)' = Live(settlement) \cup {s} /\ s \notin Live(settlement)
  <2> DEFINE new == settlement'
  <2>1. Live(settlement)' = {i \in DOMAIN new : ~new[i].deleted}
    BY DEF Live
  <2>2. DOMAIN new = DOMAIN settlement \cup {s} /\ ~new[s].deleted /\ \A i \in DOMAIN settlement : new[i] = settlement[i]
    BY <1>2
  <2> HIDE DEF new
  <2>3. {i \in DOMAIN new : ~new[i].deleted} = {i \in DOMAIN settlement : ~settlement[i].deleted} \cup {s}
    BY <2>2
  <2>4. s \notin Live(settlement)
    BY <1>1 DEF Live
  <2> QED
    BY <2>1, <2>3, <2>4 DEF Live
<1>4. from # to /\ from \in active /\ to \in active
  BY DEF CreateSettlement, ValidSettlement
<1>5. amount \in Int
  BY Bounds
<1> QED
  BY <1>1, <1>2, <1>3, <1>4, <1>5

LEMMA TotalsInt ==
    ASSUME LedgerInv, NEW m \in Members
    PROVE  PaidTotal(m) \in Int /\ OwedTotal(m) \in Int
<1> DEFINE hp == [e \in Live(expense) |-> expense[e].paid[m]]
           ho == [e \in Live(expense) |-> expense[e].owed[m]]
           Sum(A) == SumFunction([i \in A |-> settlement[i].amount])
<1>1. /\ IsFiniteSet(Live(expense)) /\ hp \in [Live(expense) -> Int] /\ ho \in [Live(expense) -> Int]
  BY LiveRows
<1>2. ASSUME NEW A \in SUBSET Live(settlement) PROVE Sum(A) \in Int
  <2> DEFINE g == [i \in A |-> settlement[i].amount]
  <2>1. IsFiniteSet(A) /\ g \in [A -> Int]
    BY LiveRows, FS_Subset
  <2> HIDE DEF g
  <2>2. SumFunction(g) \in Int
    BY <2>1, SumInt
  <2> QED
    BY <2>2 DEF g
<1>3. /\ PaidTotal(m) = SumFunction(hp) + Sum({i \in Live(settlement) : settlement[i].from = m})
      /\ OwedTotal(m) = SumFunction(ho) + Sum({i \in Live(settlement) : settlement[i].to = m})
  BY DEF PaidTotal, OwedTotal
<1> DEFINE A1 == {i \in Live(settlement) : settlement[i].from = m}
           A2 == {i \in Live(settlement) : settlement[i].to = m}
<1>4. A1 \in SUBSET Live(settlement) /\ A2 \in SUBSET Live(settlement)
  OBVIOUS
<1> HIDE DEF hp, ho, Sum, A1, A2
<1>5. SumFunction(hp) \in Int /\ SumFunction(ho) \in Int
  BY <1>1, SumInt
<1>6. Sum(A1) \in Int /\ Sum(A2) \in Int
  BY <1>2, <1>4
<1> QED
  BY <1>3, <1>5, <1>6 DEF A1, A2

LEMMA PaidAfter ==
    ASSUME LedgerInv, NEW s \in Settlements, NEW from \in Members, NEW to \in Members,
           NEW amount \in 1..MaxAmount, CreateSettlement(s, from, to, amount), NEW m \in Members
    PROVE  PaidTotal(m)' = PaidTotal(m) + IF m = from THEN amount ELSE 0
<1> DEFINE A == {i \in Live(settlement) : settlement[i].from = m}
           B == {i \in Live(settlement)' : settlement'[i].from = m}
           g == [i \in A |-> settlement[i].amount]
           f == [i \in B |-> settlement'[i].amount]
           x == SumFunction([e \in Live(expense) |-> expense[e].paid[m]])
<1>1. /\ expense' = expense
      /\ settlement'[s] = [from |-> from, to |-> to, amount |-> amount, deleted |-> FALSE]
      /\ Live(settlement)' = Live(settlement) \cup {s} /\ s \notin Live(settlement) /\ amount \in Int
  BY NewRow
<1>2. \A i \in Live(settlement) : settlement'[i] = settlement[i] /\ settlement[i].amount \in Int
  BY NewRow, LiveRows
<1>3. IsFiniteSet(A) /\ g \in [A -> Int] /\ s \notin A
  <2>1. A \in SUBSET Live(settlement) /\ IsFiniteSet(Live(settlement))
    BY LiveRows
  <2>2. IsFiniteSet(A)
    <3> HIDE DEF A
    <3> QED
      BY <2>1, FS_Subset
  <2> QED
    BY <1>1, <1>2, <2>2
<1>4. PaidTotal(m) = x + SumFunction(g) /\ x \in Int
  <2>1. PaidTotal(m) = x + SumFunction(g)
    BY DEF PaidTotal
  <2> DEFINE h == [e \in Live(expense) |-> expense[e].paid[m]]
  <2>2. IsFiniteSet(Live(expense)) /\ h \in [Live(expense) -> Int]
    BY LiveRows
  <2> HIDE DEF h
  <2>3. SumFunction(h) \in Int
    BY <2>2, SumInt
  <2> QED
    BY <2>1, <2>3 DEF h
<1>5. PaidTotal(m)' = x + SumFunction(f)
  <2>1. Live(expense)' = Live(expense)
    BY <1>1 DEF Live
  <2> QED
    BY <1>1, <2>1 DEF PaidTotal
<1>6. settlement'[s].from = from /\ settlement'[s].amount = amount
  BY <1>1
<1>7. SumFunction(g) \in Int
  <2> HIDE DEF A, g
  <2> QED
    BY <1>3, SumInt
<1>8. CASE m = from
  <2>1. B = A \cup {s}
    BY <1>1, <1>2, <1>6, <1>8
  <2>2. f \in [A \cup {s} -> Int] /\ f[s] = amount /\ \A i \in A : f[i] = g[i]
    BY <1>1, <1>2, <1>6, <2>1
  <2> HIDE DEF A, B, f, g, x
  <2>3. SumFunction(f) = f[s] + SumFunction(g)
    BY <1>3, <2>2, SumAdd
  <2>4. SumFunction(f) = amount + SumFunction(g)
    BY <2>2, <2>3
  <2> QED
    BY <1>1, <1>4, <1>5, <1>7, <1>8, <2>4
<1>9. CASE m # from
  <2>1. B = A
    BY <1>1, <1>2, <1>6, <1>9
  <2>2. f = g
    BY <1>2, <2>1
  <2> HIDE DEF A, B, f, g, x
  <2> QED
    BY <1>4, <1>5, <1>7, <1>9, <2>2
<1> QED
  BY <1>8, <1>9

LEMMA OwedAfter ==
    ASSUME LedgerInv, NEW s \in Settlements, NEW from \in Members, NEW to \in Members,
           NEW amount \in 1..MaxAmount, CreateSettlement(s, from, to, amount), NEW m \in Members
    PROVE  OwedTotal(m)' = OwedTotal(m) + IF m = to THEN amount ELSE 0
<1> DEFINE A == {i \in Live(settlement) : settlement[i].to = m}
           B == {i \in Live(settlement)' : settlement'[i].to = m}
           g == [i \in A |-> settlement[i].amount]
           f == [i \in B |-> settlement'[i].amount]
           x == SumFunction([e \in Live(expense) |-> expense[e].owed[m]])
<1>1. /\ expense' = expense
      /\ settlement'[s] = [from |-> from, to |-> to, amount |-> amount, deleted |-> FALSE]
      /\ Live(settlement)' = Live(settlement) \cup {s} /\ s \notin Live(settlement) /\ amount \in Int
  BY NewRow
<1>2. \A i \in Live(settlement) : settlement'[i] = settlement[i] /\ settlement[i].amount \in Int
  BY NewRow, LiveRows
<1>3. IsFiniteSet(A) /\ g \in [A -> Int] /\ s \notin A
  <2>1. A \in SUBSET Live(settlement) /\ IsFiniteSet(Live(settlement))
    BY LiveRows
  <2>2. IsFiniteSet(A)
    <3> HIDE DEF A
    <3> QED
      BY <2>1, FS_Subset
  <2> QED
    BY <1>1, <1>2, <2>2
<1>4. OwedTotal(m) = x + SumFunction(g) /\ x \in Int
  <2>1. OwedTotal(m) = x + SumFunction(g)
    BY DEF OwedTotal
  <2> DEFINE h == [e \in Live(expense) |-> expense[e].owed[m]]
  <2>2. IsFiniteSet(Live(expense)) /\ h \in [Live(expense) -> Int]
    BY LiveRows
  <2> HIDE DEF h
  <2>3. SumFunction(h) \in Int
    BY <2>2, SumInt
  <2> QED
    BY <2>1, <2>3 DEF h
<1>5. OwedTotal(m)' = x + SumFunction(f)
  <2>1. Live(expense)' = Live(expense)
    BY <1>1 DEF Live
  <2> QED
    BY <1>1, <2>1 DEF OwedTotal
<1>6. settlement'[s].to = to /\ settlement'[s].amount = amount
  BY <1>1
<1>7. SumFunction(g) \in Int
  <2> HIDE DEF A, g
  <2> QED
    BY <1>3, SumInt
<1>8. CASE m = to
  <2>1. B = A \cup {s}
    BY <1>1, <1>2, <1>6, <1>8
  <2>2. f \in [A \cup {s} -> Int] /\ f[s] = amount /\ \A i \in A : f[i] = g[i]
    BY <1>1, <1>2, <1>6, <2>1
  <2> HIDE DEF A, B, f, g, x
  <2>3. SumFunction(f) = f[s] + SumFunction(g)
    BY <1>3, <2>2, SumAdd
  <2>4. SumFunction(f) = amount + SumFunction(g)
    BY <2>2, <2>3
  <2> QED
    BY <1>1, <1>4, <1>5, <1>7, <1>8, <2>4
<1>9. CASE m # to
  <2>1. B = A
    BY <1>1, <1>2, <1>6, <1>9
  <2>2. f = g
    BY <1>2, <2>1
  <2> HIDE DEF A, B, f, g, x
  <2> QED
    BY <1>4, <1>5, <1>7, <1>9, <2>2
<1> QED
  BY <1>8, <1>9

LEMMA NetAfter ==
    ASSUME LedgerInv, NEW s \in Settlements, NEW from \in Members, NEW to \in Members,
           NEW amount \in 1..MaxAmount, CreateSettlement(s, from, to, amount), NEW m \in Members
    PROVE  /\ NetBalance(m) \in Int
           /\ m = from => NetBalance(m)' = NetBalance(m) + amount
           /\ m = to => NetBalance(m)' = NetBalance(m) - amount
           /\ m \notin {from, to} => NetBalance(m)' = NetBalance(m)
<1>1. from # to /\ amount \in Int
  BY NewRow
<1>2. /\ PaidTotal(m)' = PaidTotal(m) + IF m = from THEN amount ELSE 0
      /\ OwedTotal(m)' = OwedTotal(m) + IF m = to THEN amount ELSE 0
  BY PaidAfter, OwedAfter
<1>3. NetBalance(m)' = PaidTotal(m)' - OwedTotal(m)' /\ NetBalance(m) = PaidTotal(m) - OwedTotal(m)
  BY DEF NetBalance
<1>4. PaidTotal(m) \in Int /\ OwedTotal(m) \in Int
  BY TotalsInt
<1> QED
  BY <1>1, <1>2, <1>3, <1>4

LEMMA SettlementEntered ==
    ASSUME LedgerInv, Next, NEW s \in Settlements, s \notin DOMAIN settlement, s \in DOMAIN settlement'
    PROVE  \E from, to \in Members, amount \in 1..MaxAmount : CreateSettlement(s, from, to, amount)
<1>1. ~SoftDeleteGroup
  BY AllDeletedFacts DEF SoftDeleteGroup
<1>2. settlement' # settlement
  OBVIOUS
<1>3. ~TombstoneGroup /\ \A m \in Members : ~RemoveMember(m)
  BY <1>2 DEF TombstoneGroup, RemoveMember
<1>4. \A e \in Expenses : ~SoftDeleteExpense(e)
  BY <1>2 DEF SoftDeleteExpense
<1>5. \A e \in Expenses, total \in 1..MaxAmount, split \in SplitTypes, paid \in Payers :
         /\ ~CreateExpense(e, total, split, paid)
         /\ \A del \in BOOLEAN : ~UpdateExpense(e, total, split, paid, del)
  <2> SUFFICES ASSUME NEW e \in Expenses, NEW total \in 1..MaxAmount, NEW split \in SplitTypes,
                      NEW paid \in Payers
               PROVE  /\ ~CreateExpense(e, total, split, paid)
                      /\ \A del \in BOOLEAN : ~UpdateExpense(e, total, split, paid, del)
    OBVIOUS
  <2>1. CreateExpense(e, total, split, paid) => UNCHANGED settlement
    BY DEF CreateExpense
  <2>2. ASSUME NEW del \in BOOLEAN PROVE UpdateExpense(e, total, split, paid, del) => UNCHANGED settlement
    BY DEF UpdateExpense, Rewrite
  <2> QED
    BY <1>2, <2>1, <2>2
<1>6. PICK i \in Settlements :
        \/ SoftDeleteSettlement(i)
        \/ \E from, to \in Members, amount \in 1..MaxAmount :
              \/ CreateSettlement(i, from, to, amount)
              \/ \E del \in BOOLEAN : UpdateSettlement(i, from, to, amount, del)
  BY <1>1, <1>3, <1>4, <1>5 DEF Next
<1>7. ~SoftDeleteSettlement(i)
  BY DEF SoftDeleteSettlement
<1>8. PICK from \in Members, to \in Members, amount \in 1..MaxAmount :
        \/ CreateSettlement(i, from, to, amount)
        \/ \E del \in BOOLEAN : UpdateSettlement(i, from, to, amount, del)
  BY <1>6, <1>7
<1>9. \A del \in BOOLEAN : ~UpdateSettlement(i, from, to, amount, del)
  BY DEF UpdateSettlement
<1>10. CreateSettlement(i, from, to, amount)
  BY <1>8, <1>9
<1>11. s = i
  BY <1>10 DEF CreateSettlement, Put
<1> QED
  BY <1>10, <1>11

LEMMA SuggestionHelps ==
    ASSUME LedgerInv, LedgerInv', NEW s \in Settlements, NEW from \in Members, NEW to \in Members,
           NEW amount \in 1..MaxAmount, CreateSettlement(s, from, to, amount),
           NEW t \in Suggested, t.from = from, t.to = to, t.amount = amount
    PROVE  /\ Outstanding' = Outstanding - amount
           /\ \A m \in active : Magnitude(NetBalance(m)') <= Magnitude(NetBalance(m))
<1>1. active' = active /\ from # to /\ from \in active /\ to \in active /\ amount \in Int
  BY NewRow
<1>2. active \in SUBSET Members /\ IsFiniteSet(active)
  BY ActiveMembers
<1>3. ASSUME NEW m \in active
      PROVE  /\ NetBalance(m) \in Int
             /\ m = from => NetBalance(m)' = NetBalance(m) + amount
             /\ m = to => NetBalance(m)' = NetBalance(m) - amount
             /\ m \notin {from, to} => NetBalance(m)' = NetBalance(m)
  BY <1>2, NetAfter
<1>4. /\ 0 < amount /\ amount <= NetBalance(to) /\ amount <= -NetBalance(from)
  <2>1. /\ 0 < t.amount /\ t.amount <= Balances[t.to] /\ t.amount <= -Balances[t.from]
    BY BalancesBalanced, TransferBounded DEF Suggested
  <2>2. Balances[to] = NetBalance(to) /\ Balances[from] = NetBalance(from)
    BY <1>1 DEF Balances
  <2> QED
    BY <2>1, <2>2
<1>5. ASSUME NEW m \in active
      PROVE  Magnitude(NetBalance(m)') <= Magnitude(NetBalance(m))
  <2> PICK x \in Int : x = NetBalance(m)
    BY <1>3
  <2>1. CASE m = from
    <3>1. NetBalance(m)' = x + amount /\ x + amount \in Int /\ amount <= -x
      BY <1>1, <1>3, <1>4, <2>1
    <3>2. x <= 0 /\ x + amount <= 0
      BY <1>1, <1>4, <3>1
    <3>3. Magnitude(x + amount) = -(x + amount) /\ Magnitude(x) = -x
      BY <3>1, <3>2, MagnitudeFacts
    <3>4. -(x + amount) <= -x
      BY <1>1, <1>4
    <3> QED
      BY <3>1, <3>3, <3>4
  <2>2. CASE m = to
    <3>1. NetBalance(m)' = x - amount /\ x - amount \in Int /\ amount <= x
      BY <1>1, <1>3, <1>4, <2>2
    <3>2. x >= 0 /\ x - amount >= 0
      BY <1>1, <1>4, <3>1
    <3>3. Magnitude(x - amount) = x - amount /\ Magnitude(x) = x
      BY <3>1, <3>2, MagnitudeFacts
    <3>4. x - amount <= x
      BY <1>1, <1>4
    <3> QED
      BY <3>1, <3>3, <3>4
  <2>3. CASE m \notin {from, to}
    <3>1. NetBalance(m)' = x
      BY <1>3, <2>3
    <3>2. Magnitude(x) <= Magnitude(x)
      BY MagnitudeFacts
    <3> QED
      BY <3>1, <3>2
  <2> QED
    BY <2>1, <2>2, <2>3
<1>6. /\ Gains \in [active -> Int] /\ Outstanding = SumFunction(Gains)
  BY OutstandingIs
<1>7. Outstanding' = SumFunction(Gains')
  BY OutstandingIsNext
<1> DEFINE v == Gains[to] - amount
<1>8. Gains' = [Gains EXCEPT ![to] = v]
  <2>1. Gains' = [m \in active |-> IF NetBalance(m)' > 0 THEN NetBalance(m)' ELSE 0]
    BY <1>1 DEF Gains
  <2>2. Gains = [m \in active |-> IF NetBalance(m) > 0 THEN NetBalance(m) ELSE 0]
    BY DEF Gains
  <2>3. ASSUME NEW m \in active
        PROVE  (IF NetBalance(m)' > 0 THEN NetBalance(m)' ELSE 0)
               = IF m = to THEN v ELSE IF NetBalance(m) > 0 THEN NetBalance(m) ELSE 0
    <3> PICK x \in Int : x = NetBalance(m)
      BY <1>3
    <3>1. CASE m = from
      <4>1. NetBalance(m)' = x + amount /\ amount <= -x
        BY <1>3, <1>4, <3>1
      <4> QED
        BY <1>1, <1>4, <3>1, <4>1
    <3>2. CASE m = to
      <4>1. NetBalance(m)' = x - amount /\ amount <= x
        BY <1>3, <1>4, <3>2
      <4>2. Gains[to] = x
        BY <1>1, <1>4, <2>2, <3>2, <4>1
      <4> QED
        BY <1>1, <1>4, <3>2, <4>1, <4>2
    <3>3. CASE m \notin {from, to}
      BY <1>3, <3>3
    <3> QED
      BY <3>1, <3>2, <3>3
  <2> HIDE DEF v
  <2> QED
    BY <2>1, <2>2, <2>3
<1>9. v \in Int /\ Gains[to] \in Int
  BY <1>1, <1>6
<1> HIDE DEF v
<1>10. SumFunction([Gains EXCEPT ![to] = v]) = SumFunction(Gains) + v - Gains[to]
  BY <1>1, <1>2, <1>6, <1>9, SumUpdate
<1>11. SumFunction(Gains) \in Int
  BY <1>2, <1>6, SumInt
<1>12. Outstanding' = Outstanding - amount
  BY <1>1, <1>6, <1>7, <1>8, <1>9, <1>10, <1>11 DEF v
<1> QED
  BY <1>5, <1>12

\* Whatever else is open: a suggested payment recorded as a settlement lowers the credits by
\* its amount and takes nobody further from zero.
THEOREM PayingASuggestionAlwaysHelps == Spec => PayingASuggestionHelps
<1> DEFINE Paying(s) ==
             /\ s \notin DOMAIN settlement /\ s \in DOMAIN settlement'
             /\ \E t \in Suggested : /\ t.from = settlement'[s].from
                                     /\ t.to = settlement'[s].to
                                     /\ t.amount = settlement'[s].amount
           Helping(s) ==
             /\ Outstanding' = Outstanding - settlement'[s].amount
             /\ \A m \in active : Magnitude(NetBalance(m)') <= Magnitude(NetBalance(m))
           Helps == \A s \in Settlements : Paying(s) => Helping(s)
<1>1. ASSUME LedgerInv, LedgerInv', [Next]_vars
      PROVE  [Helps]_vars
  <2> SUFFICES ASSUME Next, NEW s \in Settlements, Paying(s) PROVE Helping(s)
    BY <1>1
  <2>1. PICK from \in Members, to \in Members, amount \in 1..MaxAmount : CreateSettlement(s, from, to, amount)
    BY <1>1, SettlementEntered
  <2>2. settlement'[s] = [from |-> from, to |-> to, amount |-> amount, deleted |-> FALSE]
    BY <1>1, <2>1, NewRow
  <2>3. settlement'[s].from = from /\ settlement'[s].to = to /\ settlement'[s].amount = amount
    BY <2>2
  <2>4. PICK t \in Suggested : t.from = from /\ t.to = to /\ t.amount = amount
    BY <2>3
  <2> QED
    BY <1>1, <2>1, <2>3, <2>4, SuggestionHelps
<1>2. LedgerInv /\ LedgerInv' /\ [Next]_vars => [Helps]_vars
  BY <1>1
<1> QED
  BY <1>2, LedgerInvHolds, PTL DEF Spec, PayingASuggestionHelps

-----------------------------------------------------------------------------
\* The loop.

\* Debts brings its own copies of what it extends.
LEMMA LoopSums == \A f : Loop!SumFunction(f) = SumFunction(f)
BY DEF Loop!SumFunction, SumFunction, Loop!SumFunctionOnSet, SumFunctionOnSet,
   Loop!FoldFunctionOnSet, FoldFunctionOnSet, Loop!MapThenFoldSet, MapThenFoldSet

LEMMA LoopOps ==
    ASSUME NEW balance
    PROVE  /\ Loop!SortedCreditors(balance) = SortedCreditors(balance)
           /\ Loop!SortedDebtors(balance) = SortedDebtors(balance)
           /\ Loop!SimplifiedDebts(balance) = SimplifiedDebts(balance)
<1>1. \A ids : Loop!Sorted(balance, ids) = Sorted(balance, ids)
  BY DEF Loop!Sorted, Sorted, Loop!Before, Before, Loop!Cardinality, Cardinality
<1>2. Loop!InCredit(balance) = InCredit(balance) /\ Loop!InDebt(balance) = InDebt(balance)
  BY DEF Loop!InCredit, Loop!InDebt, InCredit, InDebt
<1>3. /\ Loop!SortedCreditors(balance) = SortedCreditors(balance)
      /\ Loop!SortedDebtors(balance) = SortedDebtors(balance)
  BY <1>1, <1>2 DEF Loop!SortedCreditors, Loop!SortedDebtors, SortedCreditors, SortedDebtors
<1>4. \A ids, i : Loop!Prefix(balance, ids, i) = Prefix(balance, ids, i)
  <2>1. \A n : Loop!Magnitude(n) = Magnitude(n)
    BY DEF Loop!Magnitude, Magnitude, Loop!Greatest, Greatest
  <2> QED
    BY <2>1, LoopSums DEF Loop!Prefix, Prefix
<1>5. \A cs, ds, c, d : Loop!Transfer(balance, cs, ds, c, d) = Transfer(balance, cs, ds, c, d)
  BY <1>4 DEF Loop!Transfer, Transfer, Loop!Overlap, Overlap, Loop!Greatest, Greatest, Loop!Least, Least
<1> QED
  BY <1>3, <1>5 DEF Loop!SimplifiedDebts, SimplifiedDebts

Entry == [id : Debtors, left : Int]

\* A list whose first entries are paid up to x: those before index are done, the one
\* at it is the one x lies in, and those after it are untouched.
Laid(list, index, n, s, P, x) ==
    /\ n \in Nat /\ list \in [1..n -> Entry] /\ index \in 1..(n + 1)
    /\ \A k \in 1..n : list[k].id = s[k]
    /\ P \in [0..n -> Int] /\ \A k \in 1..n : P[k - 1] < P[k]
    /\ \A k \in 1..n : k > index => list[k].left = P[k] - P[k - 1]
    /\ index <= n => list[index].left = P[index] - x /\ x < P[index]
    /\ P[index - 1] <= x

LEMMA LaidStep ==
    ASSUME NEW list, NEW index, NEW n, NEW s, NEW P, NEW x \in Int, Laid(list, index, n, s, P, x),
           index <= n, NEW y \in Int, x < y, y <= P[index],
           NEW after, after = Loop!PayOff(list, index, y - x),
           NEW next, next = Loop!Advance(index, after[index].left)
    PROVE  /\ Laid(after, next, n, s, P, y)
           /\ next = IF y = P[index] THEN index + 1 ELSE index
           /\ P[next - 1] = IF y = P[index] THEN y ELSE P[index - 1]
<1>1. /\ n \in Nat /\ index \in 1..n /\ index - 1 \in 0..n /\ index \in 0..n /\ (index + 1) - 1 = index
      /\ list \in [1..n -> Entry] /\ P \in [0..n -> Int]
  BY DEF Laid
<1> PICK a \in Int : a = P[index - 1] /\ a <= x
  BY <1>1 DEF Laid
<1> PICK b \in Int : b = P[index]
  BY <1>1
<1>2. list[index] \in Entry /\ list[index].left = b - x
  BY <1>1 DEF Laid
<1>3. after = [list EXCEPT ![index] = [list[index] EXCEPT !.left = list[index].left - (y - x)]]
  BY <1>1 DEF Loop!PayOff
<1> DEFINE e == [list[index] EXCEPT !.left = list[index].left - (y - x)]
<1>4. e \in Entry /\ e.left = b - y /\ e.id = list[index].id
  BY <1>2 DEF Entry
<1> HIDE DEF e
<1>5. after = [list EXCEPT ![index] = e]
  BY <1>3 DEF e
<1>6. after \in [1..n -> Entry] /\ after[index] = e /\ \A k \in 1..n : k # index => after[k] = list[k]
  BY <1>1, <1>4, <1>5
<1>7. next = IF y = b THEN index + 1 ELSE index
  BY <1>4, <1>6 DEF Loop!Advance
<1>8. \A k \in 1..n : after[k].id = s[k]
  BY <1>4, <1>6 DEF Laid
<1>9. next \in 1..(n + 1) /\ P[next - 1] = IF y = b THEN y ELSE P[index - 1]
  BY <1>1, <1>7
<1>10. P[next - 1] <= y
  BY <1>9
<1>11. ASSUME NEW k \in 1..n, k > next PROVE after[k].left = P[k] - P[k - 1]
  <2>1. k > index
    BY <1>1, <1>7, <1>11
  <2>2. after[k] = list[k]
    BY <1>1, <1>6, <2>1
  <2> QED
    BY <2>1, <2>2 DEF Laid
<1>12. ASSUME next <= n PROVE after[next].left = P[next] - y /\ y < P[next]
  <2>1. CASE y = b
    <3>1. next = index + 1 /\ next \in 1..n /\ next > index /\ next - 1 = index
      BY <1>1, <1>7, <1>12, <2>1
    <3>2. after[next] = list[next]
      BY <1>1, <1>6, <3>1
    <3>3. list[next].left = P[next] - P[next - 1] /\ P[next - 1] < P[next]
      BY <3>1 DEF Laid
    <3> QED
      BY <2>1, <3>1, <3>2, <3>3
  <2>2. CASE y # b
    <3>1. next = index
      BY <1>7, <2>2
    <3> QED
      BY <1>4, <1>6, <2>2, <3>1
  <2> QED
    BY <2>1, <2>2
<1> QED
  <2>1. \A k \in 1..n : P[k - 1] < P[k]
    BY DEF Laid
  <2>2. Laid(after, next, n, s, P, y)
    BY <1>1, <1>6, <1>8, <1>9, <1>10, <1>11, <1>12, <2>1 DEF Laid
  <2> QED
    BY <1>7, <1>9, <2>2

\* What the creditor at place c and the debtor at place d have to do with each other.
Width(P, Q, c, d) == Greatest(0, Least(P[c], Q[d]) - Greatest(P[c - 1], Q[d - 1]))

Rises(P, n) == n \in Nat /\ P \in [0..n -> Int] /\ \A k \in 1..n : P[k - 1] < P[k]

\* A turn at places c and d, paid up to x before it and to y after it.
Turn(N, M, P, Q, c, d, x, y, nextc, nextd) ==
    /\ Rises(P, N) /\ Rises(Q, M) /\ c \in 1..N /\ d \in 1..M
    /\ x \in Int /\ P[c - 1] <= x /\ Q[d - 1] <= x
    /\ x = P[c - 1] \/ x = Q[d - 1]
    /\ y \in Int /\ y = Least(P[c], Q[d]) /\ x < y
    /\ nextc = IF y = P[c] THEN c + 1 ELSE c
    /\ nextd = IF y = Q[d] THEN d + 1 ELSE d

\* The pairs of places behind c or d, when those at them have been paired off.
LEMMA PairsBehind ==
    ASSUME NEW N, NEW M, NEW P, NEW Q, NEW c, NEW d, NEW x, NEW y, NEW nextc, NEW nextd,
           Turn(N, M, P, Q, c, d, x, y, nextc, nextd)
    PROVE  /\ Width(P, Q, c, d) = y - x
           /\ \A i \in 1..N, j \in 1..M :
                 (i < nextc \/ j < nextd) /\ Width(P, Q, i, j) > 0
                 <=> \/ (i < c \/ j < d) /\ Width(P, Q, i, j) > 0
                     \/ i = c /\ j = d
<1> SUFFICES ASSUME Rises(P, N), Rises(Q, M), c \in 1..N, d \in 1..M,
                    x \in Int, x = P[c - 1] \/ x = Q[d - 1], P[c - 1] <= x, Q[d - 1] <= x,
                    y \in Int, y = Least(P[c], Q[d]), x < y,
                    nextc = IF y = P[c] THEN c + 1 ELSE c,
                    nextd = IF y = Q[d] THEN d + 1 ELSE d
             PROVE  /\ Width(P, Q, c, d) = y - x
                    /\ \A i \in 1..N, j \in 1..M :
                          (i < nextc \/ j < nextd) /\ Width(P, Q, i, j) > 0
                          <=> \/ (i < c \/ j < d) /\ Width(P, Q, i, j) > 0
                              \/ i = c /\ j = d
  BY DEF Turn
<1>1. /\ N \in Nat /\ P \in [0..N -> Int] /\ M \in Nat /\ Q \in [0..M -> Int]
      /\ \A k \in 1..N : P[k - 1] <= P[k]
      /\ \A k \in 1..M : Q[k - 1] <= Q[k]
  BY DEF Rises
<1>2. c \in 0..N /\ c - 1 \in 0..N /\ d \in 0..M /\ d - 1 \in 0..M
  BY <1>1
<1> PICK a \in Int : a = P[c]
  BY <1>1, <1>2
<1> PICK b \in Int : b = Q[d]
  BY <1>1, <1>2
<1> PICK a0 \in Int : a0 = P[c - 1]
  BY <1>1, <1>2
<1> PICK b0 \in Int : b0 = Q[d - 1]
  BY <1>1, <1>2
<1>3. y <= a /\ y <= b /\ (y = a \/ y = b)
  BY DEF Least
<1>4. Width(P, Q, c, d) = y - x
  <2>1. Greatest(a0, b0) = x
    BY DEF Greatest
  <2>2. Width(P, Q, c, d) = Greatest(0, y - x)
    BY <2>1 DEF Width
  <2> QED
    BY <2>2 DEF Greatest
<1>5. ASSUME NEW i \in 1..N, NEW j \in 1..M, Width(P, Q, i, j) > 0
      PROVE  P[i] > Q[j - 1] /\ Q[j] > P[i - 1]
  <2>1. i \in 0..N /\ i - 1 \in 0..N /\ j \in 0..M /\ j - 1 \in 0..M
    BY <1>1
  <2> PICK p \in Int : p = P[i]
    BY <1>1, <2>1
  <2> PICK p0 \in Int : p0 = P[i - 1]
    BY <1>1, <2>1
  <2> PICK q \in Int : q = Q[j]
    BY <1>1, <2>1
  <2> PICK q0 \in Int : q0 = Q[j - 1]
    BY <1>1, <2>1
  <2>2. Greatest(0, Least(p, q) - Greatest(p0, q0)) > 0
    BY <1>5 DEF Width
  <2> QED
    BY <2>2 DEF Greatest, Least
<1>6. ASSUME NEW i \in 1..N, NEW j \in 1..M, i < nextc \/ j < nextd, Width(P, Q, i, j) > 0,
             ~(i < c \/ j < d), ~(i = c /\ j = d)
      PROVE  FALSE
  <2>1. i \in 0..N /\ i - 1 \in 0..N /\ j \in 0..M /\ j - 1 \in 0..M
    BY <1>1
  <2>2. CASE i < nextc
    <3>1. y = a /\ i = c /\ d <= j - 1
      BY <1>6, <2>2
    <3>2. Q[d] <= Q[j - 1]
      BY <1>1, <1>2, <2>1, <3>1, Monotone
    <3>3. P[c] > Q[j - 1] /\ Q[j - 1] \in Int
      BY <1>1, <1>5, <1>6, <2>1, <3>1
    <3> QED
      BY <1>3, <3>1, <3>2, <3>3
  <2>3. CASE j < nextd
    <3>1. y = b /\ j = d /\ c <= i - 1
      BY <1>6, <2>3
    <3>2. P[c] <= P[i - 1]
      BY <1>1, <1>2, <2>1, <3>1, Monotone
    <3>3. Q[d] > P[i - 1] /\ P[i - 1] \in Int
      BY <1>1, <1>5, <1>6, <2>1, <3>1
    <3> QED
      BY <1>3, <3>1, <3>2, <3>3
  <2> QED
    BY <1>6, <2>2, <2>3
<1>7. nextc \in Int /\ nextc >= c /\ nextd \in Int /\ nextd >= d /\ (nextc > c \/ nextd > d)
  BY <1>1, <1>3
<1>8. Width(P, Q, c, d) > 0
  BY <1>4
<1>9. ASSUME NEW i \in 1..N, NEW j \in 1..M,
             \/ (i < c \/ j < d) /\ Width(P, Q, i, j) > 0
             \/ i = c /\ j = d
      PROVE  (i < nextc \/ j < nextd) /\ Width(P, Q, i, j) > 0
  BY <1>7, <1>8, <1>9
<1> QED
  BY <1>4, <1>6, <1>9

LEMMA TransferIs ==
    ASSUME NEW balance, NEW N \in Nat, NEW M \in Nat, NEW cs, NEW ds, NEW P, NEW Q,
           P = Ends(balance, cs, N), Q = Ends(balance, ds, M), NEW c \in 1..N, NEW d \in 1..M
    PROVE  Transfer(balance, cs, ds, c, d)
           = [from |-> ds[d], to |-> cs[c], amount |-> Width(P, Q, c, d)]
<1>1. c \in 0..N /\ c - 1 \in 0..N /\ d \in 0..M /\ d - 1 \in 0..M
  OBVIOUS
<1>2. /\ P[c] = Prefix(balance, cs, c) /\ P[c - 1] = Prefix(balance, cs, c - 1)
      /\ Q[d] = Prefix(balance, ds, d) /\ Q[d - 1] = Prefix(balance, ds, d - 1)
  BY <1>1 DEF Ends
<1>3. Overlap(balance, cs, ds, c, d) = Width(P, Q, c, d)
  BY <1>2 DEF Overlap, Width
<1> QED
  BY <1>3 DEF Transfer

TransferRow == [from : Debtors, to : Debtors, amount : Int]

\* The transfers made are those between places of which one is behind the loop.
Made(N, M, cs, ds) ==
    /\ simplified_debts \in Seq(TransferRow)
    /\ \A t : (\E k \in 1..Len(simplified_debts) : simplified_debts[k] = t)
              <=> \E i \in 1..N, j \in 1..M :
                     /\ i < creditor_index \/ j < debtor_index
                     /\ t = Transfer(net, cs, ds, i, j) /\ t.amount > 0

\* Both lists are paid up to the same x, where the entry before one of the indexes ends.
LoopFits(N, M, cs, ds, P, Q) ==
    /\ \E x \in Int : /\ Laid(creditors, creditor_index, N, cs, P, x)
                      /\ Laid(debtors, debtor_index, M, ds, Q, x)
                      /\ x = P[creditor_index - 1] \/ x = Q[debtor_index - 1]
    /\ Made(N, M, cs, ds)

LoopInv ==
    /\ net \in [Debtors -> Int]
    /\ \A N, M, cs, ds, P, Q : IsLedger(net, N, M, cs, ds, P, Q) => LoopFits(N, M, cs, ds, P, Q)

LEMMA NetBalanced ==
    ASSUME net \in [Debtors -> Int]
    PROVE  Balanced(Debtors, net)
BY DebtorsAssumption DEF Balanced

\* The facts about the two lists that do not change.
LEMMA LoopLists ==
    ASSUME NEW balance, Balanced(Debtors, balance),
           NEW N, NEW M, NEW cs, NEW ds, NEW P, NEW Q, IsLedger(balance, N, M, cs, ds, P, Q)
    PROVE  /\ N \in Nat /\ Lists(cs, InCredit(balance)) /\ Reaches(P, N, cs, balance)
           /\ M \in Nat /\ Lists(ds, InDebt(balance)) /\ Reaches(Q, M, ds, balance)
           /\ cs \in [1..N -> Debtors] /\ \A k \in 1..N : balance[cs[k]] \in Int /\ balance[cs[k]] > 0
           /\ ds \in [1..M -> Debtors] /\ \A k \in 1..M : balance[ds[k]] \in Int /\ balance[ds[k]] < 0
<1>1. /\ N \in Nat /\ Lists(cs, InCredit(balance))
      /\ M \in Nat /\ Lists(ds, InDebt(balance))
  BY LedgerLists
<1>2. Reaches(P, N, cs, balance) /\ Reaches(Q, M, ds, balance)
  BY LedgerReaches
<1>3. N = Cardinality(InCredit(balance)) /\ M = Cardinality(InDebt(balance))
  BY DEF IsLedger
<1>4. cs \in [1..N -> InCredit(balance)] /\ ds \in [1..M -> InDebt(balance)]
  BY <1>1, <1>3 DEF Lists
<1>5. /\ InCredit(balance) \in SUBSET Debtors /\ InDebt(balance) \in SUBSET Debtors
      /\ \A m \in Debtors : /\ m \in InCredit(balance) <=> balance[m] > 0
                            /\ m \in InDebt(balance) <=> balance[m] < 0
  BY SidesOf
<1>6. \A m \in Debtors : balance[m] \in Int
  BY DEF Balanced
<1>7. cs \in [1..N -> Debtors] /\ \A k \in 1..N : balance[cs[k]] \in Int /\ balance[cs[k]] > 0
  BY <1>4, <1>5, <1>6
<1>8. ds \in [1..M -> Debtors] /\ \A k \in 1..M : balance[ds[k]] \in Int /\ balance[ds[k]] < 0
  BY <1>4, <1>5, <1>6
<1> QED
  BY <1>1, <1>2, <1>7, <1>8

\* At first nothing is paid.
LEMMA LaidOut ==
    ASSUME NEW n \in Nat, NEW s \in [1..n -> Debtors], NEW balance, NEW P, Reaches(P, n, s, balance),
           \A k \in 1..n : Magnitude(balance[s[k]]) \in Int /\ Magnitude(balance[s[k]]) > 0,
           NEW list, list = [k \in 1..n |-> [id |-> s[k], left |-> Magnitude(balance[s[k]])]]
    PROVE  Laid(list, 1, n, s, P, 0)
<1>1. /\ P \in [0..n -> Int] /\ P[0] = 0
      /\ \A k \in 1..n : P[k] = P[k - 1] + Magnitude(balance[s[k]])
  BY DEF Reaches
<1>2. list \in [1..n -> Entry]
  BY DEF Entry
<1>3. \A k \in 1..n : list[k].id = s[k] /\ list[k].left = Magnitude(balance[s[k]])
  OBVIOUS
<1>4. ASSUME NEW k \in 1..n
      PROVE  P[k - 1] < P[k] /\ list[k].left = P[k] - P[k - 1]
  <2> PICK p \in Int : p = P[k - 1]
    BY <1>1
  <2> PICK w \in Int : w = Magnitude(balance[s[k]]) /\ w > 0
    OBVIOUS
  <2>1. P[k] = p + w
    BY <1>1
  <2> QED
    BY <1>3, <2>1
<1>5. 1 \in 1..(n + 1) /\ 1 - 1 = 0
  OBVIOUS
<1>6. ASSUME 1 <= n PROVE list[1].left = P[1] - 0 /\ 0 < P[1]
  <2>1. 1 \in 1..n /\ P[1] \in Int
    BY <1>1, <1>6
  <2> QED
    BY <1>1, <1>4, <1>5, <2>1
<1> QED
  BY <1>1, <1>2, <1>3, <1>4, <1>5, <1>6 DEF Laid

LEMMA LoopInvInit == Loop!Init => LoopInv
<1> SUFFICES ASSUME Loop!Init PROVE LoopInv
  OBVIOUS
<1>1. net \in [Debtors -> Int]
  BY MaxBalanceAssumption DEF Loop!Init
<1> SUFFICES ASSUME NEW N, NEW M, NEW cs, NEW ds, NEW P, NEW Q, IsLedger(net, N, M, cs, ds, P, Q)
             PROVE  LoopFits(N, M, cs, ds, P, Q)
  BY <1>1 DEF LoopInv
<1>2. Balanced(Debtors, net)
  BY <1>1, NetBalanced
<1>3. /\ N \in Nat /\ Reaches(P, N, cs, net) /\ M \in Nat /\ Reaches(Q, M, ds, net)
      /\ cs \in [1..N -> Debtors] /\ \A k \in 1..N : net[cs[k]] \in Int /\ net[cs[k]] > 0
      /\ ds \in [1..M -> Debtors] /\ \A k \in 1..M : net[ds[k]] \in Int /\ net[ds[k]] < 0
  BY <1>2, LoopLists
<1>4. cs = Loop!SortedCreditors(net) /\ ds = Loop!SortedDebtors(net)
  BY LoopOps DEF IsLedger
<1>5. /\ creditors = [k \in DOMAIN cs |-> [id |-> cs[k], left |-> net[cs[k]]]]
      /\ debtors = [k \in DOMAIN ds |-> [id |-> ds[k], left |-> -net[ds[k]]]]
      /\ creditor_index = 1 /\ debtor_index = 1 /\ simplified_debts = <<>>
  BY <1>4 DEF Loop!Init
<1>6. \A k \in 1..N : Magnitude(net[cs[k]]) = net[cs[k]]
  BY <1>3, MagnitudeFacts
<1>7. \A k \in 1..M : Magnitude(net[ds[k]]) = -net[ds[k]]
  BY <1>3, MagnitudeFacts
<1>8. creditors = [k \in 1..N |-> [id |-> cs[k], left |-> Magnitude(net[cs[k]])]]
  BY <1>3, <1>5, <1>6
<1>9. debtors = [k \in 1..M |-> [id |-> ds[k], left |-> Magnitude(net[ds[k]])]]
  BY <1>3, <1>5, <1>7
<1>10. Laid(creditors, 1, N, cs, P, 0)
  <2>1. \A k \in 1..N : Magnitude(net[cs[k]]) \in Int /\ Magnitude(net[cs[k]]) > 0
    BY <1>3, <1>6
  <2> QED
    BY <1>3, <1>8, <2>1, LaidOut
<1>11. Laid(debtors, 1, M, ds, Q, 0)
  <2>1. \A k \in 1..M : Magnitude(net[ds[k]]) \in Int /\ Magnitude(net[ds[k]]) > 0
    BY <1>3, <1>7
  <2> QED
    BY <1>3, <1>9, <2>1, LaidOut
<1>12. 0 = P[creditor_index - 1]
  BY <1>3, <1>5 DEF Reaches
<1>13. Made(N, M, cs, ds)
  <2>1. ~ \E i \in 1..N, j \in 1..M : i < creditor_index \/ j < debtor_index
    BY <1>3, <1>5
  <2>2. simplified_debts \in Seq(TransferRow) /\ Len(simplified_debts) = 0
    BY <1>5
  <2> QED
    BY <2>1, <2>2 DEF Made
<1> QED
  BY <1>5, <1>10, <1>11, <1>12, <1>13 DEF LoopFits

\* One turn: what is the smaller of what is left on either side is paid.
LEMMA PairFacts ==
    ASSUME Loop!Pair,
           NEW N, NEW M, NEW cs, NEW ds, NEW P, NEW Q, NEW x \in Int,
           Laid(creditors, creditor_index, N, cs, P, x), Laid(debtors, debtor_index, M, ds, Q, x),
           NEW y, y = Least(P[creditor_index], Q[debtor_index])
    PROVE  /\ N \in Nat /\ M \in Nat /\ creditor_index \in 1..N /\ debtor_index \in 1..M
           /\ y \in Int /\ x < y /\ y <= P[creditor_index] /\ y <= Q[debtor_index]
           /\ creditors' = Loop!PayOff(creditors, creditor_index, y - x)
           /\ debtors' = Loop!PayOff(debtors, debtor_index, y - x)
           /\ creditor_index' = Loop!Advance(creditor_index, creditors'[creditor_index].left)
           /\ debtor_index' = Loop!Advance(debtor_index, debtors'[debtor_index].left)
           /\ simplified_debts' = Append(simplified_debts, [from |-> ds[debtor_index],
                                                            to |-> cs[creditor_index], amount |-> y - x])
           /\ ds[debtor_index] \in Debtors /\ cs[creditor_index] \in Debtors
           /\ net' = net
<1> DEFINE c == creditor_index
           d == debtor_index
<1>1. /\ N \in Nat /\ creditors \in [1..N -> Entry] /\ c \in 1..(N + 1) /\ P \in [0..N -> Int]
      /\ M \in Nat /\ debtors \in [1..M -> Entry] /\ d \in 1..(M + 1) /\ Q \in [0..M -> Int]
  BY DEF Laid
<1>2. Len(creditors) = N /\ Len(debtors) = M
  BY <1>1
<1>3. c \in 1..N /\ d \in 1..M
  BY <1>1, <1>2 DEF Loop!Pair, Loop!Done
<1>4. /\ creditors[c].left = P[c] - x /\ x < P[c] /\ creditors[c].id = cs[c] /\ creditors[c] \in Entry
      /\ debtors[d].left = Q[d] - x /\ x < Q[d] /\ debtors[d].id = ds[d] /\ debtors[d] \in Entry
  BY <1>1, <1>3 DEF Laid
<1> PICK a \in Int : a = P[c]
  BY <1>1, <1>3
<1> PICK b \in Int : b = Q[d]
  BY <1>1, <1>3
<1>5. y \in Int /\ x < y /\ y <= a /\ y <= b
  BY <1>4 DEF Least
<1>6. Loop!Amount(creditors[c].left, debtors[d].left) = y - x
  BY <1>4 DEF Loop!Amount, Loop!Least, Least
<1>7. /\ creditors' = Loop!PayOff(creditors, c, y - x)
      /\ debtors' = Loop!PayOff(debtors, d, y - x)
      /\ creditor_index' = Loop!Advance(c, creditors'[c].left)
      /\ debtor_index' = Loop!Advance(d, debtors'[d].left)
      /\ simplified_debts' = Append(simplified_debts, [from |-> debtors[d].id, to |-> creditors[c].id,
                                                       amount |-> y - x])
      /\ net' = net
  BY <1>6 DEF Loop!Pair
<1>8. ds[d] \in Debtors /\ cs[c] \in Debtors
  BY <1>4 DEF Entry
<1> QED
  BY <1>1, <1>3, <1>4, <1>5, <1>7, <1>8

\* What a list holds when one more is appended.
LEMMA OneMore ==
    ASSUME NEW T, NEW s \in Seq(T), NEW e \in T, NEW r, r = Append(s, e)
    PROVE  /\ r \in Seq(T)
           /\ \A t : (\E k \in 1..Len(r) : r[k] = t) <=> (\E k \in 1..Len(s) : s[k] = t) \/ t = e
<1>1. r \in Seq(T) /\ Len(r) = Len(s) + 1 /\ Len(s) \in Nat
  OBVIOUS
<1>2. \A k \in 1..Len(s) : r[k] = s[k]
  OBVIOUS
<1>3. r[Len(s) + 1] = e
  OBVIOUS
<1>4. 1..Len(r) = (1..Len(s)) \cup {Len(s) + 1}
  BY <1>1
<1> QED
  BY <1>1, <1>2, <1>3, <1>4

LEMMA PairKeepsFits ==
    ASSUME LoopInv, Loop!Pair,
           NEW N, NEW M, NEW cs, NEW ds, NEW P, NEW Q, IsLedger(net, N, M, cs, ds, P, Q)
    PROVE  /\ LoopFits(N, M, cs, ds, P, Q)'
           /\ creditor_index' + debtor_index' > creditor_index + debtor_index
<1> DEFINE c == creditor_index
           d == debtor_index
<1>1. LoopFits(N, M, cs, ds, P, Q)
  BY DEF LoopInv
<1> PICK x \in Int : /\ Laid(creditors, c, N, cs, P, x) /\ Laid(debtors, d, M, ds, Q, x)
                     /\ x = P[c - 1] \/ x = Q[d - 1]
  BY <1>1 DEF LoopFits
<1> DEFINE y == Least(P[c], Q[d])
           e == [from |-> ds[d], to |-> cs[c], amount |-> y - x]
<1>y. y = Least(P[c], Q[d])
  OBVIOUS
<1> HIDE DEF y
<1>2. /\ N \in Nat /\ M \in Nat /\ c \in 1..N /\ d \in 1..M
      /\ y \in Int /\ x < y /\ y <= P[c] /\ y <= Q[d]
      /\ creditors' = Loop!PayOff(creditors, c, y - x)
      /\ debtors' = Loop!PayOff(debtors, d, y - x)
      /\ creditor_index' = Loop!Advance(c, creditors'[c].left)
      /\ debtor_index' = Loop!Advance(d, debtors'[d].left)
      /\ simplified_debts' = Append(simplified_debts, e)
      /\ ds[d] \in Debtors /\ cs[c] \in Debtors
      /\ net' = net
  BY PairFacts DEF y
<1>3. c <= N /\ d <= M
  BY <1>2
<1> DEFINE nextc == creditor_index'
           nextd == debtor_index'
<1>4. /\ Laid(creditors', nextc, N, cs, P, y)
      /\ nextc = IF y = P[c] THEN c + 1 ELSE c
      /\ P[nextc - 1] = IF y = P[c] THEN y ELSE P[c - 1]
  BY <1>2, <1>3, LaidStep
<1>5. /\ Laid(debtors', nextd, M, ds, Q, y)
      /\ nextd = IF y = Q[d] THEN d + 1 ELSE d
      /\ Q[nextd - 1] = IF y = Q[d] THEN y ELSE Q[d - 1]
  BY <1>2, <1>3, LaidStep
<1>6. y = P[c] \/ y = Q[d]
  BY DEF y, Least
<1>7. y = P[nextc - 1] \/ y = Q[nextd - 1]
  BY <1>4, <1>5, <1>6
<1>8. nextc + nextd > c + d
  BY <1>2, <1>4, <1>5, <1>6
<1>9. Made(N, M, cs, ds)'
  <2>1. Rises(P, N) /\ Rises(Q, M) /\ P[c - 1] <= x /\ Q[d - 1] <= x
    BY DEF Laid, Rises
  <2>2. /\ Width(P, Q, c, d) = y - x
        /\ \A i \in 1..N, j \in 1..M :
              (i < nextc \/ j < nextd) /\ Width(P, Q, i, j) > 0
              <=> \/ (i < c \/ j < d) /\ Width(P, Q, i, j) > 0
                  \/ i = c /\ j = d
    <3>1. Turn(N, M, P, Q, c, d, x, y, nextc, nextd)
      BY <1>y, <1>2, <1>4, <1>5, <2>1 DEF Turn
    <3> HIDE DEF nextc, nextd, c, d
    <3> QED
      BY <3>1, PairsBehind
  <2>3. P = Ends(net, cs, N) /\ Q = Ends(net, ds, M)
    BY DEF IsLedger
  <2>4. ASSUME NEW i \in 1..N, NEW j \in 1..M
        PROVE  Transfer(net, cs, ds, i, j) = [from |-> ds[j], to |-> cs[i], amount |-> Width(P, Q, i, j)]
    BY <1>2, <2>3, TransferIs
  <2>5. Transfer(net, cs, ds, c, d) = e
    BY <1>2, <2>2, <2>4
  <2>6. \A i \in 1..N, j \in 1..M : Transfer(net, cs, ds, i, j).amount = Width(P, Q, i, j)
    BY <2>4
  <2>7. e \in TransferRow
    BY <1>2 DEF TransferRow
  <2> HIDE DEF e, nextc, nextd, c, d
  <2>8. simplified_debts \in Seq(TransferRow)
    BY <1>1 DEF LoopFits, Made
  <2>9. /\ simplified_debts' \in Seq(TransferRow)
        /\ \A t : (\E k \in 1..Len(simplified_debts') : simplified_debts'[k] = t)
                  <=> (\E k \in 1..Len(simplified_debts) : simplified_debts[k] = t) \/ t = e
    BY <1>2, <2>7, <2>8, OneMore
  <2>10. \A t : (\E k \in 1..Len(simplified_debts) : simplified_debts[k] = t)
                <=> \E i \in 1..N, j \in 1..M : /\ i < c \/ j < d
                                                /\ t = Transfer(net, cs, ds, i, j) /\ t.amount > 0
    BY <1>1 DEF LoopFits, Made, c, d
  <2>11. ASSUME NEW t, \E k \in 1..Len(simplified_debts') : simplified_debts'[k] = t
         PROVE  \E i \in 1..N, j \in 1..M : /\ i < nextc \/ j < nextd
                                            /\ t = Transfer(net, cs, ds, i, j) /\ t.amount > 0
    <3>1. CASE \E k \in 1..Len(simplified_debts) : simplified_debts[k] = t
      <4>1. PICK i \in 1..N, j \in 1..M : /\ i < c \/ j < d
                                          /\ t = Transfer(net, cs, ds, i, j) /\ t.amount > 0
        BY <2>10, <3>1
      <4>2. Width(P, Q, i, j) > 0
        BY <2>6, <4>1
      <4> QED
        BY <2>2, <4>1, <4>2
    <3>2. CASE t = e
      <4>1. (c < nextc \/ d < nextd) /\ Width(P, Q, c, d) > 0
        BY <1>2, <2>2
      <4> QED
        BY <1>2, <2>5, <2>6, <3>2, <4>1
    <3> QED
      BY <2>9, <2>11, <3>1, <3>2
  <2>12. ASSUME NEW t, NEW i \in 1..N, NEW j \in 1..M, i < nextc \/ j < nextd,
                t = Transfer(net, cs, ds, i, j), t.amount > 0
         PROVE  \E k \in 1..Len(simplified_debts') : simplified_debts'[k] = t
    <3>1. Width(P, Q, i, j) > 0
      BY <2>6, <2>12
    <3>2. CASE i < c \/ j < d
      BY <2>9, <2>10, <2>12, <3>2
    <3>3. CASE i = c /\ j = d
      BY <2>5, <2>9, <2>12, <3>3
    <3> QED
      BY <2>2, <2>12, <3>1, <3>2, <3>3
  <2>13. \A t : (\E k \in 1..Len(simplified_debts') : simplified_debts'[k] = t)
                <=> \E i \in 1..N, j \in 1..M : /\ i < nextc \/ j < nextd
                                                /\ t = Transfer(net, cs, ds, i, j) /\ t.amount > 0
    BY <2>11, <2>12, Zenon
  <2>14. \A t : (\E k \in 1..Len(simplified_debts') : simplified_debts'[k] = t)
                <=> \E i \in 1..N, j \in 1..M : /\ i < nextc \/ j < nextd
                                                /\ t = Transfer(net', cs, ds, i, j) /\ t.amount > 0
    BY <1>2, <2>13, Zenon
  <2> QED
    BY <2>9, <2>14 DEF Made, nextc, nextd
<1> QED
  BY <1>2, <1>4, <1>5, <1>7, <1>8, <1>9 DEF LoopFits

LEMMA LoopInvStep == LoopInv /\ [Loop!Next]_Loop!vars => LoopInv'
<1> SUFFICES ASSUME LoopInv, [Loop!Next]_Loop!vars PROVE LoopInv'
  OBVIOUS
<1>1. net' = net
  BY DEF Loop!Next, Loop!Pair, Loop!vars
<1>2. ASSUME NEW N, NEW M, NEW cs, NEW ds, NEW P, NEW Q, IsLedger(net, N, M, cs, ds, P, Q)
      PROVE  LoopFits(N, M, cs, ds, P, Q)'
  <2>1. CASE Loop!Pair
    BY <1>2, <2>1, PairKeepsFits
  <2>2. CASE UNCHANGED Loop!vars
    <3>1. LoopFits(N, M, cs, ds, P, Q)
      BY <1>2 DEF LoopInv
    <3>2. UNCHANGED <<net, creditors, debtors, creditor_index, debtor_index, simplified_debts>>
      BY <2>2 DEF Loop!vars
    <3>3. Made(N, M, cs, ds)'
      BY <3>1, <3>2 DEF LoopFits, Made
    <3> QED
      BY <3>1, <3>2, <3>3 DEF LoopFits
  <2> QED
    BY <2>1, <2>2 DEF Loop!Next
<1> QED
  BY <1>1, <1>2 DEF LoopInv

LEMMA LoopInvHolds == Loop!Spec => []LoopInv
BY LoopInvInit, LoopInvStep, PTL DEF Loop!Spec

\* The loop ends with the transfers that SimplifiedDebts defines: each debtor pays each
\* creditor the length on which their intervals overlap, for any members, whether their
\* balances cancel or not.
THEOREM LoopMatchesOverlap == Loop!Spec => []MatchesOverlap
<1>1. ASSUME LoopInv, Loop!Done PROVE Loop!ToSet(simplified_debts) = Loop!SimplifiedDebts(net)
  <2> PICK N, M, cs, ds, P, Q : IsLedger(net, N, M, cs, ds, P, Q)
    BY LedgerExists
  <2>1. LoopFits(N, M, cs, ds, P, Q) /\ net \in [Debtors -> Int]
    BY <1>1 DEF LoopInv
  <2>2. Balanced(Debtors, net)
    BY <2>1, NetBalanced
  <2>3. /\ N \in Nat /\ Lists(cs, InCredit(net))
        /\ M \in Nat /\ Lists(ds, InDebt(net))
    BY <2>2, LoopLists
  <2>4. \A t : t \in SimplifiedDebts(net) <=>
                 \E i \in 1..N, j \in 1..M : t = Transfer(net, cs, ds, i, j) /\ t.amount > 0
    BY <2>3, Suggestions
  <2>5. creditor_index = N + 1 \/ debtor_index = M + 1
    <3>1. /\ creditors \in [1..N -> Entry] /\ creditor_index \in 1..(N + 1)
          /\ debtors \in [1..M -> Entry] /\ debtor_index \in 1..(M + 1)
      BY <2>1 DEF LoopFits, Laid
    <3>2. Len(creditors) = N /\ Len(debtors) = M
      BY <2>3, <3>1
    <3> QED
      BY <1>1, <2>3, <3>1, <3>2 DEF Loop!Done
  <2>6. \A i \in 1..N, j \in 1..M : i < creditor_index \/ j < debtor_index
    BY <2>3, <2>5
  <2>7. /\ simplified_debts \in Seq(TransferRow)
        /\ \A t : (\E k \in 1..Len(simplified_debts) : simplified_debts[k] = t)
                  <=> \E i \in 1..N, j \in 1..M : t = Transfer(net, cs, ds, i, j) /\ t.amount > 0
    BY <2>1, <2>6 DEF LoopFits, Made
  <2>8. \A t : t \in Loop!ToSet(simplified_debts) <=> \E k \in 1..Len(simplified_debts) : simplified_debts[k] = t
    BY <2>7 DEF Loop!ToSet
  <2> QED
    BY <2>4, <2>7, <2>8, LoopOps
<1>2. LoopInv => MatchesOverlap
  BY <1>1 DEF MatchesOverlap, Loop!MatchesOverlap
<1> QED
  BY <1>2, LoopInvHolds, PTL

\* No turn of the loop leaves both indexes where they are, so that there are at most as
\* many turns as creditors and debtors: for any members and balances.
THEOREM TurnsAlwaysFinishOne == Loop!Spec => EveryTurnFinishesOne
<1>1. ASSUME LoopInv, Loop!Pair
      PROVE  creditor_index' + debtor_index' > creditor_index + debtor_index
  BY <1>1, LedgerExists, PairKeepsFits
<1>2. LoopInv /\ [Loop!Next]_Loop!vars
      => [creditor_index' + debtor_index' > creditor_index + debtor_index]_Loop!vars
  BY <1>1 DEF Loop!Next
<1> QED
  BY <1>2, LoopInvHolds, PTL DEF Loop!Spec, EveryTurnFinishesOne, Loop!EveryTurnFinishesOne

=============================================================================
