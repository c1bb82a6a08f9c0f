--------------------------------- MODULE Sums ---------------------------------
(***************************************************************************)
(* Sums over finite sets, as SumFunctionOnSet of the community modules     *)
(* computes them: by removing one element after the other.  The induction  *)
(* on the size of the set is made by looking at a least counterexample.    *)
(***************************************************************************)
EXTENDS Functions, FiniteSetTheorems, WellFoundedInduction, TLAPS

Picked(s) == CHOOSE x \in s : TRUE

(* One unfolding of the recursive function that adds up w.                 *)
SumBody(w, S, it) ==
  [s \in SUBSET S |-> IF s = {} THEN 0 ELSE w[Picked(s)] + it[s \ {Picked(s)}]]

SumIter(w, S) == CHOOSE it : it = SumBody(w, S, it)

(* The sum is what that function answers for the whole set.                *)
LEMMA SumIsIter ==
  ASSUME NEW w, NEW S
  PROVE  SumFunctionOnSet(w, S) = SumIter(w, S)[S]
BY Zenon DEF SumFunctionOnSet, FoldFunctionOnSet, MapThenFoldSet, SumIter, SumBody, Picked

(* A set of numbers has a least one.                                       *)
LEMMA LeastNumber ==
  ASSUME NEW T, T \subseteq Nat, T # {}
  PROVE  \E x \in T : \A y \in T : x <= y
<1>1. PICK x \in T : \A y \in T : ~ (<<y, x>> \in OpToRel(<, Nat))
  BY NatLessThanWellFounded, WFMin
<1>2. ASSUME NEW y \in T PROVE x <= y
  <2>1. ~ (y < x)
    BY <1>1, <1>2 DEF OpToRel
  <2> QED
    BY <2>1
<1> QED
  BY <1>2

(* So a set of numbers without least one is empty.                         *)
LEMMA NoLeastNumber ==
  ASSUME NEW T, T \subseteq Nat, \A n \in T : \E m \in T : m < n
  PROVE  T = {}
<1> SUFFICES ASSUME T # {} PROVE FALSE
  OBVIOUS
<1>1. PICK x \in T : \A y \in T : x <= y
  BY LeastNumber
<1>2. PICK y \in T : y < x
  OBVIOUS
<1> QED
  BY <1>1, <1>2

-------------------------------------------------------------------------------
(* The recursive function exists: it is built size by size.                *)

Layer(S, n) == {s \in SUBSET S : Cardinality(s) <= n}

SumUpTo(w, S, n, g) ==
  g = [s \in Layer(S, n) |->
         IF s = {} THEN 0 ELSE w[Picked(s)] + g[s \ {Picked(s)}]]

(* A set with its picked element taken out is a size smaller.              *)
LEMMA PickedOut ==
  ASSUME NEW S, IsFiniteSet(S), NEW s \in SUBSET S
  PROVE  /\ IsFiniteSet(s) /\ Cardinality(s) \in Nat
         /\ s = {} <=> Cardinality(s) = 0
         /\ s # {} => /\ Picked(s) \in s /\ s \ {Picked(s)} \in SUBSET S
                      /\ Cardinality(s \ {Picked(s)}) = Cardinality(s) - 1
<1>1. IsFiniteSet(s) /\ Cardinality(s) \in Nat /\ (s = {} <=> Cardinality(s) = 0)
  BY FS_Subset, FS_CardinalityType, FS_EmptySet
<1>2. s # {} => Picked(s) \in s
  BY DEF Picked
<1> QED
  BY <1>1, <1>2, FS_RemoveElement

(* For sets up to any size there is such a function.                       *)
LEMMA SumLayers ==
  ASSUME NEW w, NEW S, IsFiniteSet(S)
  PROVE  \A n \in Nat : \E g : SumUpTo(w, S, n, g)
<1> DEFINE T == {n \in Nat : ~ \E g : SumUpTo(w, S, n, g)}
<1>0. \A s \in SUBSET S :
        /\ Cardinality(s) \in Nat /\ (s = {} <=> Cardinality(s) = 0)
        /\ s # {} => /\ s \ {Picked(s)} \in SUBSET S
                     /\ Cardinality(s \ {Picked(s)}) = Cardinality(s) - 1
  BY PickedOut
<1>1. ASSUME NEW n \in T PROVE \E m \in T : m < n
  <2>1. CASE n = 0
    <3> DEFINE g == [s \in Layer(S, 0) |-> 0]
    <3>1. ASSUME NEW s \in Layer(S, 0) PROVE s = {}
      <4>1. s \in SUBSET S /\ Cardinality(s) <= 0
        BY DEF Layer
      <4>2. Cardinality(s) \in Nat /\ (s = {} <=> Cardinality(s) = 0)
        BY <1>0, <4>1
      <4> QED
        BY <4>1, <4>2
    <3>2. SumUpTo(w, S, 0, g)
      BY <3>1 DEF SumUpTo
    <3> QED
      BY <2>1, <3>2
  <2>2. CASE n # 0
    <3>1. n \in Nat /\ n - 1 \in Nat /\ n - 1 < n
      BY <2>2
    <3>2. SUFFICES ASSUME n - 1 \notin T PROVE FALSE
      BY <3>1
    <3>3. PICK g : SumUpTo(w, S, n - 1, g)
      BY <3>1, <3>2
    <3> DEFINE h == [s \in Layer(S, n) |->
                       IF s = {} THEN 0 ELSE w[Picked(s)] + g[s \ {Picked(s)}]]
    <3>4. \A s \in Layer(S, n - 1) : s \in Layer(S, n) /\ h[s] = g[s]
      <4>1. ASSUME NEW s \in Layer(S, n - 1) PROVE s \in Layer(S, n)
        <5>1. s \in SUBSET S /\ Cardinality(s) <= n - 1
          BY DEF Layer
        <5>2. Cardinality(s) \in Nat
          BY <1>0, <5>1
        <5>3. Cardinality(s) <= n
          BY <3>1, <5>1, <5>2
        <5> QED
          BY <5>1, <5>3 DEF Layer
      <4>2. \A s \in Layer(S, n - 1) :
              g[s] = IF s = {} THEN 0 ELSE w[Picked(s)] + g[s \ {Picked(s)}]
        BY <3>3 DEF SumUpTo
      <4> QED
        BY <4>1, <4>2
    <3>5. ASSUME NEW s \in Layer(S, n), s # {} PROVE s \ {Picked(s)} \in Layer(S, n - 1)
      <4>1. s \in SUBSET S /\ Cardinality(s) <= n
        BY DEF Layer
      <4>2. /\ Cardinality(s) \in Nat /\ s \ {Picked(s)} \in SUBSET S
            /\ Cardinality(s \ {Picked(s)}) = Cardinality(s) - 1
        BY <1>0, <3>5, <4>1
      <4>3. Cardinality(s \ {Picked(s)}) <= n - 1
        BY <3>1, <4>1, <4>2
      <4> QED
        BY <4>2, <4>3 DEF Layer
    <3>6. h = [s \in Layer(S, n) |->
                 IF s = {} THEN 0 ELSE w[Picked(s)] + h[s \ {Picked(s)}]]
      BY <3>4, <3>5
    <3>7. SumUpTo(w, S, n, h)
      BY <3>6 DEF SumUpTo
    <3> QED
      BY <3>7
  <2> QED
    BY <2>1, <2>2
<1>2. T \subseteq Nat
  OBVIOUS
<1> HIDE DEF T
<1>3. T = {}
  BY <1>1, <1>2, NoLeastNumber
<1> QED
  BY <1>3 DEF T

(* So the recursive function is what its definition says.                  *)
LEMMA SumIterIsBody ==
  ASSUME NEW w, NEW S, IsFiniteSet(S)
  PROVE  SumIter(w, S) = SumBody(w, S, SumIter(w, S))
<1>1. Cardinality(S) \in Nat
  BY FS_CardinalityType
<1>2. PICK g : SumUpTo(w, S, Cardinality(S), g)
  BY <1>1, SumLayers
<1>3. Layer(S, Cardinality(S)) = SUBSET S
  BY FS_Subset DEF Layer
<1>4. g = SumBody(w, S, g)
  BY <1>2, <1>3 DEF SumUpTo, SumBody
<1> QED
  BY <1>4 DEF SumIter
-------------------------------------------------------------------------------
(* What a sum is.                                                          *)

(* Summing within a larger set is summing.                                 *)
LEMMA SumIterLocal ==
  \A S, s : IsFiniteSet(S) /\ s \in SUBSET S =>
    \A w : SumIter(w, S)[s] = SumIter(w, s)[s]
<1> DEFINE Bad(s) == \E w, S : /\ IsFiniteSet(S) /\ s \in SUBSET S
                               /\ SumIter(w, S)[s] # SumIter(w, s)[s]
           T == {n \in Nat : \E s : IsFiniteSet(s) /\ Cardinality(s) = n /\ Bad(s)}
<1>1. ASSUME NEW n \in T PROVE \E m \in T : m < n
  <2>1. PICK s, w, S : /\ IsFiniteSet(s) /\ Cardinality(s) = n /\ IsFiniteSet(S)
                       /\ s \in SUBSET S /\ SumIter(w, S)[s] # SumIter(w, s)[s]
    OBVIOUS
  <2> DEFINE r == s \ {Picked(s)}
  <2>2. s \in SUBSET s /\ SumIter(w, S) = SumBody(w, S, SumIter(w, S))
        /\ SumIter(w, s) = SumBody(w, s, SumIter(w, s))
    BY <2>1, SumIterIsBody
  <2>3. /\ SumIter(w, S)[s] = IF s = {} THEN 0 ELSE w[Picked(s)] + SumIter(w, S)[r]
        /\ SumIter(w, s)[s] = IF s = {} THEN 0 ELSE w[Picked(s)] + SumIter(w, s)[r]
    BY <2>1, <2>2 DEF SumBody
  <2>4. s # {} /\ SumIter(w, S)[r] # SumIter(w, s)[r]
    BY <2>1, <2>3
  <2>5. /\ IsFiniteSet(r) /\ r \in SUBSET S /\ r \in SUBSET s
        /\ Cardinality(r) = Cardinality(s) - 1 /\ Cardinality(r) \in Nat
    <3>1. /\ r \in SUBSET S /\ Cardinality(r) = Cardinality(s) - 1
      BY <2>1, <2>4, PickedOut
    <3>2. IsFiniteSet(r) /\ Cardinality(r) \in Nat
      BY <2>1, <3>1, FS_Subset, FS_CardinalityType
    <3> QED
      BY <3>1, <3>2
  <2>6. Bad(r)
    BY <2>1, <2>4, <2>5
  <2> HIDE DEF r, Bad
  <2>7. Cardinality(r) \in T /\ Cardinality(r) < n
    BY <2>1, <2>5, <2>6
  <2> QED
    BY <2>7
<1>2. T \subseteq Nat
  OBVIOUS
<1> HIDE DEF T
<1>3. T = {}
  BY <1>1, <1>2, NoLeastNumber
<1>4. ASSUME NEW S, NEW s, IsFiniteSet(S), s \in SUBSET S, NEW w,
             SumIter(w, S)[s] # SumIter(w, s)[s]
      PROVE  FALSE
  <2>1. IsFiniteSet(s) /\ Cardinality(s) \in Nat
    BY <1>4, FS_Subset, FS_CardinalityType
  <2>2. Bad(s)
    BY <1>4
  <2>3. Cardinality(s) \in T
    BY <2>1, <2>2 DEF T
  <2> QED
    BY <1>3, <2>3
<1> QED
  BY <1>4

(* Nothing adds up to nothing, and the picked element counts once.         *)
LEMMA SumPicked ==
  ASSUME NEW w, NEW S, IsFiniteSet(S)
  PROVE  SumFunctionOnSet(w, S) =
           IF S = {} THEN 0 ELSE w[Picked(S)] + SumFunctionOnSet(w, S \ {Picked(S)})
<1>1. SumIter(w, S)[S] =
        IF S = {} THEN 0 ELSE w[Picked(S)] + SumIter(w, S)[S \ {Picked(S)}]
  <2>1. SumIter(w, S) = SumBody(w, S, SumIter(w, S)) /\ S \in SUBSET S
    BY SumIterIsBody
  <2> QED
    BY <2>1 DEF SumBody
<1>2. S \ {Picked(S)} \in SUBSET S
  OBVIOUS
<1>3. SumIter(w, S)[S \ {Picked(S)}] = SumIter(w, S \ {Picked(S)})[S \ {Picked(S)}]
  BY <1>2, SumIterLocal
<1> QED
  BY <1>1, <1>3, SumIsIter
(* A set of whole numbers adds up to one, and every element counts once.   *)
LEMMA SumElements ==
  ASSUME NEW w
  PROVE  \A S : IsFiniteSet(S) /\ (\A x \in S : w[x] \in Int) =>
           /\ SumFunctionOnSet(w, S) \in Int
           /\ \A x \in S : SumFunctionOnSet(w, S) = w[x] + SumFunctionOnSet(w, S \ {x})
<1> DEFINE Fine(S) == IsFiniteSet(S) /\ \A x \in S : w[x] \in Int
           Good(S) == /\ SumFunctionOnSet(w, S) \in Int
                      /\ \A x \in S : SumFunctionOnSet(w, S)
                                        = w[x] + SumFunctionOnSet(w, S \ {x})
           T == {n \in Nat : \E S : Fine(S) /\ Cardinality(S) = n /\ ~ Good(S)}
<1>1. ASSUME NEW n \in T PROVE \E m \in T : m < n
  <2>1. PICK S : Fine(S) /\ Cardinality(S) = n /\ ~ Good(S)
    OBVIOUS
  <2>2. SUFFICES ASSUME \A m \in T : ~ (m < n) PROVE Good(S)
    BY <2>1
  <2>3. ASSUME NEW R \in SUBSET S, Cardinality(R) < n PROVE Fine(R) /\ Good(R)
    <3>1. Fine(R) /\ Cardinality(R) \in Nat
      BY <2>1, FS_Subset, FS_CardinalityType
    <3> HIDE DEF Fine, Good
    <3> QED
      BY <2>2, <2>3, <3>1
  <2>4. ASSUME NEW x \in S
        PROVE  S \ {x} \in SUBSET S /\ Cardinality(S \ {x}) < n
    <3>1. Cardinality(S \ {x}) = n - 1 /\ n \in Nat
      BY <2>1, FS_RemoveElement
    <3> QED
      BY <3>1
  <2>5. CASE S = {}
    <3>1. SumFunctionOnSet(w, S) = 0
      BY <2>1, <2>5, SumPicked
    <3> QED
      BY <2>5, <3>1
  <2>6. CASE S # {}
    <3> DEFINE p == Picked(S)
    <3>1. p \in S
      BY <2>6 DEF Picked
    <3>2. SumFunctionOnSet(w, S) = w[p] + SumFunctionOnSet(w, S \ {p})
      BY <2>1, <2>6, SumPicked
    <3>3. Good(S \ {p})
      BY <2>3, <2>4, <3>1
    <3>4. SumFunctionOnSet(w, S) \in Int
      BY <2>1, <3>1, <3>2, <3>3
    <3> HIDE DEF p
    <3>5. ASSUME NEW x \in S
          PROVE  SumFunctionOnSet(w, S) = w[x] + SumFunctionOnSet(w, S \ {x})
      <4>1. CASE x = p
        BY <3>2, <4>1
      <4>2. CASE x # p
        <5> DEFINE R == S \ {x, p}
        <5>1. Good(S \ {x})
          BY <2>3, <2>4
        <5>2. p \in S \ {x} /\ x \in S \ {p}
          BY <3>1, <4>2
        <5>3. (S \ {x}) \ {p} = R /\ (S \ {p}) \ {x} = R
          OBVIOUS
        <5>4. /\ SumFunctionOnSet(w, S \ {x}) = w[p] + SumFunctionOnSet(w, R)
              /\ SumFunctionOnSet(w, S \ {p}) = w[x] + SumFunctionOnSet(w, R)
          BY <3>3, <5>1, <5>2, <5>3
        <5>5. Good(R)
          <6>1. /\ IsFiniteSet(S) /\ R \in SUBSET S /\ x \in S /\ x \notin R
                /\ Cardinality(S) = n
            BY <2>1
          <6>2. Cardinality(R) <= n /\ Cardinality(R) # n
            BY <6>1, FS_Subset
          <6>3. Cardinality(R) \in Nat /\ n \in Nat
            BY <6>1, FS_Subset, FS_CardinalityType
          <6>4. Cardinality(R) < n
            BY <6>2, <6>3
          <6> QED
            BY <2>3, <6>1, <6>4
        <5>6. w[p] \in Int /\ w[x] \in Int /\ SumFunctionOnSet(w, R) \in Int
          BY <2>1, <3>1, <5>5
        <5> QED
          BY <3>2, <5>4, <5>6
      <4> QED
        BY <4>1, <4>2
    <3> QED
      BY <3>4, <3>5
  <2> QED
    BY <2>5, <2>6
<1>2. T \subseteq Nat
  OBVIOUS
<1> HIDE DEF T
<1>3. T = {}
  BY <1>1, <1>2, NoLeastNumber
<1>4. ASSUME NEW S, Fine(S) PROVE Good(S)
  <2>1. Cardinality(S) \in Nat
    BY <1>4, FS_CardinalityType
  <2> HIDE DEF Fine, Good
  <2> QED
    BY <1>3, <1>4, <2>1 DEF T
<1> QED
  BY <1>4

(* What holds of the empty set, and of every set one element larger, holds *)
(* of every finite set: T is the set of subsets it holds of.               *)
LEMMA FiniteInduct ==
  ASSUME NEW S, IsFiniteSet(S), NEW T, {} \in T,
         \A A \in SUBSET S, x \in S : A \in T => A \cup {x} \in T
  PROVE  S \in T
<1> DEFINE N == {n \in Nat : \E A \in SUBSET S : Cardinality(A) = n /\ A \notin T}
<1>1. ASSUME NEW n \in N PROVE \E m \in N : m < n
  <2>1. PICK A \in SUBSET S : Cardinality(A) = n /\ A \notin T
    OBVIOUS
  <2>2. A # {}
    BY <2>1
  <2> DEFINE x == Picked(A)
             R == A \ {x}
  <2>3. /\ x \in A /\ R \in SUBSET S /\ Cardinality(R) = n - 1 /\ Cardinality(R) \in Nat
    <3>1. Picked(A) \in A /\ R \in SUBSET S /\ Cardinality(R) = n - 1
      BY <2>1, <2>2, PickedOut
    <3>2. Cardinality(R) \in Nat
      BY <3>1, FS_Subset, FS_CardinalityType
    <3> QED
      BY <3>1, <3>2
  <2>4. A = R \cup {x}
    BY <2>3
  <2> HIDE DEF x, R
  <2>5. R \notin T
    BY <2>1, <2>3, <2>4
  <2>6. n - 1 \in N /\ n - 1 < n
    BY <2>3, <2>5
  <2> QED
    BY <2>6
<1>2. N \subseteq Nat
  OBVIOUS
<1> HIDE DEF N
<1>3. N = {}
  BY <1>1, <1>2, NoLeastNumber
<1>4. Cardinality(S) \in Nat
  BY FS_CardinalityType
<1> QED
  BY <1>3, <1>4 DEF N
-------------------------------------------------------------------------------
(* The rules of sums that proofs use.  Numbers(w, S) says that w gives a   *)
(* whole number to every element of the finite set S.                      *)

Numbers(w, S) == IsFiniteSet(S) /\ \A x \in S : w[x] \in Int

(* Nothing adds up to nothing; sums are whole numbers.                     *)
LEMMA SumEmpty == \A w : SumFunctionOnSet(w, {}) = 0
BY SumPicked, FS_EmptySet

LEMMA SumInt ==
  ASSUME NEW w, NEW S, Numbers(w, S)
  PROVE  SumFunctionOnSet(w, S) \in Int
BY SumElements DEF Numbers

(* One more element adds what it counts.                                   *)
LEMMA SumAdd ==
  ASSUME NEW w, NEW S, NEW x, Numbers(w, S \cup {x}), x \notin S
  PROVE  /\ Numbers(w, S) /\ SumFunctionOnSet(w, S) \in Int
         /\ SumFunctionOnSet(w, S \cup {x}) = SumFunctionOnSet(w, S) + w[x]
<1>1. Numbers(w, S)
  BY FS_Subset DEF Numbers
<1>2. SumFunctionOnSet(w, S) \in Int
  BY <1>1, SumInt
<1>3. /\ IsFiniteSet(S \cup {x}) /\ (\A y \in S \cup {x} : w[y] \in Int)
      /\ x \in S \cup {x} /\ (S \cup {x}) \ {x} = S
  BY DEF Numbers
<1>4. SumFunctionOnSet(w, S \cup {x}) = w[x] + SumFunctionOnSet(w, S)
  BY <1>3, SumElements
<1> QED
  BY <1>1, <1>2, <1>3, <1>4

(* Two functions that agree on a set have one sum on it.                   *)
LEMMA SumAgree ==
  ASSUME NEW v, NEW w, NEW S, Numbers(w, S), \A x \in S : v[x] = w[x]
  PROVE  SumFunctionOnSet(v, S) = SumFunctionOnSet(w, S)
<1> DEFINE T == {A \in SUBSET S : SumFunctionOnSet(v, A) = SumFunctionOnSet(w, A)}
<1>1. {} \in T
  BY SumEmpty
<1>2. ASSUME NEW A \in SUBSET S, NEW x \in S, A \in T PROVE A \cup {x} \in T
  <2>1. CASE x \in A
    <3>1. A \cup {x} = A
      BY <2>1
    <3> QED
      BY <1>2, <3>1
  <2>2. CASE x \notin A
    <3>1. A \cup {x} \in SUBSET S /\ Numbers(v, A \cup {x}) /\ Numbers(w, A \cup {x})
      BY FS_Subset DEF Numbers
    <3>2. /\ SumFunctionOnSet(v, A \cup {x}) = SumFunctionOnSet(v, A) + v[x]
          /\ SumFunctionOnSet(w, A \cup {x}) = SumFunctionOnSet(w, A) + w[x]
      BY <2>2, <3>1, SumAdd
    <3> QED
      BY <1>2, <3>1, <3>2
  <2> QED
    BY <2>1, <2>2
<1> HIDE DEF T
<1>3. S \in T
  BY <1>1, <1>2, FiniteInduct DEF Numbers
<1> QED
  BY <1>3 DEF T

(* What is nowhere larger has no larger sum.                               *)
LEMMA SumAtMost ==
  ASSUME NEW v, NEW w, NEW S, Numbers(v, S), Numbers(w, S), \A x \in S : v[x] <= w[x]
  PROVE  SumFunctionOnSet(v, S) <= SumFunctionOnSet(w, S)
<1> DEFINE T == {A \in SUBSET S : SumFunctionOnSet(v, A) <= SumFunctionOnSet(w, A)}
<1>1. {} \in T
  BY SumEmpty
<1>2. ASSUME NEW A \in SUBSET S, NEW x \in S, A \in T PROVE A \cup {x} \in T
  <2>1. CASE x \in A
    <3>1. A \cup {x} = A
      BY <2>1
    <3> QED
      BY <1>2, <3>1
  <2>2. CASE x \notin A
    <3>1. A \cup {x} \in SUBSET S /\ Numbers(v, A \cup {x}) /\ Numbers(w, A \cup {x})
      BY FS_Subset DEF Numbers
    <3>2. /\ SumFunctionOnSet(v, A \cup {x}) = SumFunctionOnSet(v, A) + v[x]
          /\ SumFunctionOnSet(w, A \cup {x}) = SumFunctionOnSet(w, A) + w[x]
          /\ SumFunctionOnSet(v, A) \in Int /\ SumFunctionOnSet(w, A) \in Int
      BY <2>2, <3>1, SumAdd
    <3>3. v[x] \in Int /\ w[x] \in Int /\ v[x] <= w[x]
          /\ SumFunctionOnSet(v, A) <= SumFunctionOnSet(w, A)
      BY <1>2 DEF Numbers
    <3> QED
      BY <3>1, <3>2, <3>3
  <2> QED
    BY <2>1, <2>2
<1> HIDE DEF T
<1>3. S \in T
  BY <1>1, <1>2, FiniteInduct DEF Numbers
<1> QED
  BY <1>3 DEF T

(* Sets without a common element add up.                                   *)
LEMMA SumUnion ==
  ASSUME NEW w, NEW R, NEW S, Numbers(w, R \cup S), R \cap S = {}
  PROVE  /\ Numbers(w, R) /\ Numbers(w, S)
         /\ SumFunctionOnSet(w, R \cup S)
              = SumFunctionOnSet(w, R) + SumFunctionOnSet(w, S)
<1>1. Numbers(w, R) /\ Numbers(w, S)
  BY FS_Subset DEF Numbers
<1> DEFINE T == {A \in SUBSET S : SumFunctionOnSet(w, R \cup A)
                                    = SumFunctionOnSet(w, R) + SumFunctionOnSet(w, A)}
<1>2. {} \in T
  <2>1. R \cup {} = R /\ SumFunctionOnSet(w, {}) = 0 /\ SumFunctionOnSet(w, R) \in Int
    BY <1>1, SumEmpty, SumInt
  <2> QED
    BY <2>1
<1>3. ASSUME NEW A \in SUBSET S, NEW x \in S, A \in T PROVE A \cup {x} \in T
  <2>1. CASE x \in A
    <3>1. A \cup {x} = A
      BY <2>1
    <3> QED
      BY <1>3, <3>1
  <2>2. CASE x \notin A
    <3>1. /\ A \cup {x} \in SUBSET S /\ Numbers(w, A \cup {x})
          /\ R \cup (A \cup {x}) = (R \cup A) \cup {x} /\ x \notin R \cup A
          /\ Numbers(w, (R \cup A) \cup {x})
      <4>1. A \cup {x} \in SUBSET (R \cup S) /\ (R \cup A) \cup {x} \in SUBSET (R \cup S)
        OBVIOUS
      <4>2. IsFiniteSet(A \cup {x}) /\ IsFiniteSet((R \cup A) \cup {x})
        BY <4>1, FS_Subset DEF Numbers
      <4> QED
        BY <2>2, <4>1, <4>2 DEF Numbers
    <3>2. /\ SumFunctionOnSet(w, A \cup {x}) = SumFunctionOnSet(w, A) + w[x]
          /\ SumFunctionOnSet(w, A) \in Int
      BY <2>2, <3>1, SumAdd
    <3>3. SumFunctionOnSet(w, (R \cup A) \cup {x}) = SumFunctionOnSet(w, R \cup A) + w[x]
      BY <3>1, SumAdd
    <3>4. /\ SumFunctionOnSet(w, R \cup A)
               = SumFunctionOnSet(w, R) + SumFunctionOnSet(w, A)
          /\ w[x] \in Int /\ SumFunctionOnSet(w, R) \in Int
      BY <1>1, <1>3, SumInt DEF Numbers
    <3>5. SumFunctionOnSet(w, R \cup (A \cup {x}))
            = SumFunctionOnSet(w, R) + SumFunctionOnSet(w, A \cup {x})
      <4>1. R \cup (A \cup {x}) = (R \cup A) \cup {x}
        OBVIOUS
      <4>2. SumFunctionOnSet(w, R \cup (A \cup {x})) = SumFunctionOnSet(w, R \cup A) + w[x]
        BY <3>3, <4>1
      <4> QED
        BY <3>2, <3>4, <4>2
    <3> QED
      BY <3>1, <3>5
  <2> QED
    BY <2>1, <2>2
<1> HIDE DEF T
<1>4. S \in T
  BY <1>1, <1>2, <1>3, FiniteInduct DEF Numbers
<1> QED
  BY <1>1, <1>4 DEF T

(* What counts nowhere below nothing adds up to no less.                   *)
LEMMA SumNat ==
  ASSUME NEW w, NEW S, IsFiniteSet(S), \A x \in S : w[x] \in Nat
  PROVE  Numbers(w, S) /\ SumFunctionOnSet(w, S) \in Nat
<1> DEFINE T == {A \in SUBSET S : SumFunctionOnSet(w, A) \in Nat}
<1>1. Numbers(w, S)
  BY DEF Numbers
<1>2. {} \in T
  BY SumEmpty
<1>3. ASSUME NEW A \in SUBSET S, NEW x \in S, A \in T PROVE A \cup {x} \in T
  <2>1. CASE x \in A
    <3>1. A \cup {x} = A
      BY <2>1
    <3> QED
      BY <1>3, <3>1
  <2>2. CASE x \notin A
    <3>1. A \cup {x} \in SUBSET S /\ Numbers(w, A \cup {x})
      BY FS_Subset DEF Numbers
    <3>2. SumFunctionOnSet(w, A \cup {x}) = SumFunctionOnSet(w, A) + w[x]
      BY <2>2, <3>1, SumAdd
    <3> QED
      BY <1>3, <3>1, <3>2
  <2> QED
    BY <2>1, <2>2
<1> HIDE DEF T
<1>4. S \in T
  BY <1>2, <1>3, FiniteInduct
<1> QED
  BY <1>1, <1>4 DEF T
(* Nothing but zeroes adds up to nothing.                                  *)
LEMMA SumZero ==
  ASSUME NEW w, NEW S, IsFiniteSet(S), \A x \in S : w[x] = 0
  PROVE  SumFunctionOnSet(w, S) = 0
<1> DEFINE T == {A \in SUBSET S : SumFunctionOnSet(w, A) = 0}
<1>1. {} \in T
  BY SumEmpty
<1>2. ASSUME NEW A \in SUBSET S, NEW x \in S, A \in T PROVE A \cup {x} \in T
  <2>1. CASE x \in A
    <3>1. A \cup {x} = A
      BY <2>1
    <3> QED
      BY <1>2, <3>1
  <2>2. CASE x \notin A
    <3>1. A \cup {x} \in SUBSET S /\ Numbers(w, A \cup {x})
      BY FS_Subset DEF Numbers
    <3>2. SumFunctionOnSet(w, A \cup {x}) = SumFunctionOnSet(w, A) + w[x]
      BY <2>2, <3>1, SumAdd
    <3> QED
      BY <1>2, <3>1, <3>2
  <2> QED
    BY <2>1, <2>2
<1> HIDE DEF T
<1>3. S \in T
  BY <1>1, <1>2, FiniteInduct
<1> QED
  BY <1>3 DEF T

(* Where one element counts otherwise, the sum changes by the difference.  *)
LEMMA SumChange ==
  ASSUME NEW v, NEW w, NEW S, NEW c \in S, Numbers(w, S), v[c] \in Int,
         \A x \in S : x # c => v[x] = w[x]
  PROVE  /\ Numbers(v, S) /\ SumFunctionOnSet(v, S) \in Int
         /\ SumFunctionOnSet(w, S) \in Int
         /\ SumFunctionOnSet(v, S) = SumFunctionOnSet(w, S) - w[c] + v[c]
<1> DEFINE R == S \ {c}
<1>1. Numbers(v, S)
  BY DEF Numbers
<1>2. Numbers(w, R) /\ R \in SUBSET S
  BY FS_Subset DEF Numbers
<1>3. SumFunctionOnSet(v, R) = SumFunctionOnSet(w, R) /\ SumFunctionOnSet(w, R) \in Int
  BY <1>2, SumAgree, SumInt
<1>4. /\ SumFunctionOnSet(v, S) = v[c] + SumFunctionOnSet(v, R)
      /\ SumFunctionOnSet(w, S) = w[c] + SumFunctionOnSet(w, R)
  BY <1>1, SumElements DEF Numbers
<1>5. w[c] \in Int
  BY DEF Numbers
<1> QED
  BY <1>1, <1>3, <1>4, <1>5

(* A sum over a part is one over the whole, where the rest counts nothing. *)
LEMMA SumOnPart ==
  ASSUME NEW f, NEW S, NEW U \in SUBSET S, IsFiniteSet(S), \A x \in U : f[x] \in Int
  PROVE  SumFunctionOnSet(f, U)
           = SumFunctionOnSet([x \in S |-> IF x \in U THEN f[x] ELSE 0], S)
<1> DEFINE g == [x \in S |-> IF x \in U THEN f[x] ELSE 0]
           R == S \ U
<1>1. /\ \A x \in U : g[x] = f[x]
      /\ \A x \in R : g[x] = 0
      /\ \A x \in S : g[x] \in Int
      /\ U \cup R = S /\ U \cap R = {}
  OBVIOUS
<1> HIDE DEF g
<1>2. Numbers(g, U \cup R) /\ Numbers(f, U) /\ IsFiniteSet(R)
  BY <1>1, FS_Subset DEF Numbers
<1>3. SumFunctionOnSet(g, S) = SumFunctionOnSet(g, U) + SumFunctionOnSet(g, R)
  BY <1>1, <1>2, SumUnion
<1>4. SumFunctionOnSet(g, R) = 0
  BY <1>1, <1>2, SumZero
<1>5. SumFunctionOnSet(g, U) = SumFunctionOnSet(f, U) /\ SumFunctionOnSet(f, U) \in Int
  BY <1>1, <1>2, SumAgree, SumInt
<1>6. SumFunctionOnSet(g, S) = SumFunctionOnSet(f, U)
  BY <1>3, <1>4, <1>5
<1> QED
  BY <1>6 DEF g
===============================================================================
