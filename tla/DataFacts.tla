------------------------------ MODULE DataFacts ------------------------------
(***************************************************************************)
(* Facts about data the proofs share: sequences that are built one element *)
(* at a time, smallest elements, and sums over finite sets                 *)
(* (SumFunctionOnSet of Functions).                                        *)
(*                                                                         *)
(* A sum is defined by a CHOOSE of the function that satisfies its         *)
(* recursion equation, so the lemmas first show that there is such a       *)
(* function.  Inductions are on the counterexamples: a set of them that is *)
(* not empty has a smallest element, and the step excludes that one.       *)
(***************************************************************************)
EXTENDS Integers, Sequences, FiniteSetsExt, FiniteSetTheorems, WellFoundedInduction, TLAPS
-----------------------------------------------------------------------------
(* Sequences.                                                              *)

\* A function on 1..n is a sequence of length n.
LEMMA FunctionIsSequence ==
    ASSUME NEW n \in Nat, NEW S, NEW f \in [1..n -> S]
    PROVE  f \in Seq(S) /\ Len(f) = n
<1>1. DOMAIN f = 1..n /\ \A i \in 1..n : f[i] \in S OBVIOUS
<1>2. f \in Seq(S) OBVIOUS
<1>3. DOMAIN f = 1..Len(f) /\ Len(f) \in Nat BY <1>2
<1>4. Len(f) = n BY <1>1, <1>3
<1> QED BY <1>2, <1>4

\* A sequence one longer that agrees with another is that one with its last
\* element appended.
LEMMA LongerIsAppend ==
    ASSUME NEW n \in Nat, NEW S, NEW f \in [1..n -> S], NEW g \in [1..(n + 1) -> S],
           \A i \in 1..n : g[i] = f[i]
    PROVE  g = Append(f, g[n + 1])
<1> DEFINE e == g[n + 1]
<1>1. e \in S OBVIOUS
<1>2. f \in Seq(S) /\ Len(f) = n BY FunctionIsSequence
<1>3. g \in Seq(S) /\ Len(g) = n + 1
  <2>1. n + 1 \in Nat OBVIOUS
  <2> QED BY <2>1, FunctionIsSequence
<1> HIDE DEF e
<1>4. /\ Append(f, e) \in Seq(S) /\ Len(Append(f, e)) = n + 1
      /\ Append(f, e)[n + 1] = e
      /\ \A i \in 1..n : Append(f, e)[i] = f[i]
  BY <1>1, <1>2
<1>5. \A i \in 1..(n + 1) : g[i] = Append(f, e)[i] BY <1>4 DEF e
<1>6. g = Append(f, e) BY <1>3, <1>4, <1>5
<1> QED BY <1>6 DEF e

\* A function on the empty segment is the empty sequence.
LEMMA FunctionOnNothing ==
    ASSUME NEW f, f \in [1..0 -> {}]
    PROVE  f = <<>>
<1>1. f \in Seq({}) /\ Len(f) = 0 BY FunctionIsSequence
<1> QED BY <1>1

\* A sequence one shorter that agrees with another is that one without its last element.
LEMMA ShorterIsSubSeq ==
    ASSUME NEW n \in Nat, NEW S, NEW f \in [1..(n + 1) -> S], NEW g \in [1..n -> S],
           \A i \in 1..n : g[i] = f[i]
    PROVE  Len(f) = n + 1 /\ g = SubSeq(f, 1, Len(f) - 1)
<1>1. g \in Seq(S) /\ Len(g) = n BY FunctionIsSequence
<1>2. f \in Seq(S) /\ Len(f) = n + 1
  <2>1. n + 1 \in Nat OBVIOUS
  <2> QED BY <2>1, FunctionIsSequence
<1>3. /\ SubSeq(f, 1, n) \in Seq(S) /\ Len(SubSeq(f, 1, n)) = n
      /\ \A i \in 1..n : SubSeq(f, 1, n)[i] = f[i]
  BY <1>2
<1>4. g = SubSeq(f, 1, n) BY <1>1, <1>3
<1>5. Len(f) - 1 = n BY <1>2
<1> QED BY <1>2, <1>4, <1>5
-----------------------------------------------------------------------------
(* Smallest elements.                                                      *)

\* A set of naturals that is not empty has a smallest element.
LEMMA LeastNatural ==
    ASSUME NEW T, T \subseteq Nat, T # {}
    PROVE  \E m \in T : \A n \in T : m <= n
<1> DEFINE less == OpToRel(<, Nat)
<1>1. IsWellFoundedOn(less, Nat) BY NatLessThanWellFounded
<1>2. \A x, y \in Nat : <<y, x>> \in less <=> y < x BY DEF OpToRel
<1> HIDE DEF less
<1>3. PICK m \in T : \A n \in T : ~ (<<n, m>> \in less) BY <1>1, WFMin
<1>4. ASSUME NEW n \in T PROVE m <= n
  <2>1. m \in Nat /\ n \in Nat OBVIOUS
  <2>2. ~ (n < m) BY <1>2, <1>3, <2>1
  <2> QED BY <2>1, <2>2
<1> QED BY <1>4

\* A bounded set of naturals that is not empty has a largest element.
LEMMA LargestExists ==
    ASSUME NEW len \in Nat, NEW E, E \subseteq 0..len, E # {}
    PROVE  \E m \in E : \A n \in E : n <= m
<1> DEFINE below == {len - n : n \in E}
<1>1. below \subseteq Nat /\ below # {}
  <2>1. ASSUME NEW n \in E PROVE len - n \in Nat
    <3>1. n \in 0..len OBVIOUS
    <3> QED BY <3>1
  <2>2. below # {} OBVIOUS
  <2> QED BY <2>1, <2>2
<1>2. PICK x \in below : \A y \in below : x <= y
  <2> HIDE DEF below
  <2> QED BY <1>1, LeastNatural
<1>3. PICK m \in E : x = len - m OBVIOUS
<1>4. ASSUME NEW n \in E PROVE n <= m
  <2>1. len - n \in below OBVIOUS
  <2>2. len - m <= len - n BY <2>1, <1>2, <1>3
  <2>3. m \in Int /\ n \in Int OBVIOUS
  <2> QED BY <2>2, <2>3
<1> QED BY <1>4

\* Among subsets of a finite set there is one none of whose proper subsets is
\* among them.
LEMMA SmallestSubset ==
    ASSUME NEW S, IsFiniteSet(S), NEW B, B \subseteq SUBSET S, B # {}
    PROVE  \E s \in B : \A t \in B : t \subseteq s => t = s
<1> DEFINE sizes == {Cardinality(s) : s \in B}
<1>1. \A s \in B : IsFiniteSet(s) /\ Cardinality(s) \in Nat
  BY FS_Subset, FS_CardinalityType
<1>2. sizes \subseteq Nat /\ sizes # {} BY <1>1
<1>3. PICK m \in sizes : \A n \in sizes : m <= n
  <2> HIDE DEF sizes
  <2> QED BY <1>2, LeastNatural
<1>4. PICK s \in B : m = Cardinality(s) OBVIOUS
<1>5. ASSUME NEW t \in B, t \subseteq s PROVE t = s
  <2>1. Cardinality(s) <= Cardinality(t) BY <1>3, <1>4
  <2>2. IsFiniteSet(s) /\ t \in SUBSET s BY <1>1, <1>5
  <2>3. Cardinality(t) <= Cardinality(s) /\ (Cardinality(s) = Cardinality(t) => s = t)
    BY <2>2, FS_Subset
  <2> QED BY <1>1, <2>1, <2>3
<1> QED BY <1>5

\* The values of a function on a finite set are finitely many.
LEMMA ImageIsFinite ==
    ASSUME NEW S, IsFiniteSet(S), NEW f
    PROVE  IsFiniteSet({f[x] : x \in S})
<1> DEFINE T == {f[x] : x \in S}
           g == [x \in S |-> f[x]]
<1>1. g \in [S -> T] /\ \A t \in T : \E x \in S : g[x] = t OBVIOUS
<1> HIDE DEF g, T
<1>2. g \in Surjection(S, T) BY <1>1 DEF Surjection
<1>3. IsFiniteSet(T) BY <1>2, FS_Surjection
<1> QED BY <1>3 DEF T
-----------------------------------------------------------------------------
(* Sums.                                                                   *)

\* The element a sum adds first.
AnElement(s) == CHOOSE x \in s : TRUE

\* A set that is not empty has an element to choose.
LEMMA AnElementIsMember == ASSUME NEW s, s # {} PROVE AnElement(s) \in s
BY DEF AnElement

\* The recursion equation of a sum, on a family D of sets.
SumsOn(D, f, g) ==
    g = [s \in D |-> IF s = {} THEN 0 ELSE f[AnElement(s)] + g[s \ {AnElement(s)}]]

\* A sum is a value of some function that satisfies its equation.
LEMMA SumIsChosen ==
    ASSUME NEW f, NEW S
    PROVE  SumFunctionOnSet(f, S) = (CHOOSE g : SumsOn(SUBSET S, f, g))[S]
BY DEF SumFunctionOnSet, FoldFunctionOnSet, MapThenFoldSet, SumsOn, AnElement

\* On a finite set the equation has a solution: one for the subsets of at most n
\* elements extends to those of n + 1.
LEMMA SumsExist ==
    ASSUME NEW S, IsFiniteSet(S), NEW f
    PROVE  \E g : SumsOn(SUBSET S, f, g)
<1> DEFINE Small(n) == {s \in SUBSET S : Cardinality(s) <= n}
           bad == {n \in Nat : ~ \E g : SumsOn(Small(n), f, g)}
<1>1. ASSUME NEW s \in SUBSET S
      PROVE  /\ Cardinality(s) \in Nat /\ Cardinality(s) <= Cardinality(S)
             /\ Cardinality(s) = 0 <=> s = {}
             /\ s # {} => Cardinality(s \ {AnElement(s)}) = Cardinality(s) - 1
  <2>1. IsFiniteSet(s) /\ Cardinality(s) <= Cardinality(S) BY FS_Subset
  <2>2. s # {} => AnElement(s) \in s BY AnElementIsMember
  <2> QED BY <2>1, <2>2, FS_CardinalityType, FS_EmptySet, FS_RemoveElement
<1>2. \E g : SumsOn(Small(0), f, g)
  <2>1. ASSUME NEW s \in Small(0) PROVE s = {}
    <3>1. s \in SUBSET S /\ Cardinality(s) <= 0 OBVIOUS
    <3>2. Cardinality(s) \in Nat /\ (Cardinality(s) = 0 <=> s = {}) BY <1>1, <3>1
    <3> QED BY <3>1, <3>2
  <2> DEFINE g == [s \in Small(0) |-> 0]
  <2> HIDE DEF Small
  <2>2. SumsOn(Small(0), f, g) BY <2>1 DEF SumsOn
  <2> QED BY <2>2
<1>3. ASSUME NEW n \in Nat, NEW g, SumsOn(Small(n), f, g)
      PROVE  \E h : SumsOn(Small(n + 1), f, h)
  <2> DEFINE h == [s \in Small(n + 1) |->
                      IF s = {} THEN 0 ELSE f[AnElement(s)] + g[s \ {AnElement(s)}]]
  <2>1. ASSUME NEW s \in Small(n + 1), s # {} PROVE g[s \ {AnElement(s)}] = h[s \ {AnElement(s)}]
    <3> DEFINE t == s \ {AnElement(s)}
    <3>1. t \in Small(n)
      <4>1. Cardinality(t) = Cardinality(s) - 1 /\ Cardinality(s) \in Nat
        BY <1>1, <2>1
      <4> QED BY <2>1, <4>1
    <3>2. t \in Small(n + 1) BY <1>1, <3>1
    <3>3. g[t] = IF t = {} THEN 0 ELSE f[AnElement(t)] + g[t \ {AnElement(t)}]
      BY <1>3, <3>1 DEF SumsOn
    <3>4. h[t] = IF t = {} THEN 0 ELSE f[AnElement(t)] + g[t \ {AnElement(t)}] BY <3>2
    <3> QED BY <3>3, <3>4
  <2>2. h = [s \in Small(n + 1) |-> IF s = {} THEN 0 ELSE f[AnElement(s)] + h[s \ {AnElement(s)}]]
    BY <2>1
  <2> QED BY <2>2 DEF SumsOn
<1>4. bad = {}
  <2> SUFFICES ASSUME bad # {} PROVE FALSE OBVIOUS
  <2>1. PICK m \in bad : \A n \in bad : m <= n
    <3>1. bad \subseteq Nat OBVIOUS
    <3> HIDE DEF bad
    <3> QED BY <3>1, LeastNatural
  <2>2. m # 0 BY <1>2
  <2>3. m - 1 \in Nat /\ m - 1 \notin bad /\ (m - 1) + 1 = m
    <3>1. m \in Nat OBVIOUS
    <3>2. ~ (m <= m - 1) BY <3>1
    <3> HIDE DEF bad
    <3> QED BY <2>1, <2>2, <3>1, <3>2
  <2>4. PICK g : SumsOn(Small(m - 1), f, g) BY <2>3
  <2>5. \E h : SumsOn(Small((m - 1) + 1), f, h)
    <3> HIDE DEF Small, bad
    <3> QED BY <1>3, <2>3, <2>4
  <2> QED BY <2>1, <2>3, <2>5
<1>5. Cardinality(S) \in Nat /\ Small(Cardinality(S)) = SUBSET S
  BY <1>1, FS_CardinalityType
<1>6. \E g : SumsOn(Small(Cardinality(S)), f, g) BY <1>4, <1>5
<1> HIDE DEF Small
<1> QED BY <1>5, <1>6

\* The sum of a subset does not depend on the set they were taken from.
LEMMA SumsAgree ==
    ASSUME NEW S, NEW T, NEW f, NEW g, NEW h, IsFiniteSet(S), T \subseteq S,
           SumsOn(SUBSET S, f, g), SumsOn(SUBSET T, f, h)
    PROVE  g[T] = h[T]
<1> DEFINE bad == {s \in SUBSET T : g[s] # h[s]}
<1> SUFFICES ASSUME bad # {} PROVE FALSE OBVIOUS
<1>1. IsFiniteSet(T) BY FS_Subset
<1>2. PICK s \in bad : \A t \in bad : t \subseteq s => t = s
  <2>1. bad \subseteq SUBSET T OBVIOUS
  <2> HIDE DEF bad
  <2> QED BY <1>1, <2>1, SmallestSubset
<1>3. s \in SUBSET T /\ s \in SUBSET S /\ g[s] # h[s] OBVIOUS
<1>4. /\ g[s] = IF s = {} THEN 0 ELSE f[AnElement(s)] + g[s \ {AnElement(s)}]
      /\ h[s] = IF s = {} THEN 0 ELSE f[AnElement(s)] + h[s \ {AnElement(s)}]
  BY <1>3 DEF SumsOn
<1>5. s # {} BY <1>3, <1>4
<1>6. s \ {AnElement(s)} \notin bad
  <2>1. AnElement(s) \in s BY <1>5, AnElementIsMember
  <2> HIDE DEF bad
  <2> QED BY <1>2, <2>1
<1> QED BY <1>3, <1>4, <1>5, <1>6

\* The empty sum is 0.
LEMMA SumOfNothing == ASSUME NEW f PROVE SumFunctionOnSet(f, {}) = 0
<1>1. \E g : SumsOn(SUBSET {}, f, g) BY SumsExist, FS_EmptySet
<1> DEFINE g == CHOOSE g : SumsOn(SUBSET {}, f, g)
<1>2. SumsOn(SUBSET {}, f, g) BY <1>1
<1>3. g[{}] = 0
  <2> HIDE DEF g
  <2> QED BY <1>2 DEF SumsOn
<1> QED BY <1>3, SumIsChosen

\* So the sum itself satisfies the equation.
LEMMA SumSatisfiesEquation ==
    ASSUME NEW S, IsFiniteSet(S), NEW f
    PROVE  \E g : SumsOn(SUBSET S, f, g) /\ SumFunctionOnSet(f, S) = g[S]
<1> DEFINE g == CHOOSE g : SumsOn(SUBSET S, f, g)
<1>1. SumsOn(SUBSET S, f, g) BY SumsExist
<1>2. SumFunctionOnSet(f, S) = g[S] BY SumIsChosen
<1> HIDE DEF g
<1> QED BY <1>1, <1>2

\* The recursion equation of a sum.
LEMMA SumUnfolds ==
    ASSUME NEW S, IsFiniteSet(S), S # {}, NEW f
    PROVE  SumFunctionOnSet(f, S) = f[AnElement(S)] + SumFunctionOnSet(f, S \ {AnElement(S)})
<1> DEFINE T == S \ {AnElement(S)}
<1>1. IsFiniteSet(T) /\ T \subseteq S BY FS_Subset
<1>2. PICK g : SumsOn(SUBSET S, f, g) /\ SumFunctionOnSet(f, S) = g[S]
  BY SumSatisfiesEquation
<1> HIDE DEF T
<1>3. PICK h : SumsOn(SUBSET T, f, h) /\ SumFunctionOnSet(f, T) = h[T]
  BY <1>1, SumSatisfiesEquation
<1>4. g[T] = h[T]
  <2>1. IsFiniteSet(S) /\ T \subseteq S /\ SumsOn(SUBSET S, f, g) /\ SumsOn(SUBSET T, f, h)
    BY <1>1, <1>2, <1>3
  <2> QED BY ONLY <2>1, SumsAgree
<1>5. g[S] = f[AnElement(S)] + g[T] BY <1>2 DEF SumsOn, T
<1> QED BY <1>2, <1>3, <1>4, <1>5 DEF T

\* A sum of naturals is a natural.
LEMMA SumIsNatural ==
    ASSUME NEW S, IsFiniteSet(S), NEW f, \A x \in S : f[x] \in Nat
    PROVE  SumFunctionOnSet(f, S) \in Nat
<1> DEFINE bad == {s \in SUBSET S : SumFunctionOnSet(f, s) \notin Nat}
<1> SUFFICES ASSUME bad # {} PROVE FALSE OBVIOUS
<1>1. PICK s \in bad : \A t \in bad : t \subseteq s => t = s
  <2>1. bad \subseteq SUBSET S OBVIOUS
  <2> HIDE DEF bad
  <2> QED BY <2>1, SmallestSubset
<1>2. s # {} BY SumOfNothing
<1>3. AnElement(s) \in s BY <1>2, AnElementIsMember
<1>4. SumFunctionOnSet(f, s \ {AnElement(s)}) \in Nat
  <2>1. s \ {AnElement(s)} \notin bad
    <3> HIDE DEF bad
    <3> QED BY <1>1, <1>3
  <2> QED BY <2>1
<1>5. IsFiniteSet(s) BY FS_Subset
<1>6. f[AnElement(s)] \in Nat BY <1>3
<1>7. SumFunctionOnSet(f, s) = f[AnElement(s)] + SumFunctionOnSet(f, s \ {AnElement(s)})
  BY <1>2, <1>5, SumUnfolds
<1> QED BY <1>4, <1>6, <1>7

\* Only the values at the elements of the set count.
LEMMA SumDependsOnValues ==
    ASSUME NEW S, IsFiniteSet(S), NEW f, NEW g, \A x \in S : f[x] = g[x]
    PROVE  SumFunctionOnSet(f, S) = SumFunctionOnSet(g, S)
<1> DEFINE bad == {s \in SUBSET S : SumFunctionOnSet(f, s) # SumFunctionOnSet(g, s)}
<1> SUFFICES ASSUME bad # {} PROVE FALSE OBVIOUS
<1>1. PICK s \in bad : \A t \in bad : t \subseteq s => t = s
  <2>1. bad \subseteq SUBSET S OBVIOUS
  <2> HIDE DEF bad
  <2> QED BY <2>1, SmallestSubset
<1>2. s # {} BY SumOfNothing
<1>3. AnElement(s) \in s BY <1>2, AnElementIsMember
<1>4. SumFunctionOnSet(f, s \ {AnElement(s)}) = SumFunctionOnSet(g, s \ {AnElement(s)})
  <2>1. s \ {AnElement(s)} \notin bad
    <3> HIDE DEF bad
    <3> QED BY <1>1, <1>3
  <2> QED BY <2>1
<1>5. IsFiniteSet(s) BY FS_Subset
<1>6. f[AnElement(s)] = g[AnElement(s)] BY <1>3
<1>7. /\ SumFunctionOnSet(f, s) = f[AnElement(s)] + SumFunctionOnSet(f, s \ {AnElement(s)})
      /\ SumFunctionOnSet(g, s) = g[AnElement(s)] + SumFunctionOnSet(g, s \ {AnElement(s)})
  BY <1>2, <1>5, SumUnfolds
<1> QED BY <1>4, <1>6, <1>7

\* Any element may be the one that is taken out.
LEMMA SumSplits ==
    ASSUME NEW S, IsFiniteSet(S), NEW f, \A x \in S : f[x] \in Nat
    PROVE  \A x \in S : SumFunctionOnSet(f, S) = f[x] + SumFunctionOnSet(f, S \ {x})
<1> DEFINE Sum(s) == SumFunctionOnSet(f, s)
           bad == {s \in SUBSET S : \E x \in s : Sum(s) # f[x] + Sum(s \ {x})}
<1> SUFFICES ASSUME bad # {} PROVE FALSE OBVIOUS
<1>1. PICK s \in bad : \A t \in bad : t \subseteq s => t = s
  <2>1. bad \subseteq SUBSET S OBVIOUS
  <2> HIDE DEF bad
  <2> QED BY <2>1, SmallestSubset
<1>2. PICK x \in s : Sum(s) # f[x] + Sum(s \ {x}) OBVIOUS
<1>3. ASSUME NEW t \in SUBSET S
      PROVE  /\ IsFiniteSet(t) /\ Sum(t) \in Nat
             /\ t # {} => Sum(t) = f[AnElement(t)] + Sum(t \ {AnElement(t)})
  <2>1. IsFiniteSet(t) /\ \A z \in t : f[z] \in Nat BY FS_Subset
  <2> QED BY <2>1, SumIsNatural, SumUnfolds
<1>4. PICK y \in s : y = AnElement(s) BY <1>2, AnElementIsMember
<1>5. s \in SUBSET S /\ x \in S /\ y \in S OBVIOUS
<1> HIDE DEF Sum
<1>6. Sum(s) = f[y] + Sum(s \ {y}) BY <1>2, <1>3, <1>4, <1>5
<1>7. x # y BY <1>2, <1>6
<1>8. /\ Sum(s \ {y}) = f[x] + Sum((s \ {y}) \ {x})
      /\ Sum(s \ {x}) = f[y] + Sum((s \ {x}) \ {y})
  <2>1. /\ s \ {y} \notin bad /\ s \ {y} \in SUBSET S /\ x \in s \ {y}
        /\ s \ {x} \notin bad /\ s \ {x} \in SUBSET S /\ y \in s \ {x}
    <3> HIDE DEF bad
    <3> QED BY <1>1, <1>2, <1>4, <1>5, <1>7
  <2> QED BY <2>1
<1> DEFINE rest == Sum((s \ {x}) \ {y})
<1>9. (s \ {y}) \ {x} = (s \ {x}) \ {y} OBVIOUS
<1>10. rest \in Nat /\ f[x] \in Nat /\ f[y] \in Nat
  <2>1. (s \ {x}) \ {y} \in SUBSET S BY <1>5
  <2> QED BY <1>3, <1>5, <2>1
<1>11. Sum(s) = f[y] + (f[x] + rest) /\ Sum(s \ {x}) = f[y] + rest
  BY <1>6, <1>8, <1>9
<1> HIDE DEF rest
<1> QED BY <1>2, <1>10, <1>11

\* One element more adds its value, whatever else the functions differ in.
LEMMA SumAdds ==
    ASSUME NEW S, IsFiniteSet(S), NEW x, x \notin S, NEW f, NEW g, g[x] \in Nat,
           \A y \in S : f[y] \in Nat /\ g[y] = f[y]
    PROVE  SumFunctionOnSet(g, S \cup {x}) = g[x] + SumFunctionOnSet(f, S)
<1> DEFINE T == S \cup {x}
<1>1. IsFiniteSet(T) BY FS_AddElement
<1>2. x \in T /\ T \ {x} = S /\ \A y \in T : g[y] \in Nat OBVIOUS
<1> HIDE DEF T
<1>3. SumFunctionOnSet(g, T) = g[x] + SumFunctionOnSet(g, S) BY <1>1, <1>2, SumSplits
<1>4. SumFunctionOnSet(g, S) = SumFunctionOnSet(f, S) BY SumDependsOnValues
<1> QED BY <1>3, <1>4 DEF T
-----------------------------------------------------------------------------
(* Largest elements.                                                       *)

\* The largest of a bounded set of naturals is in it and bounds it.
LEMMA MaxIsLargest ==
    ASSUME NEW len \in Nat, NEW E, E \subseteq 0..len, E # {}
    PROVE  Max(E) \in E /\ \A n \in E : n <= Max(E)
<1>1. PICK m \in E : \A n \in E : n <= m BY LargestExists
<1>2. \A n \in E : n \in Int OBVIOUS
<1>3. \A n \in E : m >= n BY <1>1, <1>2
<1>4. Max(E) \in E /\ \A n \in E : Max(E) >= n BY <1>3 DEF Max
<1> QED BY <1>2, <1>4

\* One element more leaves the largest or is it.
LEMMA MaxGrows ==
    ASSUME NEW len \in Nat, NEW E, E \subseteq 0..len, NEW x \in 0..len
    PROVE  Max(E \cup {x}) =
               IF E = {} THEN x ELSE IF Max(E) >= x THEN Max(E) ELSE x
<1> DEFINE F == E \cup {x}
<1>1. F \subseteq 0..len /\ F # {} OBVIOUS
<1>2. Max(F) \in F /\ \A n \in F : n <= Max(F)
  <2> HIDE DEF F
  <2> QED BY <1>1, MaxIsLargest
<1>3. E # {} => Max(E) \in E /\ \A n \in E : n <= Max(E) BY MaxIsLargest
<1>4. \A n \in F : n \in Int OBVIOUS
<1>5. (Max(F) \in E \/ Max(F) = x) /\ x <= Max(F) /\ \A n \in E : n <= Max(F) BY <1>2
<1>6. CASE E = {}
  <2>1. Max(F) = x BY <1>5, <1>6
  <2> QED BY <1>6, <2>1
<1>7. CASE E # {}
  <2> DEFINE new == Max(F)
             old == Max(E)
  <2>1. /\ old \in E /\ (\A n \in E : n <= old) /\ (new \in E \/ new = x) /\ x <= new
        /\ \A n \in E : n <= new
    BY <1>3, <1>5, <1>7
  <2>2. old \in Int /\ new \in Int /\ x \in Int BY <1>2, <1>3, <1>4, <1>7
  <2> HIDE DEF old, new
  <2>3. old <= new /\ (new <= old \/ new = x) BY <2>1
  <2>4. new = IF old >= x THEN old ELSE x BY <2>1, <2>2, <2>3
  <2> QED BY <1>7, <2>4 DEF old, new
<1> QED BY <1>6, <1>7

\* Finitely many naturals have a bound: were it not so, a smallest set without one
\* would lose only an element by losing its boundlessness.
LEMMA FiniteIsBounded ==
    ASSUME NEW S, IsFiniteSet(S), S \subseteq Nat
    PROVE  \E len \in Nat : S \subseteq 0..len
<1> DEFINE bad == {t \in SUBSET S : ~ \E len \in Nat : t \subseteq 0..len}
<1> SUFFICES ASSUME bad # {} PROVE FALSE OBVIOUS
<1>2. bad \subseteq SUBSET S OBVIOUS
<1>3. PICK s \in bad : \A t \in bad : t \subseteq s => t = s
  <2>1. IsFiniteSet(S) /\ bad \subseteq SUBSET S /\ bad # {} BY <1>2
  <2> HIDE DEF bad
  <2> QED BY ONLY <2>1, SmallestSubset
<1>4. s # {} /\ s \subseteq Nat
  <2>1. {} \subseteq 0..0 OBVIOUS
  <2> QED BY <2>1
<1>5. PICK x \in s : TRUE BY <1>4
<1>6. s \ {x} \notin bad BY <1>3, <1>5
<1>7. PICK len \in Nat : s \ {x} \subseteq 0..len BY <1>6
<1>8. x \in Nat /\ len + x \in Nat BY <1>4
<1>9. \A y \in s : y \in 0..(len + x)
  <2> SUFFICES ASSUME NEW y \in s PROVE y \in 0..(len + x) OBVIOUS
  <2>1. y \in Nat /\ (y = x \/ y \in 0..len) BY <1>4, <1>7
  <2> QED BY ONLY <2>1, <1>8, len \in Nat
<1> QED BY <1>8, <1>9

=============================================================================
