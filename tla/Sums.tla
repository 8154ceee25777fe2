--------------------------------- MODULE Sums ---------------------------------
(***************************************************************************)
(* Sums over finite sets, which balances and limits are made of.           *)
(*                                                                         *)
(* Nothing here is about this program.  Induction is done by looking at    *)
(* the least counterexample: a set of numbers has a least one, a set of    *)
(* finite sets a smallest one.                                             *)
(***************************************************************************)
EXTENDS Integers, Functions, FiniteSetTheorems, NaturalsInduction, WellFoundedInduction, TLAPS

LEMMA LeastOf ==
  ASSUME NEW S \in SUBSET Nat, S # {}
  PROVE  \E m \in S : \A n \in S : m <= n
<1>1. IsWellFoundedOn(OpToRel(<, Nat), Nat)
  BY NatLessThanWellFounded
<1>2. PICK m \in S : \A n \in S : ~ (<<n, m>> \in OpToRel(<, Nat))
  BY <1>1, WFMin
<1>3. \A n \in S : ~ (n < m)
  BY <1>2 DEF OpToRel
<1> QED
  BY <1>3

LEMMA SmallestSet ==
  ASSUME NEW S, IsFiniteSet(S), NEW C \in SUBSET SUBSET S, C # {}
  PROVE  \E T \in C : \A U \in C : U \subseteq T => U = T
<1>1. IsWellFoundedOn(StrictSubsetOrdering(S), FiniteSubsetsOf(S))
  BY FS_StrictSubsetOrderingWellFounded
<1>2. C \subseteq FiniteSubsetsOf(S)
  BY FS_FiniteSubsetsOfFinite
<1>3. PICK T \in C : \A U \in C : ~ (<<U, T>> \in StrictSubsetOrdering(S))
  BY <1>1, <1>2, WFMin
<1>4. \A U \in C : <<U, T>> \in StrictSubsetOrdering(S) <=> U \subseteq T /\ U # T
  BY DEF StrictSubsetOrdering
<1>5. \A U \in C : U \subseteq T => U = T
  BY <1>3, <1>4
<1> QED
  BY <1>5

(***************************************************************************)
(* The sum is the recursive function that the community modules fold with. *)
(***************************************************************************)

AnyOf(s) == CHOOSE x \in s : TRUE

\* it gives the sum of every set in C.
SumsUp(f, C, it) ==
  it = [s \in C |-> IF s = {} THEN 0 ELSE f[AnyOf(s)] + it[s \ {AnyOf(s)}]]

SumsOf(f, S) == CHOOSE it : SumsUp(f, SUBSET S, it)

LEMMA SumIsFold ==
  ASSUME NEW f, NEW S
  PROVE  SumFunctionOnSet(f, S) = SumsOf(f, S)[S]
  BY DEF SumFunctionOnSet, FoldFunctionOnSet, MapThenFoldSet, SumsOf, SumsUp, AnyOf

LEMMA AnyOfIsOne ==
  ASSUME NEW s, s # {}
  PROVE  AnyOf(s) \in s
  BY DEF AnyOf

LEMMA SumsExist ==
  ASSUME NEW f, NEW S, IsFiniteSet(S)
  PROVE  SumsUp(f, SUBSET S, SumsOf(f, S))
<1> DEFINE Upto(n) == {s \in SUBSET S : Cardinality(s) <= n}
           Missing == {n \in Nat : ~ \E it : SumsUp(f, Upto(n), it)}
<1>1. \A s \in SUBSET S : IsFiniteSet(s) /\ Cardinality(s) \in Nat
                          /\ Cardinality(s) <= Cardinality(S)
  BY FS_Subset, FS_CardinalityType
<1>2. Missing = {}
  <2> SUFFICES ASSUME Missing # {} PROVE FALSE
    OBVIOUS
  <2>1. PICK n \in Missing : \A m \in Missing : n <= m
    BY LeastOf
  <2>2. CASE n = 0
    <3>1. Upto(0) = {{}}
      BY <1>1, FS_EmptySet
    <3>2. SumsUp(f, Upto(0), [s \in Upto(0) |-> 0])
      BY <3>1 DEF SumsUp
    <3> QED
      BY <2>1, <2>2, <3>2
  <2>3. CASE n # 0
    <3>1. n - 1 \in Nat /\ n - 1 \notin Missing
      <4>1. n \in Nat /\ n - 1 \in Nat /\ ~ (n <= n - 1)
        BY <2>3
      <4> HIDE DEF Missing
      <4> QED
        BY <2>1, <4>1
    <3>2. PICK it : SumsUp(f, Upto(n - 1), it)
      BY <3>1
    <3> DEFINE more == [s \in Upto(n) |-> IF s = {} THEN 0
                                          ELSE f[AnyOf(s)] + it[s \ {AnyOf(s)}]]
    <3>3. ASSUME NEW s \in Upto(n), s # {}
          PROVE  s \ {AnyOf(s)} \in Upto(n - 1) /\ s \ {AnyOf(s)} \in Upto(n)
      <4>1. AnyOf(s) \in s /\ IsFiniteSet(s) /\ Cardinality(s) <= n /\ Cardinality(s) \in Nat
        BY <1>1, <3>3, AnyOfIsOne
      <4>2. Cardinality(s \ {AnyOf(s)}) = Cardinality(s) - 1
        BY <4>1, FS_RemoveElement
      <4> QED
        BY <4>1, <4>2
    <3>4. ASSUME NEW s \in Upto(n - 1)
          PROVE  s \in Upto(n) /\ more[s] = it[s]
      <4>1. s \in Upto(n)
        BY <1>1, <3>1
      <4>2. it[s] = IF s = {} THEN 0 ELSE f[AnyOf(s)] + it[s \ {AnyOf(s)}]
        BY <3>2 DEF SumsUp
      <4> QED
        BY <4>1, <4>2
    <3>5. SumsUp(f, Upto(n), more)
      <4>1. \A s \in Upto(n) : more[s] = IF s = {} THEN 0
                                         ELSE f[AnyOf(s)] + more[s \ {AnyOf(s)}]
        BY <3>3, <3>4
      <4> HIDE DEF more
      <4>2. more = [s \in Upto(n) |-> more[s]]
        BY DEF more
      <4> QED
        BY <4>1, <4>2 DEF SumsUp
    <3> QED
      BY <2>1, <3>5
  <2> QED
    BY <2>2, <2>3
<1>3. Cardinality(S) \in Nat /\ Upto(Cardinality(S)) = SUBSET S
  BY <1>1, FS_CardinalityType
<1>4. \E it : SumsUp(f, SUBSET S, it)
  BY <1>2, <1>3
<1> QED
  BY <1>4 DEF SumsOf

\* A set is summed up alike in every set it is a part of.
LEMMA SumsAgree ==
  ASSUME NEW f, NEW S, IsFiniteSet(S), NEW T \in SUBSET S
  PROVE  SumsOf(f, S)[T] = SumFunctionOnSet(f, T)
<1> DEFINE big == SumsOf(f, S)
           small == SumsOf(f, T)
           Bad == {s \in SUBSET T : big[s] # small[s]}
<1>1. IsFiniteSet(T)
  BY FS_Subset
<1>2. SumsUp(f, SUBSET S, big) /\ SumsUp(f, SUBSET T, small)
  BY <1>1, SumsExist
<1> HIDE DEF big, small
<1>3. ASSUME NEW s \in SUBSET T
      PROVE  /\ big[s] = IF s = {} THEN 0 ELSE f[AnyOf(s)] + big[s \ {AnyOf(s)}]
             /\ small[s] = IF s = {} THEN 0 ELSE f[AnyOf(s)] + small[s \ {AnyOf(s)}]
  BY <1>2 DEF SumsUp
<1>4. Bad = {}
  <2> SUFFICES ASSUME Bad # {} PROVE FALSE
    OBVIOUS
  <2>1. PICK s \in Bad : \A u \in Bad : u \subseteq s => u = s
    <3> Bad \in SUBSET SUBSET T
      OBVIOUS
    <3> HIDE DEF Bad
    <3> QED
      BY <1>1, SmallestSet
  <2>2. s # {}
    BY <1>3
  <2>3. AnyOf(s) \in s
    BY <2>2, AnyOfIsOne
  <2>4. s \ {AnyOf(s)} \notin Bad
    BY <2>1, <2>3
  <2> QED
    BY <1>3, <2>2, <2>4
<1>5. SumFunctionOnSet(f, T) = small[T]
  BY SumIsFold DEF small
<1> QED
  BY <1>4, <1>5 DEF big

LEMMA SumOfNone ==
  ASSUME NEW f
  PROVE  SumFunctionOnSet(f, {}) = 0
<1>1. SumsUp(f, SUBSET {}, SumsOf(f, {}))
  BY SumsExist, FS_EmptySet
<1>2. {} \in SUBSET {}
  OBVIOUS
<1>3. SumsOf(f, {})[{}] = 0
  BY <1>1, <1>2 DEF SumsUp
<1> QED
  BY <1>3, SumIsFold

LEMMA SumStep ==
  ASSUME NEW f, NEW S, IsFiniteSet(S), S # {}
  PROVE  SumFunctionOnSet(f, S) = f[AnyOf(S)] + SumFunctionOnSet(f, S \ {AnyOf(S)})
<1>1. SumsUp(f, SUBSET S, SumsOf(f, S))
  BY SumsExist
<1>2. SumsOf(f, S)[S] = f[AnyOf(S)] + SumsOf(f, S)[S \ {AnyOf(S)}]
  BY <1>1 DEF SumsUp
<1>3. SumsOf(f, S)[S \ {AnyOf(S)}] = SumFunctionOnSet(f, S \ {AnyOf(S)})
  BY SumsAgree
<1> QED
  BY <1>2, <1>3, SumIsFold

\* For every part of a set: what holds of no summand holds of a sum that has
\* a summand more.
LEMMA SumIsInt ==
  ASSUME NEW f, NEW S, IsFiniteSet(S), \A x \in S : f[x] \in Int
  PROVE  SumFunctionOnSet(f, S) \in Int
<1> DEFINE Bad == {s \in SUBSET S : SumFunctionOnSet(f, s) \notin Int}
<1>1. SUFFICES ASSUME Bad # {} PROVE FALSE
  OBVIOUS
<1>2. PICK s \in Bad : \A u \in Bad : u \subseteq s => u = s
  <2> Bad \in SUBSET SUBSET S
    OBVIOUS
  <2> HIDE DEF Bad
  <2> QED
    BY <1>1, SmallestSet
<1>3. s # {} /\ IsFiniteSet(s)
  <2>1. SumFunctionOnSet(f, {}) = 0
    BY SumOfNone
  <2>2. IsFiniteSet(s)
    BY FS_Subset
  <2> QED
    BY <2>1, <2>2
<1>4. AnyOf(s) \in s
  BY <1>3, AnyOfIsOne
<1>5. SumFunctionOnSet(f, s \ {AnyOf(s)}) \in Int
  BY <1>2, <1>4
<1>6. SumFunctionOnSet(f, s) = f[AnyOf(s)] + SumFunctionOnSet(f, s \ {AnyOf(s)})
  BY <1>3, SumStep
<1> QED
  BY <1>4, <1>5, <1>6

LEMMA SumIsNat ==
  ASSUME NEW f, NEW S, IsFiniteSet(S), \A x \in S : f[x] \in Nat
  PROVE  SumFunctionOnSet(f, S) \in Nat
<1> DEFINE Bad == {s \in SUBSET S : SumFunctionOnSet(f, s) \notin Nat}
<1>1. SUFFICES ASSUME Bad # {} PROVE FALSE
  OBVIOUS
<1>2. PICK s \in Bad : \A u \in Bad : u \subseteq s => u = s
  <2> Bad \in SUBSET SUBSET S
    OBVIOUS
  <2> HIDE DEF Bad
  <2> QED
    BY <1>1, SmallestSet
<1>3. s # {} /\ IsFiniteSet(s)
  <2>1. SumFunctionOnSet(f, {}) = 0
    BY SumOfNone
  <2>2. IsFiniteSet(s)
    BY FS_Subset
  <2> QED
    BY <2>1, <2>2
<1>4. AnyOf(s) \in s
  BY <1>3, AnyOfIsOne
<1>5. SumFunctionOnSet(f, s \ {AnyOf(s)}) \in Nat
  BY <1>2, <1>4
<1>6. SumFunctionOnSet(f, s) = f[AnyOf(s)] + SumFunctionOnSet(f, s \ {AnyOf(s)})
  BY <1>3, SumStep
<1> QED
  BY <1>4, <1>5, <1>6

\* Only the summands count.
LEMMA SumOfSame ==
  ASSUME NEW f, NEW g, NEW S, IsFiniteSet(S), \A x \in S : f[x] = g[x]
  PROVE  SumFunctionOnSet(f, S) = SumFunctionOnSet(g, S)
<1> DEFINE Bad == {s \in SUBSET S : SumFunctionOnSet(f, s) # SumFunctionOnSet(g, s)}
<1>1. SUFFICES ASSUME Bad # {} PROVE FALSE
  OBVIOUS
<1>2. PICK s \in Bad : \A u \in Bad : u \subseteq s => u = s
  <2> Bad \in SUBSET SUBSET S
    OBVIOUS
  <2> HIDE DEF Bad
  <2> QED
    BY <1>1, SmallestSet
<1>3. s # {} /\ IsFiniteSet(s)
  BY SumOfNone, FS_Subset
<1>4. AnyOf(s) \in s
  BY <1>3, AnyOfIsOne
<1>5. SumFunctionOnSet(f, s \ {AnyOf(s)}) = SumFunctionOnSet(g, s \ {AnyOf(s)})
  BY <1>2, <1>4
<1>6. /\ SumFunctionOnSet(f, s) = f[AnyOf(s)] + SumFunctionOnSet(f, s \ {AnyOf(s)})
      /\ SumFunctionOnSet(g, s) = g[AnyOf(s)] + SumFunctionOnSet(g, s \ {AnyOf(s)})
  BY <1>3, SumStep
<1> QED
  BY <1>4, <1>5, <1>6

\* Any summand may be taken out, not only the one the fold begins with.
LEMMA SumWithout ==
  ASSUME NEW f, NEW S, IsFiniteSet(S), \A x \in S : f[x] \in Int, NEW y \in S
  PROVE  SumFunctionOnSet(f, S) = f[y] + SumFunctionOnSet(f, S \ {y})
<1> DEFINE Sum(s) == SumFunctionOnSet(f, s)
           Bad == {s \in SUBSET S : \E x \in s : Sum(s) # f[x] + Sum(s \ {x})}
<1>0. \A s \in SUBSET S : IsFiniteSet(s) /\ Sum(s) \in Int
  BY FS_Subset, SumIsInt
<1>1. SUFFICES ASSUME Bad # {} PROVE FALSE
  OBVIOUS
<1>2. PICK s \in Bad : \A u \in Bad : u \subseteq s => u = s
  <2> Bad \in SUBSET SUBSET S
    OBVIOUS
  <2> HIDE DEF Bad
  <2> QED
    BY <1>1, SmallestSet
<1>3. PICK x \in s : Sum(s) # f[x] + Sum(s \ {x})
  OBVIOUS
<1>4. PICK c \in s : c = AnyOf(s)
  BY <1>3, AnyOfIsOne
<1>5. Sum(s) = f[c] + Sum(s \ {c})
  BY <1>0, <1>3, <1>4, SumStep
<1>6. x # c
  BY <1>3, <1>5
<1>7. s \ {c} \notin Bad /\ s \ {x} \notin Bad
  BY <1>2, <1>3, <1>4
<1>8. Sum(s \ {c}) = f[x] + Sum((s \ {c}) \ {x})
  BY <1>3, <1>6, <1>7
<1>9. Sum(s \ {x}) = f[c] + Sum((s \ {x}) \ {c})
  BY <1>4, <1>6, <1>7
<1>10. (s \ {c}) \ {x} = (s \ {x}) \ {c}
  OBVIOUS
<1>11. PICK a, b, n \in Int : a = f[x] /\ b = f[c] /\ n = Sum((s \ {x}) \ {c})
  BY <1>0
<1>12. Sum(s) = b + (a + n) /\ Sum(s \ {x}) = b + n
  BY <1>5, <1>8, <1>9, <1>10, <1>11
<1>13. b + (a + n) = a + (b + n)
  OBVIOUS
<1>14. Sum(s) # a + Sum(s \ {x})
  BY <1>3, <1>11
<1> QED
  BY <1>12, <1>13, <1>14

LEMMA SumWith ==
  ASSUME NEW f, NEW S, IsFiniteSet(S), NEW y, y \notin S,
         \A x \in S \cup {y} : f[x] \in Int
  PROVE  SumFunctionOnSet(f, S \cup {y}) = SumFunctionOnSet(f, S) + f[y]
<1>1. IsFiniteSet(S \cup {y}) /\ (S \cup {y}) \ {y} = S
  BY FS_AddElement
<1>2. SumFunctionOnSet(f, S \cup {y}) = f[y] + SumFunctionOnSet(f, (S \cup {y}) \ {y})
  BY <1>1, SumWithout
<1>3. PICK a, b \in Int : a = SumFunctionOnSet(f, S) /\ b = f[y]
  BY SumIsInt
<1>4. SumFunctionOnSet(f, S \cup {y}) = b + a
  BY <1>1, <1>2, <1>3
<1> QED
  BY <1>3, <1>4

\* What a sum becomes when its set gains a summand, loses one, or is of other
\* summands that are worth the same.
LEMMA SumGrows ==
  ASSUME NEW f, NEW g, NEW S, IsFiniteSet(S), NEW y, y \notin S,
         \A x \in S : f[x] \in Int /\ g[x] = f[x], g[y] \in Int
  PROVE  SumFunctionOnSet(g, S \cup {y}) = SumFunctionOnSet(f, S) + g[y]
<1>1. SumFunctionOnSet(g, S) = SumFunctionOnSet(f, S)
  BY SumOfSame
<1>2. \A x \in S \cup {y} : g[x] \in Int
  OBVIOUS
<1> QED
  BY <1>1, <1>2, SumWith

LEMMA SumShrinks ==
  ASSUME NEW f, NEW g, NEW S, NEW T, IsFiniteSet(S), NEW y, y \in S, T = S \ {y},
         \A x \in S : f[x] \in Int, \A x \in T : g[x] = f[x]
  PROVE  SumFunctionOnSet(g, T) = SumFunctionOnSet(f, S) - f[y]
<1>1. IsFiniteSet(T)
  BY FS_RemoveElement
<1>2. SumFunctionOnSet(g, T) = SumFunctionOnSet(f, T)
  BY <1>1, SumOfSame
<1>3. SumFunctionOnSet(f, S) = f[y] + SumFunctionOnSet(f, T)
  BY SumWithout
<1>4. SumFunctionOnSet(f, T) \in Int
  BY <1>1, SumIsInt
<1> QED
  BY <1>2, <1>3, <1>4

LEMMA SumAdd ==
  ASSUME NEW f, NEW g, NEW h, NEW S, IsFiniteSet(S),
         \A x \in S : f[x] \in Int /\ g[x] \in Int /\ h[x] = f[x] + g[x]
  PROVE  SumFunctionOnSet(h, S) = SumFunctionOnSet(f, S) + SumFunctionOnSet(g, S)
<1> DEFINE Sum(k, s) == SumFunctionOnSet(k, s)
           Bad == {s \in SUBSET S : Sum(h, s) # Sum(f, s) + Sum(g, s)}
<1>0. \A s \in SUBSET S : IsFiniteSet(s) /\ Sum(f, s) \in Int /\ Sum(g, s) \in Int
  BY FS_Subset, SumIsInt
<1>1. SUFFICES ASSUME Bad # {} PROVE FALSE
  OBVIOUS
<1>2. PICK s \in Bad : \A u \in Bad : u \subseteq s => u = s
  <2> Bad \in SUBSET SUBSET S
    OBVIOUS
  <2> HIDE DEF Bad
  <2> QED
    BY <1>1, SmallestSet
<1>3. s # {} /\ IsFiniteSet(s)
  <2>1. Sum(f, {}) = 0 /\ Sum(g, {}) = 0 /\ Sum(h, {}) = 0
    BY SumOfNone
  <2>2. Sum(h, {}) = Sum(f, {}) + Sum(g, {})
    BY <2>1
  <2> HIDE DEF Sum
  <2> QED
    BY <1>0, <2>2
<1>4. PICK x \in s : x = AnyOf(s)
  BY <1>3, AnyOfIsOne
<1>5. /\ Sum(h, s) = h[x] + Sum(h, s \ {x})
      /\ Sum(f, s) = f[x] + Sum(f, s \ {x})
      /\ Sum(g, s) = g[x] + Sum(g, s \ {x})
  BY <1>3, <1>4, SumStep
<1>6. Sum(h, s \ {x}) = Sum(f, s \ {x}) + Sum(g, s \ {x})
  BY <1>2, <1>4
<1>7. PICK a, b, m, n \in Int : /\ a = f[x] /\ b = g[x]
                                /\ m = Sum(f, s \ {x}) /\ n = Sum(g, s \ {x})
  BY <1>0
<1>8. Sum(h, s) = (a + b) + (m + n) /\ Sum(f, s) = a + m /\ Sum(g, s) = b + n
  BY <1>5, <1>6, <1>7
<1>9. Sum(h, s) = Sum(f, s) + Sum(g, s)
  BY <1>8
<1> QED
  BY <1>9

LEMMA SumOfZeros ==
  ASSUME NEW f, NEW S, IsFiniteSet(S), \A x \in S : f[x] = 0
  PROVE  SumFunctionOnSet(f, S) = 0
<1>1. SumFunctionOnSet(f, S) = SumFunctionOnSet(f, S) + SumFunctionOnSet(f, S)
  BY SumAdd
<1>2. SumFunctionOnSet(f, S) \in Int
  BY SumIsInt
<1> QED
  BY <1>1, <1>2

\* A sum of larger summands is no smaller.
LEMMA SumLess ==
  ASSUME NEW f, NEW g, NEW S, IsFiniteSet(S),
         \A x \in S : f[x] \in Int /\ g[x] \in Int /\ f[x] <= g[x]
  PROVE  SumFunctionOnSet(f, S) <= SumFunctionOnSet(g, S)
<1> DEFINE more == [x \in S |-> g[x] - f[x]]
<1>1. \A x \in S : more[x] \in Nat /\ g[x] = f[x] + more[x]
  OBVIOUS
<1> HIDE DEF more
<1>2. SumFunctionOnSet(g, S) = SumFunctionOnSet(f, S) + SumFunctionOnSet(more, S)
  BY <1>1, SumAdd
<1>3. SumFunctionOnSet(more, S) \in Nat
  BY <1>1, SumIsNat
<1>4. SumFunctionOnSet(f, S) \in Int
  BY SumIsInt
<1> QED
  BY <1>2, <1>3, <1>4

\* Parts of a set sum up to the whole.
LEMMA SumOfRest ==
  ASSUME NEW f, NEW S, IsFiniteSet(S), NEW T \in SUBSET S, \A x \in S : f[x] \in Int
  PROVE  SumFunctionOnSet(f, S) = SumFunctionOnSet(f, T) + SumFunctionOnSet(f, S \ T)
<1> DEFINE Sum(s) == SumFunctionOnSet(f, s)
           Bad == {s \in SUBSET S : Sum(s) # Sum(s \cap T) + Sum(s \ T)}
<1>0. \A s \in SUBSET S : IsFiniteSet(s) /\ Sum(s) \in Int
  BY FS_Subset, SumIsInt
<1>1. CASE Bad # {}
  <2>1. PICK s \in Bad : \A u \in Bad : u \subseteq s => u = s
    <3> Bad \in SUBSET SUBSET S
      OBVIOUS
    <3> HIDE DEF Bad
    <3> QED
      BY <1>1, SmallestSet
  <2>2. s # {}
    <3>1. Sum({}) = 0 /\ {} \cap T = {} /\ {} \ T = {}
      BY SumOfNone
    <3>2. Sum({}) = Sum({} \cap T) + Sum({} \ T)
      BY <3>1
    <3> HIDE DEF Sum
    <3> QED
      BY <3>2
  <2>3. PICK x \in s : TRUE
    BY <2>2
  <2>4. Sum(s \ {x}) = Sum((s \ {x}) \cap T) + Sum((s \ {x}) \ T)
    BY <2>1, <2>3
  <2>5. Sum(s) = f[x] + Sum(s \ {x})
    BY <1>0, SumWithout
  <2>6. CASE x \in T
    <3>1. Sum(s \cap T) = f[x] + Sum((s \cap T) \ {x})
      BY <1>0, <2>6, SumWithout
    <3>2. (s \cap T) \ {x} = (s \ {x}) \cap T /\ (s \ {x}) \ T = s \ T
      BY <2>6
    <3>3. PICK a, m, n \in Int : a = f[x] /\ m = Sum((s \ {x}) \cap T) /\ n = Sum(s \ T)
      BY <1>0
    <3>4. Sum(s) = a + (m + n) /\ Sum(s \cap T) = a + m
      BY <2>4, <2>5, <3>1, <3>2, <3>3
    <3>5. Sum(s) = Sum(s \cap T) + Sum(s \ T)
      BY <3>3, <3>4
    <3> QED
      BY <3>5
  <2>7. CASE x \notin T
    <3>1. Sum(s \ T) = f[x] + Sum((s \ T) \ {x})
      BY <1>0, <2>7, SumWithout
    <3>2. (s \ T) \ {x} = (s \ {x}) \ T /\ (s \ {x}) \cap T = s \cap T
      BY <2>7
    <3>3. PICK a, m, n \in Int : a = f[x] /\ m = Sum(s \cap T) /\ n = Sum((s \ {x}) \ T)
      BY <1>0
    <3>4. Sum(s) = a + (m + n) /\ Sum(s \ T) = a + n
      BY <2>4, <2>5, <3>1, <3>2, <3>3
    <3>5. Sum(s) = Sum(s \cap T) + Sum(s \ T)
      BY <3>3, <3>4
    <3> QED
      BY <3>5
  <2> QED
    BY <2>6, <2>7
<1>2. CASE Bad = {}
  <2>1. S \cap T = T /\ S \in SUBSET S
    OBVIOUS
  <2> QED
    BY <1>2, <2>1
<1> QED
  BY <1>1, <1>2

LEMMA SumOfPart ==
  ASSUME NEW f, NEW S, IsFiniteSet(S), NEW T \in SUBSET S, \A x \in S : f[x] \in Nat
  PROVE  /\ SumFunctionOnSet(f, T) <= SumFunctionOnSet(f, S)
         /\ (\A x \in S \ T : f[x] = 0) => SumFunctionOnSet(f, T) = SumFunctionOnSet(f, S)
<1>1. SumFunctionOnSet(f, S) = SumFunctionOnSet(f, T) + SumFunctionOnSet(f, S \ T)
  BY SumOfRest
<1>2. IsFiniteSet(T) /\ IsFiniteSet(S \ T)
  BY FS_Subset
<1>3. SumFunctionOnSet(f, T) \in Nat /\ SumFunctionOnSet(f, S \ T) \in Nat
  BY <1>2, SumIsNat
<1>4. (\A x \in S \ T : f[x] = 0) => SumFunctionOnSet(f, S \ T) = 0
  BY <1>2, SumOfZeros
<1> QED
  BY <1>1, <1>3, <1>4

\* Differences sum up to the last value less the first.
LEMMA SumOfSteps ==
  ASSUME NEW f, NEW r, NEW n \in Nat, \A k \in 0 .. n : r[k] \in Int,
         \A k \in 1 .. n : f[k] = r[k] - r[k - 1]
  PROVE  SumFunctionOnSet(f, 1 .. n) = r[n] - r[0]
<1> DEFINE Bad == {m \in Nat : m <= n /\ SumFunctionOnSet(f, 1 .. m) # r[m] - r[0]}
<1>1. SUFFICES ASSUME Bad # {} PROVE FALSE
  OBVIOUS
<1>2. PICK m \in Bad : \A l \in Bad : m <= l
  <2> Bad \in SUBSET Nat
    OBVIOUS
  <2> HIDE DEF Bad
  <2> QED
    BY <1>1, LeastOf
<1>3. m # 0
  <2>1. SumFunctionOnSet(f, {}) = 0 /\ 1 .. 0 = {} /\ r[0] \in Int
    BY SumOfNone
  <2> QED
    BY <2>1
<1>4. m - 1 \in Nat /\ m - 1 <= n /\ ~ (m <= m - 1)
  BY <1>3
<1>5. SumFunctionOnSet(f, 1 .. m - 1) = r[m - 1] - r[0]
  BY <1>2, <1>4
<1>6. IsFiniteSet(1 .. m - 1) /\ m \notin 1 .. m - 1 /\ 1 .. m = (1 .. m - 1) \cup {m}
  <2>1. IsFiniteSet(1 .. m - 1)
    BY <1>4, FS_Interval
  <2>2. m \in Nat \ {0}
    BY <1>3
  <2>3. m \notin 1 .. m - 1 /\ 1 .. m = (1 .. m - 1) \cup {m}
    BY <2>2
  <2> QED
    BY <2>1, <2>3
<1>7. \A k \in (1 .. m - 1) \cup {m} : f[k] \in Int
  <2> TAKE k \in (1 .. m - 1) \cup {m}
  <2>1. k \in 1 .. n /\ k \in 0 .. n /\ k - 1 \in 0 .. n
    BY <1>3
  <2> QED
    BY <2>1
<1>8. SumFunctionOnSet(f, 1 .. m) = SumFunctionOnSet(f, 1 .. m - 1) + f[m]
  <2> DEFINE before == 1 .. m - 1
  <2>1. IsFiniteSet(before) /\ m \notin before /\ \A k \in before \cup {m} : f[k] \in Int
    BY <1>6, <1>7
  <2> HIDE DEF before
  <2>2. SumFunctionOnSet(f, before \cup {m}) = SumFunctionOnSet(f, before) + f[m]
    BY <2>1, SumWith
  <2> QED
    BY <1>6, <2>2 DEF before
<1>9. f[m] = r[m] - r[m - 1] /\ r[m] \in Int /\ r[m - 1] \in Int /\ r[0] \in Int
  BY <1>3
<1>10. SumFunctionOnSet(f, 1 .. m) = r[m] - r[0]
  BY <1>5, <1>8, <1>9
<1> QED
  BY <1>10

\* An amount a is shared out in turn: each x of S gets what it asks for, or
\* what those before it have left.
InTurn(got, asked, turn, a, S) ==
  \A x \in S : got[x] = LET left == a - SumFunctionOnSet(asked, {y \in S : turn[y] < turn[x]})
                        IN IF left <= 0 THEN 0 ELSE IF asked[x] <= left THEN asked[x] ELSE left

LEMMA SumSharedOut ==
  ASSUME NEW asked, NEW got, NEW turn, NEW S, IsFiniteSet(S), NEW a \in Nat, NEW last \in Nat,
         \A x \in S : asked[x] \in Nat /\ turn[x] \in 1 .. last,
         \A x, y \in S : turn[x] = turn[y] => x = y,
         InTurn(got, asked, turn, a, S)
  PROVE  SumFunctionOnSet(got, S)
           = IF a <= SumFunctionOnSet(asked, S) THEN a ELSE SumFunctionOnSet(asked, S)
<1> DEFINE Upto(n) == {y \in S : turn[y] < n}
           All(n) == SumFunctionOnSet(asked, Upto(n))
           Shared(n) == SumFunctionOnSet(got, Upto(n)) = IF a <= All(n) THEN a ELSE All(n)
           Bad == {n \in Nat : ~ Shared(n)}
<1>1. \A n \in Nat : IsFiniteSet(Upto(n)) /\ All(n) \in Nat
  <2> TAKE n \in Nat
  <2>1. IsFiniteSet(Upto(n))
    BY FS_Subset
  <2> QED
    BY <2>1, SumIsNat
<1>2. ASSUME NEW x \in S
      PROVE  got[x] = IF a - All(turn[x]) <= 0 THEN 0
                      ELSE IF asked[x] <= a - All(turn[x]) THEN asked[x] ELSE a - All(turn[x])
  BY DEF InTurn
<1>3. \A x \in S : got[x] \in Nat
  <2> TAKE x \in S
  <2>0. turn[x] \in Nat
    OBVIOUS
  <2>1. PICK so \in Nat : so = All(turn[x])
    BY <1>1, <2>0
  <2>2. got[x] = IF a - so <= 0 THEN 0 ELSE IF asked[x] <= a - so THEN asked[x] ELSE a - so
    BY <1>2, <2>1
  <2>3. asked[x] \in Nat
    OBVIOUS
  <2> QED
    BY <2>2, <2>3
<1>4. Bad = {}
  <2> SUFFICES ASSUME Bad # {} PROVE FALSE
    OBVIOUS
  <2>1. PICK n \in Bad : \A m \in Bad : n <= m
    <3> Bad \in SUBSET Nat
      OBVIOUS
    <3> HIDE DEF Bad
    <3> QED
      BY LeastOf
  <2>2. n # 0
    <3>1. Upto(0) = {}
      OBVIOUS
    <3> QED
      BY <3>1, SumOfNone
  <2>3. n - 1 \in Nat /\ Shared(n - 1)
    <3>1. n - 1 \in Nat /\ ~ (n <= n - 1)
      BY <2>2
    <3> QED
      BY <2>1, <3>1
  <2>4. CASE \A x \in S : turn[x] # n - 1
    <3>1. Upto(n) = Upto(n - 1)
      BY <2>4
    <3> QED
      BY <2>3, <3>1
  <2>5. CASE \E x \in S : turn[x] = n - 1
    <3>1. PICK x \in S : turn[x] = n - 1
      BY <2>5
    <3>2. Upto(n) = Upto(n - 1) \cup {x} /\ x \notin Upto(n - 1)
      BY <3>1
    <3>3. All(n) = All(n - 1) + asked[x]
      <4>1. \A y \in Upto(n - 1) \cup {x} : asked[y] \in Int
        OBVIOUS
      <4>2. IsFiniteSet(Upto(n - 1))
        BY <1>1, <2>3
      <4> HIDE DEF Upto
      <4> QED
        BY <3>2, <4>1, <4>2, SumWith
    <3>4. SumFunctionOnSet(got, Upto(n)) = SumFunctionOnSet(got, Upto(n - 1)) + got[x]
      <4>1. \A y \in Upto(n - 1) \cup {x} : got[y] \in Int
        BY <1>3
      <4>2. IsFiniteSet(Upto(n - 1))
        BY <1>1, <2>3
      <4> HIDE DEF Upto
      <4> QED
        BY <3>2, <4>1, <4>2, SumWith
    <3>5. PICK so, o, g, sg \in Nat : /\ so = All(n - 1) /\ o = asked[x] /\ g = got[x]
                                      /\ sg = SumFunctionOnSet(got, Upto(n - 1))
      <4>1. All(n - 1) \in Nat /\ asked[x] \in Nat /\ got[x] \in Nat
        BY <1>1, <1>3, <2>3
      <4>2. SumFunctionOnSet(got, Upto(n - 1)) \in Nat
        BY <2>3, <4>1
      <4> HIDE DEF All, Upto
      <4> QED
        BY <4>1, <4>2
    <3>6. sg = (IF a <= so THEN a ELSE so)
      BY <2>3, <3>5
    <3>7. g = IF a - so <= 0 THEN 0 ELSE IF o <= a - so THEN o ELSE a - so
      BY <1>2, <3>1, <3>5
    <3>8. sg + g = IF a <= so + o THEN a ELSE so + o
      BY <3>6, <3>7
    <3>9. Shared(n)
      BY <3>3, <3>4, <3>5, <3>8
    <3> QED
      BY <3>9
  <2> QED
    BY <2>4, <2>5
<1>5. Upto(last + 1) = S /\ last + 1 \in Nat
  OBVIOUS
<1>6. Shared(last + 1)
  BY <1>4, <1>5
<1> QED
  BY <1>5, <1>6

\* What is summed up by pairs is summed up by their second parts.
ByPairs(f, g, a, b, c, S) ==
  \A x \in S : /\ f[<<a, x>>] \in Int /\ f[<<b, x>>] \in Int /\ f[<<c, x>>] \in Int
              /\ g[x] = f[<<a, x>>] + f[<<b, x>>] + f[<<c, x>>]

LEMMA SumOfPairs ==
  ASSUME NEW f, NEW g, NEW a, NEW b, NEW c, a # b, b # c, a # c, NEW S, IsFiniteSet(S),
         ByPairs(f, g, a, b, c, S)
  PROVE  IsFiniteSet({a, b, c} \X S) /\ SumFunctionOnSet(f, {a, b, c} \X S) = SumFunctionOnSet(g, S)
<1> USE DEF ByPairs
<1> DEFINE Pairs(s) == {a, b, c} \X s
           Sum(p) == SumFunctionOnSet(f, p)
           Bad == {s \in SUBSET S : Sum(Pairs(s)) # SumFunctionOnSet(g, s)}
<1>0. IsFiniteSet({a, b, c})
  <2>1. IsFiniteSet({}) /\ {a, b, c} = (({} \cup {a}) \cup {b}) \cup {c}
    BY FS_EmptySet
  <2>2. IsFiniteSet({} \cup {a})
    BY <2>1, FS_AddElement
  <2>3. IsFiniteSet(({} \cup {a}) \cup {b})
    BY <2>2, FS_AddElement
  <2>4. IsFiniteSet((({} \cup {a}) \cup {b}) \cup {c})
    BY <2>3, FS_AddElement
  <2> QED
    BY <2>1, <2>4
<1>1. \A s \in SUBSET S : IsFiniteSet(s) /\ IsFiniteSet(Pairs(s))
  BY <1>0, FS_Subset, FS_Product
<1>2. \A p \in Pairs(S) : f[p] \in Int
  <2> TAKE p \in Pairs(S)
  <2>1. PICK t \in {a, b, c}, x \in S : p = <<t, x>>
    OBVIOUS
  <2> QED
    BY <2>1
<1>9. \A x \in S : g[x] \in Int
  <2> TAKE x \in S
  <2>1. PICK i, j, k \in Int : i = f[<<a, x>>] /\ j = f[<<b, x>>] /\ k = f[<<c, x>>]
    OBVIOUS
  <2>2. g[x] = i + j + k
    BY <2>1
  <2> QED
    BY <2>2
<1>3. CASE Bad # {}
  <2>1. PICK s \in Bad : \A u \in Bad : u \subseteq s => u = s
    <3> Bad \in SUBSET SUBSET S
      OBVIOUS
    <3> HIDE DEF Bad
    <3> QED
      BY <1>3, SmallestSet
  <2>2. s # {}
    <3>1. Pairs({}) = {}
      OBVIOUS
    <3> QED
      BY <3>1, SumOfNone
  <2>3. PICK x \in s : TRUE
    BY <2>2
  <2> DEFINE rest == s \ {x}
  <2>4. Sum(Pairs(rest)) = SumFunctionOnSet(g, rest) /\ IsFiniteSet(Pairs(rest)) /\ rest \subseteq S
    BY <1>1, <2>1, <2>3
  <2> DEFINE one == Pairs(rest) \cup {<<a, x>>}
             two == one \cup {<<b, x>>}
  <2>5. Sum(one) = Sum(Pairs(rest)) + f[<<a, x>>] /\ IsFiniteSet(one)
    <3>1. <<a, x>> \notin Pairs(rest) /\ \A p \in Pairs(rest) \cup {<<a, x>>} : f[p] \in Int
      BY <1>2
    <3>2. IsFiniteSet(Pairs(rest))
      BY <2>4
    <3> HIDE DEF Pairs, rest
    <3> QED
      BY <3>1, <3>2, SumWith, FS_AddElement
  <2>6. Sum(two) = Sum(one) + f[<<b, x>>] /\ IsFiniteSet(two)
    <3>1. <<b, x>> \notin one /\ \A p \in one \cup {<<b, x>>} : f[p] \in Int
      BY <1>2
    <3> HIDE DEF one
    <3> QED
      BY <2>5, <3>1, SumWith, FS_AddElement
  <2>7. Sum(two \cup {<<c, x>>}) = Sum(two) + f[<<c, x>>]
    <3>1. <<c, x>> \notin two /\ \A p \in two \cup {<<c, x>>} : f[p] \in Int
      BY <1>2
    <3> HIDE DEF two
    <3> QED
      BY <2>6, <3>1, SumWith
  <2>8. two \cup {<<c, x>>} = Pairs(s)
    BY <2>3
  <2>9. SumFunctionOnSet(g, s) = g[x] + SumFunctionOnSet(g, rest)
    <3>1. IsFiniteSet(s) /\ \A y \in s : g[y] \in Int
      BY <1>1, <1>9
    <3> QED
      BY <3>1, SumWithout
  <2>10. SumFunctionOnSet(g, rest) \in Int
    <3>1. IsFiniteSet(rest) /\ \A y \in rest : g[y] \in Int
      BY <1>1, <1>9
    <3> QED
      BY <3>1, SumIsInt
  <2>11. PICK i, j, k, n \in Int : /\ i = f[<<a, x>>] /\ j = f[<<b, x>>] /\ k = f[<<c, x>>]
                                   /\ n = SumFunctionOnSet(g, rest)
    BY <2>10
  <2>12. Sum(Pairs(s)) = ((n + i) + j) + k
    <3> HIDE DEF one, two, rest, Pairs
    <3> QED
      BY <2>4, <2>5, <2>6, <2>7, <2>8, <2>11
  <2>13. SumFunctionOnSet(g, s) = ((i + j) + k) + n
    BY <2>9, <2>11
  <2>14. Sum(Pairs(s)) = SumFunctionOnSet(g, s)
    BY <2>12, <2>13
  <2> QED
    BY <2>14
<1>4. CASE Bad = {}
  BY <1>1, <1>4
<1> QED
  BY <1>3, <1>4

\* What a sum becomes when one of its summands changes.
LEMMA SumChanged ==
  ASSUME NEW f, NEW g, NEW S, IsFiniteSet(S), NEW y \in S,
         \A x \in S : f[x] \in Int, g[y] \in Int, \A x \in S \ {y} : g[x] = f[x]
  PROVE  SumFunctionOnSet(g, S) = SumFunctionOnSet(f, S) + (g[y] - f[y])
<1>1. IsFiniteSet(S \ {y}) /\ \A x \in S \ {y} : f[x] \in Int
  BY FS_RemoveElement
<1>2. \A x \in S : g[x] \in Int
  OBVIOUS
<1>3. PICK a, b, n \in Int : a = f[y] /\ b = g[y] /\ n = SumFunctionOnSet(f, S \ {y})
  BY <1>1, SumIsInt
<1>4. SumFunctionOnSet(g, S \ {y}) = n
  BY <1>1, <1>3, SumOfSame
<1>5. SumFunctionOnSet(f, S) = a + n
  BY <1>3, SumWithout
<1>6. SumFunctionOnSet(g, S) = b + n
  BY <1>2, <1>3, <1>4, SumWithout
<1> QED
  BY <1>3, <1>5, <1>6

=============================================================================
