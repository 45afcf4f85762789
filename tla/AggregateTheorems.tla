-------------------------- MODULE AggregateTheorems --------------------------
(***************************************************************************)
(* Facts about the sums of Aggregates, for every function and every finite *)
(* set.  The sum is a recursive function on the subsets of a set; that it  *)
(* exists, that the order of summation does not matter and that it follows *)
(* a bijection are proved by induction on the subsets, stated with a set   *)
(* of the subsets that satisfy the claim.                                  *)
(***************************************************************************)
EXTENDS Aggregates, SequenceTheorems, FiniteSetTheorems, WellFoundedInduction, TLAPS

\* Induction over the naturals, for the set B of those that satisfy a claim.
LEMMA NatSetInduction ==
    ASSUME NEW B, 0 \in B, \A n \in Nat : n \in B => n + 1 \in B
    PROVE  Nat \subseteq B
<1>. SUFFICES ASSUME Nat \ B # {} PROVE FALSE
  OBVIOUS
<1>1. Nat \ B \subseteq Nat /\ IsWellFoundedOn(OpToRel(<, Nat), Nat)
  BY NatLessThanWellFounded
<1>2. \E x \in Nat \ B : \A y \in Nat \ B : ~ (<<y, x>> \in OpToRel(<, Nat))
  BY <1>1, WFMin, Zenon
<1>3. PICK x \in Nat \ B : \A y \in Nat \ B : ~ (<<y, x>> \in OpToRel(<, Nat))
  BY <1>2
<1>4. \A y \in Nat \ B : ~ (y < x)
  BY <1>3 DEF OpToRel
<1>5. x # 0
  OBVIOUS
<1>6. x - 1 \in Nat /\ x - 1 < x /\ (x - 1) + 1 = x
  BY <1>5
<1>. QED
  BY <1>4, <1>6

\* Induction over the subsets of a finite set: a claim that passes from the sets
\* with one element less to a set holds of all of them.
LEMMA SubsetInduction ==
    ASSUME NEW S, IsFiniteSet(S), NEW B, {} \in B,
           \A T \in SUBSET S : T # {} /\ (\A x \in T : T \ {x} \in B) => T \in B
    PROVE  SUBSET S \subseteq B
<1>. DEFINE N == {n \in Nat : \A T \in SUBSET S : Cardinality(T) = n => T \in B}
<1>1. \A T \in SUBSET S : IsFiniteSet(T) /\ Cardinality(T) \in Nat
  BY FS_Subset, FS_CardinalityType
<1>2. 0 \in N
  BY <1>1, FS_EmptySet
<1>3. ASSUME NEW n \in Nat, n \in N
      PROVE  n + 1 \in N
  <2>. SUFFICES ASSUME NEW T \in SUBSET S, Cardinality(T) = n + 1
               PROVE  T \in B
    OBVIOUS
  <2>1. T # {}
    BY FS_EmptySet
  <2>2. ASSUME NEW x \in T PROVE T \ {x} \in B
    <3>1. Cardinality(T \ {x}) = (n + 1) - 1
      BY <1>1, FS_RemoveElement
    <3>2. Cardinality(T \ {x}) = n /\ T \ {x} \in SUBSET S
      BY <3>1
    <3>. QED
      BY <1>3, <3>2
  <2>. QED
    BY <2>1, <2>2
<1>. HIDE DEF N
<1>4. Nat \subseteq N
  BY <1>2, <1>3, NatSetInduction
<1>. QED
  BY <1>1, <1>4 DEF N

\* Induction over the sequences over a set: a claim that holds of the empty one
\* and passes from a sequence to what it is with one element more holds of all.
LEMMA SequenceInduction ==
    ASSUME NEW S, NEW B, <<>> \in B,
           \A s \in Seq(S) : \A e \in S : s \in B => Append(s, e) \in B
    PROVE  Seq(S) \subseteq B
<1>. DEFINE N == {n \in Nat : \A s \in Seq(S) : Len(s) = n => s \in B}
<1>1. 0 \in N
  <2>1. \A s \in Seq(S) : Len(s) = 0 => s = <<>>
    BY EmptySeq
  <2>. QED
    BY <2>1
<1>2. ASSUME NEW n \in Nat, n \in N
      PROVE  n + 1 \in N
  <2>. SUFFICES ASSUME NEW s \in Seq(S), Len(s) = n + 1
               PROVE  s \in B
    OBVIOUS
  <2>1. PICK t \in Seq(S), e \in S : s = Append(t, e)
    <3>1. s # <<>>
      OBVIOUS
    <3>. QED
      BY <3>1, SequenceEmptyOrAppend
  <2>2. Len(t) = n
    BY <2>1, AppendProperties
  <2>. QED
    BY <1>2, <2>1, <2>2
<1>. HIDE DEF N
<1>3. Nat \subseteq N
  BY <1>1, <1>2, NatSetInduction
<1>. QED
  BY <1>3 DEF N

-----------------------------------------------------------------------------
(* The recursion behind Total.                                             *)

First(T) == CHOOSE x \in T : TRUE

\* g gives every subset of S the sum of f over it.
Sums(g, f, S) ==
    g = [T \in SUBSET S |-> IF T = {} THEN 0 ELSE f[First(T)] + g[T \ {First(T)}]]

\* Total is the value at S of such a function, if there is one.
LEMMA TotalDef ==
    ASSUME NEW f, NEW S
    PROVE  Total(f, S) = (CHOOSE g : Sums(g, f, S))[S]
BY DEF Total, MapThenSumSet, MapThenFoldSet, Sums, First

\* A non-empty set has a first element.
LEMMA FirstIn ==
    ASSUME NEW T, T # {}
    PROVE  First(T) \in T
BY DEF First

\* The recursion has a solution on a finite set: it is built for the subsets of
\* at most n elements, n by n.
LEMMA SumsExist ==
    ASSUME NEW S, IsFiniteSet(S), NEW f, \A x \in S : f[x] \in Nat
    PROVE  \E g : Sums(g, f, S) /\ \A T \in SUBSET S : g[T] \in Nat
<1>. DEFINE Small(n) == {T \in SUBSET S : Cardinality(T) <= n}
            Next(g, T) == IF T = {} THEN 0 ELSE f[First(T)] + g[T \ {First(T)}]
            Solves(g, n) == \A T \in Small(n) : g[T] = Next(g, T) /\ g[T] \in Nat
            N == {n \in Nat : \E g : Solves(g, n)}
<1>1. \A T \in SUBSET S : IsFiniteSet(T) /\ Cardinality(T) \in Nat
  BY FS_Subset, FS_CardinalityType
<1>2. 0 \in N
  <2>. DEFINE g == [T \in SUBSET S |-> 0]
  <2>1. \A T \in Small(0) : T = {}
    BY <1>1, FS_EmptySet
  <2>2. Solves(g, 0)
    BY <2>1
  <2>. QED
    BY <2>2
<1>3. ASSUME NEW n \in Nat, n \in N
      PROVE  n + 1 \in N
  <2>1. PICK g : Solves(g, n)
    BY <1>3
  <2>. DEFINE h == [T \in SUBSET S |-> Next(g, T)]
  <2>2. ASSUME NEW T \in Small(n + 1), T # {}
        PROVE  T \ {First(T)} \in Small(n) /\ First(T) \in S
    <3>1. First(T) \in T
      BY <2>2, FirstIn
    <3>2. Cardinality(T \ {First(T)}) = Cardinality(T) - 1
      BY <1>1, <3>1, FS_RemoveElement
    <3>. QED
      BY <1>1, <3>1, <3>2
  <2>3. \A T \in Small(n) : h[T] = g[T]
    BY <2>1
  <2>4. ASSUME NEW T \in Small(n + 1)
        PROVE  h[T] = Next(h, T) /\ h[T] \in Nat
    <3>1. CASE T = {}
      BY <3>1
    <3>2. CASE T # {}
      <4>1. T \ {First(T)} \in Small(n) /\ First(T) \in S
        BY <2>2, <3>2
      <4>2. h[T] = f[First(T)] + g[T \ {First(T)}]
        BY <3>2
      <4>3. g[T \ {First(T)}] = h[T \ {First(T)}] /\ g[T \ {First(T)}] \in Nat
        BY <2>1, <2>3, <4>1
      <4>. HIDE DEF h, Small
      <4>. QED
        BY <3>2, <4>1, <4>2, <4>3
    <3>. QED
      BY <3>1, <3>2
  <2>5. Solves(h, n + 1)
    BY <2>4
  <2>. HIDE DEF h, Solves
  <2>6. \E k : Solves(k, n + 1)
    BY <2>5
  <2>. QED
    BY <2>6
<1>4. Nat \subseteq N
  <2>. HIDE DEF N
  <2>. QED
    BY <1>2, <1>3, NatSetInduction
<1>5. Cardinality(S) \in Nat
  BY FS_CardinalityType
<1>6. PICK g : Solves(g, Cardinality(S))
  BY <1>4, <1>5
<1>7. Small(Cardinality(S)) = SUBSET S
  BY FS_Subset
<1>. DEFINE h == [T \in SUBSET S |-> g[T]]
<1>8. ASSUME NEW T \in SUBSET S
      PROVE  h[T] = Next(h, T) /\ h[T] \in Nat
  <2>1. g[T] = Next(g, T) /\ g[T] \in Nat
    BY <1>6, <1>7
  <2>2. CASE T = {}
    BY <2>1, <2>2
  <2>3. CASE T # {}
    <3>1. T \ {First(T)} \in SUBSET S
      OBVIOUS
    <3>. QED
      BY <2>1, <2>3, <3>1
  <2>. QED
    BY <2>2, <2>3
<1>9. h = [T \in SUBSET S |-> Next(h, T)]
  BY <1>8
<1>. QED
  BY <1>8, <1>9 DEF Sums

\* Two solutions for functions that agree give a common subset the same sum.
LEMMA SumsAgree ==
    ASSUME NEW S, NEW R, NEW U, IsFiniteSet(U), U \subseteq S, U \subseteq R,
           NEW f, NEW h, \A x \in U : f[x] = h[x],
           NEW a, NEW b, Sums(a, f, S), Sums(b, h, R)
    PROVE  a[U] = b[U]
<1>. DEFINE B == {T \in SUBSET U : a[T] = b[T]}
<1>0. /\ \A T \in SUBSET S : a[T] = IF T = {} THEN 0 ELSE f[First(T)] + a[T \ {First(T)}]
      /\ \A T \in SUBSET R : b[T] = IF T = {} THEN 0 ELSE h[First(T)] + b[T \ {First(T)}]
  BY Zenon DEF Sums
<1>1. {} \in B
  BY <1>0
<1>2. ASSUME NEW T \in SUBSET U, T # {}, \A x \in T : T \ {x} \in B
      PROVE  T \in B
  <2>1. First(T) \in T
    BY <1>2, FirstIn
  <2>2. T \in SUBSET S /\ T \in SUBSET R /\ First(T) \in U
    BY <2>1
  <2>3. a[T] = f[First(T)] + a[T \ {First(T)}]
    BY <1>0, <1>2, <2>2
  <2>4. b[T] = h[First(T)] + b[T \ {First(T)}]
    BY <1>0, <1>2, <2>2
  <2>5. a[T \ {First(T)}] = b[T \ {First(T)}]
    BY <1>2, <2>1
  <2>. QED
    BY <2>2, <2>3, <2>4, <2>5
<1>. HIDE DEF B
<1>3. SUBSET U \subseteq B
  BY <1>1, <1>2, SubsetInduction
<1>. QED
  BY <1>3 DEF B

-----------------------------------------------------------------------------
(* Total.                                                                  *)

\* Total is a solution of the recursion, taken at S.
LEMMA TotalIsSum ==
    ASSUME NEW S, IsFiniteSet(S), NEW f, \A x \in S : f[x] \in Nat
    PROVE  \E g : /\ Sums(g, f, S) /\ Total(f, S) = g[S]
                  /\ \A T \in SUBSET S : g[T] \in Nat /\ g[T] = Total(f, T)
<1>. DEFINE g == CHOOSE g : Sums(g, f, S)
<1>1. PICK k : Sums(k, f, S) /\ \A T \in SUBSET S : k[T] \in Nat
  BY SumsExist
<1>2. Sums(g, f, S)
  BY <1>1, Zenon
<1>3. Total(f, S) = g[S]
  BY TotalDef, Zenon
<1>. HIDE DEF g
<1>4. ASSUME NEW T \in SUBSET S
      PROVE  g[T] \in Nat /\ g[T] = Total(f, T)
  <2>1. IsFiniteSet(T) /\ \A x \in T : f[x] \in Nat
    BY FS_Subset
  <2>2. g[T] = k[T]
    BY <1>1, <1>2, <2>1, SumsAgree
  <2>. DEFINE h == CHOOSE h : Sums(h, f, T)
  <2>3. \E j : Sums(j, f, T)
    BY <2>1, SumsExist
  <2>4. Sums(h, f, T)
    BY <2>3, Zenon
  <2>5. Total(f, T) = h[T]
    BY TotalDef, Zenon
  <2>. HIDE DEF h
  <2>6. g[T] = h[T]
    BY <1>2, <2>1, <2>4, SumsAgree
  <2>. QED
    BY <1>1, <2>2, <2>5, <2>6
<1>. QED
  BY <1>2, <1>3, <1>4

\* A sum of naturals is a natural.
LEMMA TotalType ==
    ASSUME NEW S, IsFiniteSet(S), NEW f, \A x \in S : f[x] \in Nat
    PROVE  Total(f, S) \in Nat
BY TotalIsSum

\* The empty sum.
LEMMA TotalEmpty ==
    ASSUME NEW f
    PROVE  Total(f, {}) = 0
<1>1. PICK g : Sums(g, f, {}) /\ Total(f, {}) = g[{}]
  BY FS_EmptySet, TotalIsSum
<1>. QED
  BY <1>1, Zenon DEF Sums

\* Functions that agree on a set have the same sum.
LEMMA TotalSame ==
    ASSUME NEW S, IsFiniteSet(S), NEW f, NEW h, \A x \in S : f[x] \in Nat /\ f[x] = h[x]
    PROVE  Total(f, S) = Total(h, S)
<1>1. PICK a : Sums(a, f, S) /\ Total(f, S) = a[S]
  BY TotalIsSum
<1>2. PICK b : Sums(b, h, S) /\ Total(h, S) = b[S]
  BY TotalIsSum
<1>. QED
  BY <1>1, <1>2, SumsAgree

\* Any element may be summed last: the order of summation does not matter.
LEMMA TotalRemove ==
    ASSUME NEW S, IsFiniteSet(S), NEW f, \A x \in S : f[x] \in Nat, NEW e \in S
    PROVE  Total(f, S) = f[e] + Total(f, S \ {e})
<1>1. PICK g : /\ Sums(g, f, S)
               /\ \A T \in SUBSET S : g[T] \in Nat /\ g[T] = Total(f, T)
  BY TotalIsSum
<1>2. \A T \in SUBSET S : g[T] = IF T = {} THEN 0 ELSE f[First(T)] + g[T \ {First(T)}]
  BY <1>1, Zenon DEF Sums
<1>. DEFINE B == {T \in SUBSET S : \A x \in T : g[T] = f[x] + g[T \ {x}]}
<1>3. {} \in B
  OBVIOUS
<1>4. ASSUME NEW T \in SUBSET S, T # {}, \A x \in T : T \ {x} \in B
      PROVE  T \in B
  <2>. DEFINE y == First(T)
  <2>1. y \in T
    BY <1>4, FirstIn
  <2>2. g[T] = f[y] + g[T \ {y}]
    BY <1>2, <1>4
  <2>. HIDE DEF y
  <2>3. ASSUME NEW x \in T, x # y
        PROVE  g[T] = f[x] + g[T \ {x}]
    <3>1. (T \ {y}) \ {x} = (T \ {x}) \ {y}
      OBVIOUS
    <3>2. g[T \ {y}] = f[x] + g[(T \ {y}) \ {x}]
      BY <1>4, <2>1, <2>3
    <3>3. g[T \ {x}] = f[y] + g[(T \ {x}) \ {y}]
      BY <1>4, <2>1, <2>3
    <3>4. f[x] \in Nat /\ f[y] \in Nat /\ g[(T \ {x}) \ {y}] \in Nat
      BY <1>1, <2>1
    <3>5. /\ g[T] = f[y] + (f[x] + g[(T \ {x}) \ {y}])
          /\ f[x] + g[T \ {x}] = f[x] + (f[y] + g[(T \ {x}) \ {y}])
      BY <2>2, <3>1, <3>2, <3>3, Zenon
    <3>6. \A a, b, c \in Nat : a + (b + c) = b + (a + c)
      OBVIOUS
    <3>. QED
      BY <3>4, <3>5, <3>6, Zenon
  <2>. QED
    BY <2>2, <2>3
<1>. HIDE DEF B
<1>5. S \in B
  BY <1>3, <1>4, SubsetInduction
<1>. QED
  BY <1>1, <1>5 DEF B

\* The sum over a set with one element more.
LEMMA TotalAdd ==
    ASSUME NEW S, IsFiniteSet(S), NEW e, e \notin S, NEW f,
           \A x \in S \cup {e} : f[x] \in Nat
    PROVE  Total(f, S \cup {e}) = Total(f, S) + f[e]
<1>1. IsFiniteSet(S \cup {e}) /\ (S \cup {e}) \ {e} = S
  BY FS_AddElement
<1>2. Total(f, S \cup {e}) = f[e] + Total(f, S)
  BY <1>1, TotalRemove
<1>3. Total(f, S) \in Nat
  BY TotalType
<1>. QED
  BY <1>2, <1>3

\* One summand changes.
LEMMA TotalUpdate ==
    ASSUME NEW S, IsFiniteSet(S), NEW e \in S, NEW f, NEW h,
           \A x \in S : f[x] \in Nat, \A x \in S : h[x] \in Nat,
           \A x \in S : x # e => f[x] = h[x]
    PROVE  Total(h, S) + f[e] = Total(f, S) + h[e]
<1>1. IsFiniteSet(S \ {e})
  BY FS_RemoveElement
<1>2. Total(f, S \ {e}) = Total(h, S \ {e}) /\ Total(f, S \ {e}) \in Nat
  BY <1>1, TotalSame, TotalType
<1>3. /\ Total(f, S) = f[e] + Total(f, S \ {e})
      /\ Total(h, S) = h[e] + Total(h, S \ {e})
  BY TotalRemove
<1>. QED
  BY <1>2, <1>3

\* Every summand is at most the sum.
LEMMA TotalBounds ==
    ASSUME NEW S, IsFiniteSet(S), NEW f, \A x \in S : f[x] \in Nat, NEW e \in S
    PROVE  f[e] <= Total(f, S)
<1>1. IsFiniteSet(S \ {e})
  BY FS_RemoveElement
<1>2. Total(f, S \ {e}) \in Nat
  BY <1>1, TotalType
<1>. QED
  BY <1>2, TotalRemove

\* The sum over a union of disjoint sets.
LEMMA TotalUnion ==
    ASSUME NEW S, IsFiniteSet(S), NEW R, IsFiniteSet(R), S \cap R = {}, NEW f,
           \A x \in S \cup R : f[x] \in Nat
    PROVE  Total(f, S \cup R) = Total(f, S) + Total(f, R)
<1>. DEFINE B == {T \in SUBSET R : Total(f, S \cup T) = Total(f, S) + Total(f, T)}
<1>1. \A T \in SUBSET R : IsFiniteSet(T) /\ IsFiniteSet(S \cup T)
  BY FS_Subset, FS_Union
<1>2. Total(f, S) \in Nat /\ \A T \in SUBSET R : Total(f, T) \in Nat
  BY <1>1, TotalType
<1>3. {} \in B
  <2>1. S \cup {} = S
    OBVIOUS
  <2>. QED
    BY <1>2, <2>1, TotalEmpty
<1>4. ASSUME NEW T \in SUBSET R, T # {}, \A x \in T : T \ {x} \in B
      PROVE  T \in B
  <2>1. PICK x \in T : TRUE
    BY <1>4
  <2>2. (S \cup T) \ {x} = S \cup (T \ {x})
    BY <2>1
  <2>3. Total(f, S \cup T) = f[x] + Total(f, S \cup (T \ {x}))
    <3>. DEFINE Z == S \cup T
    <3>1. IsFiniteSet(Z) /\ x \in Z /\ \A y \in Z : f[y] \in Nat
      BY <1>1, <2>1
    <3>2. Z \ {x} = S \cup (T \ {x})
      BY <2>2
    <3>. HIDE DEF Z
    <3>3. Total(f, Z) = f[x] + Total(f, Z \ {x})
      BY <3>1, TotalRemove
    <3>. QED
      BY <3>2, <3>3 DEF Z
  <2>4. Total(f, T) = f[x] + Total(f, T \ {x})
    BY <1>1, <2>1, TotalRemove
  <2>5. Total(f, S \cup (T \ {x})) = Total(f, S) + Total(f, T \ {x})
    BY <1>4, <2>1
  <2>6. Total(f, T \ {x}) \in Nat /\ f[x] \in Nat
    BY <1>2, <2>1
  <2>. HIDE DEF B
  <2>7. Total(f, S \cup T) = Total(f, S) + Total(f, T)
    BY <1>2, <2>3, <2>4, <2>5, <2>6
  <2>. QED
    BY <2>7 DEF B
<1>. HIDE DEF B
<1>5. R \in B
  BY <1>3, <1>4, SubsetInduction
<1>. QED
  BY <1>5 DEF B

\* A sum follows a bijection of what it sums over.
LEMMA TotalReindex ==
    ASSUME NEW S, IsFiniteSet(S), NEW R, IsFiniteSet(R), NEW f, NEW h,
           NEW p \in [S -> R],
           \A x, y \in S : p[x] = p[y] => x = y,
           \A z \in R : \E x \in S : p[x] = z,
           \A x \in S : f[x] \in Nat /\ f[x] = h[p[x]]
    PROVE  Total(f, S) = Total(h, R)
<1>. DEFINE Image(T) == {z \in R : \E x \in T : p[x] = z}
            B == {T \in SUBSET S : Total(f, T) = Total(h, Image(T))}
<1>1. \A T \in SUBSET S : IsFiniteSet(T) /\ IsFiniteSet(Image(T))
  BY FS_Subset
<1>2. \A z \in R : h[z] \in Nat
  OBVIOUS
<1>3. {} \in B
  <2>1. Image({}) = {}
    OBVIOUS
  <2>. QED
    BY <2>1, TotalEmpty
<1>4. ASSUME NEW T \in SUBSET S, T # {}, \A x \in T : T \ {x} \in B
      PROVE  T \in B
  <2>1. PICK x \in T : TRUE
    BY <1>4
  <2>2. Image(T) \ {p[x]} = Image(T \ {x}) /\ p[x] \in Image(T)
    BY <2>1
  <2>3. Total(f, T) = f[x] + Total(f, T \ {x})
    BY <1>1, <2>1, TotalRemove
  <2>4. Total(h, Image(T)) = h[p[x]] + Total(h, Image(T) \ {p[x]})
    <3>. DEFINE Z == Image(T)
    <3>1. IsFiniteSet(Z) /\ p[x] \in Z /\ \A y \in Z : h[y] \in Nat
      BY <1>1, <1>2, <2>2
    <3>. HIDE DEF Z
    <3>2. Total(h, Z) = h[p[x]] + Total(h, Z \ {p[x]})
      BY <3>1, TotalRemove
    <3>. QED
      BY <3>2 DEF Z
  <2>5. Total(f, T \ {x}) = Total(h, Image(T \ {x}))
    BY <1>4, <2>1
  <2>6. f[x] = h[p[x]]
    BY <2>1
  <2>. HIDE DEF Image
  <2>7. Total(f, T) = Total(h, Image(T))
    BY <2>2, <2>3, <2>4, <2>5, <2>6
  <2>. QED
    BY <2>7
<1>. HIDE DEF B
<1>5. S \in B
  BY <1>3, <1>4, SubsetInduction
<1>6. Image(S) = R
  OBVIOUS
<1>. QED
  BY <1>5, <1>6 DEF B

\* What a sum loses with a part of its set.
LEMMA TotalMinus ==
    ASSUME NEW S, IsFiniteSet(S), NEW T \in SUBSET S, NEW f, \A x \in S : f[x] \in Nat
    PROVE  /\ Total(f, S) = Total(f, S \ T) + Total(f, T)
           /\ Total(f, S \ T) \in Nat /\ Total(f, T) \in Nat
           /\ Total(f, T) <= Total(f, S)
<1>. DEFINE R == S \ T
<1>1. IsFiniteSet(T) /\ IsFiniteSet(R) /\ R \cap T = {} /\ R \cup T = S
  BY FS_Subset
<1>2. \A x \in R \cup T : f[x] \in Nat
  OBVIOUS
<1>. HIDE DEF R
<1>3. Total(f, R \cup T) = Total(f, R) + Total(f, T)
  BY <1>1, <1>2, TotalUnion
<1>4. Total(f, R) \in Nat /\ Total(f, T) \in Nat
  BY <1>1, <1>2, TotalType
<1>5. Total(f, S) = Total(f, R) + Total(f, T)
  BY <1>1, <1>3, Zenon
<1>6. Total(f, T) <= Total(f, S)
  BY <1>4, <1>5
<1>. QED
  BY <1>4, <1>5, <1>6, Zenon DEF R

\* A sum of zeros.
LEMMA TotalZero ==
    ASSUME NEW S, IsFiniteSet(S), NEW f, \A x \in S : f[x] = 0
    PROVE  Total(f, S) = 0
<1>. DEFINE B == {T \in SUBSET S : Total(f, T) = 0}
<1>1. {} \in B
  BY TotalEmpty
<1>2. ASSUME NEW T \in SUBSET S, T # {}, \A x \in T : T \ {x} \in B
      PROVE  T \in B
  <2>1. PICK x \in T : TRUE
    BY <1>2
  <2>2. IsFiniteSet(T) /\ \A y \in T : f[y] \in Nat
    BY FS_Subset
  <2>3. Total(f, T) = f[x] + Total(f, T \ {x})
    BY <2>1, <2>2, TotalRemove
  <2>4. f[x] = 0 /\ Total(f, T \ {x}) = 0
    BY <1>2, <2>1
  <2>. QED
    BY <2>3, <2>4
<1>. HIDE DEF B
<1>3. S \in B
  BY <1>1, <1>2, SubsetInduction
<1>. QED
  BY <1>3 DEF B

\* A sum of smaller naturals is smaller.
LEMMA TotalLess ==
    ASSUME NEW S, IsFiniteSet(S), NEW f, NEW h,
           \A x \in S : f[x] \in Nat, \A x \in S : h[x] \in Nat,
           \A x \in S : f[x] <= h[x]
    PROVE  Total(f, S) <= Total(h, S)
<1>. DEFINE B == {T \in SUBSET S : Total(f, T) <= Total(h, T)}
<1>1. {} \in B
  BY TotalEmpty
<1>2. ASSUME NEW T \in SUBSET S, T # {}, \A x \in T : T \ {x} \in B
      PROVE  T \in B
  <2>1. IsFiniteSet(T)
    BY FS_Subset
  <2>2. PICK x \in T : TRUE
    BY <1>2
  <2>3. /\ Total(f, T) = f[x] + Total(f, T \ {x})
        /\ Total(h, T) = h[x] + Total(h, T \ {x})
    BY <2>1, TotalRemove
  <2>4. Total(f, T \ {x}) \in Nat /\ Total(h, T \ {x}) \in Nat
    <3>1. IsFiniteSet(T \ {x})
      BY <2>1, FS_RemoveElement
    <3>. QED
      BY <3>1, TotalType
  <2>5. Total(f, T \ {x}) <= Total(h, T \ {x})
    BY <1>2, <2>2
  <2>6. f[x] \in Nat /\ h[x] \in Nat /\ f[x] <= h[x]
    BY <2>2
  <2>. HIDE DEF B
  <2>7. Total(f, T) <= Total(h, T)
    BY <2>3, <2>4, <2>5, <2>6
  <2>. QED
    BY <2>7 DEF B
<1>. HIDE DEF B
<1>3. S \in B
  BY <1>1, <1>2, SubsetInduction
<1>. QED
  BY <1>3 DEF B

-----------------------------------------------------------------------------
(* SeqTotal.                                                               *)

\* The positions of a sequence and the weights at them.
LEMMA SeqWeights ==
    ASSUME NEW E, NEW w \in [E -> Nat], NEW s \in Seq(E)
    PROVE  /\ DOMAIN s = 1..Len(s) /\ Len(s) \in Nat /\ IsFiniteSet(DOMAIN s)
           /\ \A k \in DOMAIN s : s[k] \in E /\ w[s[k]] \in Nat
<1>1. DOMAIN s = 1..Len(s) /\ Len(s) \in Nat
  OBVIOUS
<1>2. IsFiniteSet(1..Len(s))
  BY <1>1, FS_Interval
<1>. QED
  BY <1>1, <1>2

\* A sum of weights is a natural.
LEMMA SeqTotalType ==
    ASSUME NEW E, NEW w \in [E -> Nat], NEW s \in Seq(E)
    PROVE  SeqTotal(w, s) \in Nat
<1>. DEFINE f == [k \in DOMAIN s |-> w[s[k]]]
<1>1. IsFiniteSet(DOMAIN s) /\ \A k \in DOMAIN s : f[k] \in Nat
  BY SeqWeights
<1>. HIDE DEF f
<1>2. Total(f, DOMAIN s) \in Nat
  BY <1>1, TotalType
<1>. QED
  BY <1>2 DEF f, SeqTotal

\* The sum over an empty sequence.
LEMMA SeqTotalEmpty ==
    ASSUME NEW w
    PROVE  SeqTotal(w, <<>>) = 0
<1>1. DOMAIN <<>> = {}
  OBVIOUS
<1>. QED
  BY <1>1, TotalEmpty, Zenon DEF SeqTotal

\* The weight of one element is at most the sum.
LEMMA SeqTotalBounds ==
    ASSUME NEW E, NEW w \in [E -> Nat], NEW s \in Seq(E), NEW k \in DOMAIN s
    PROVE  w[s[k]] <= SeqTotal(w, s)
<1>. DEFINE f == [i \in DOMAIN s |-> w[s[i]]]
<1>1. IsFiniteSet(DOMAIN s) /\ (\A i \in DOMAIN s : f[i] \in Nat) /\ f[k] = w[s[k]]
  BY SeqWeights
<1>. HIDE DEF f
<1>2. f[k] <= Total(f, DOMAIN s)
  BY <1>1, TotalBounds
<1>. QED
  BY <1>1, <1>2 DEF f, SeqTotal

\* The sum over a concatenation.
LEMMA SeqTotalConcat ==
    ASSUME NEW E, NEW w \in [E -> Nat], NEW s \in Seq(E), NEW t \in Seq(E)
    PROVE  SeqTotal(w, s \o t) = SeqTotal(w, s) + SeqTotal(w, t)
<1>. DEFINE m == Len(s)  n == Len(t)  u == s \o t
            f == [k \in DOMAIN s |-> w[s[k]]]
            h == [k \in DOMAIN t |-> w[t[k]]]
            g == [k \in DOMAIN u |-> w[u[k]]]
            high == (m + 1)..(m + n)
            shift == [k \in DOMAIN t |-> m + k]
<1>1. m \in Nat /\ n \in Nat /\ DOMAIN s = 1..m /\ DOMAIN t = 1..n
  OBVIOUS
<1>2. /\ u \in Seq(E) /\ Len(u) = m + n /\ DOMAIN u = 1..(m + n)
      /\ \A k \in 1..m : u[k] = s[k]
      /\ \A k \in 1..n : u[m + k] = t[k]
  BY <1>1
<1>. HIDE DEF u, m, n
<1>3. IsFiniteSet(DOMAIN s) /\ IsFiniteSet(DOMAIN t) /\ IsFiniteSet(high)
  BY <1>1, FS_Interval
<1>4. DOMAIN u = DOMAIN s \cup high /\ DOMAIN s \cap high = {}
  BY <1>1, <1>2
<1>5. /\ \A k \in DOMAIN s : f[k] \in Nat /\ f[k] = g[k]
      /\ \A k \in DOMAIN t : h[k] \in Nat
      /\ \A k \in DOMAIN u : g[k] \in Nat
  BY <1>1, <1>2, <1>4
<1>6. Total(f, DOMAIN s) = Total(g, DOMAIN s)
  <2>. HIDE DEF f, g
  <2>. QED
    BY <1>3, <1>5, TotalSame
<1>7. Total(h, DOMAIN t) = Total(g, high)
  <2>1. shift \in [DOMAIN t -> high]
    BY <1>1
  <2>2. \A x, y \in DOMAIN t : shift[x] = shift[y] => x = y
    BY <1>1
  <2>3. \A z \in high : \E x \in DOMAIN t : shift[x] = z
    <3>. SUFFICES ASSUME NEW z \in high PROVE \E x \in DOMAIN t : shift[x] = z
      OBVIOUS
    <3>1. z - m \in DOMAIN t /\ m + (z - m) = z
      BY <1>1
    <3>. QED
      BY <3>1
  <2>4. \A x \in DOMAIN t : h[x] \in Nat /\ h[x] = g[shift[x]]
    BY <1>1, <1>2, <1>5
  <2>. DEFINE D == DOMAIN t
  <2>5. IsFiniteSet(D) /\ IsFiniteSet(high) /\ shift \in [D -> high]
    BY <1>3, <2>1
  <2>6. \A x, y \in D : shift[x] = shift[y] => x = y
    BY <2>2
  <2>7. \A z \in high : \E x \in D : shift[x] = z
    BY <2>3
  <2>8. \A x \in D : h[x] \in Nat /\ h[x] = g[shift[x]]
    BY <2>4
  <2>. HIDE DEF shift, high, h, g, D
  <2>9. Total(h, D) = Total(g, high)
    BY <2>5, <2>6, <2>7, <2>8, TotalReindex
  <2>. QED
    BY <2>9 DEF D
<1>8. Total(g, DOMAIN s \cup high) = Total(g, DOMAIN s) + Total(g, high)
  <2>. HIDE DEF g, high
  <2>. QED
    BY <1>3, <1>4, <1>5, TotalUnion
<1>9. Total(g, DOMAIN u) = Total(f, DOMAIN s) + Total(h, DOMAIN t)
  BY <1>4, <1>6, <1>7, <1>8, Zenon
<1>. QED
  BY <1>9, Zenon DEF SeqTotal, u

\* The sum over a sequence of one element.
LEMMA SeqTotalSingle ==
    ASSUME NEW E, NEW w \in [E -> Nat], NEW e \in E
    PROVE  SeqTotal(w, <<e>>) = w[e]
<1>. DEFINE s == <<e>>
            f == [k \in DOMAIN s |-> w[s[k]]]
<1>1. DOMAIN s = {1} /\ f[1] = w[e] /\ w[e] \in Nat
  OBVIOUS
<1>2. IsFiniteSet({1}) /\ {1} \ {1} = {}
  BY FS_Singleton
<1>. HIDE DEF f, s
<1>3. Total(f, {1}) = f[1] + Total(f, {1} \ {1})
  BY <1>1, <1>2, TotalRemove
<1>4. Total(f, DOMAIN s) = w[e]
  BY <1>1, <1>2, <1>3, TotalEmpty
<1>. QED
  BY <1>4, Zenon DEF f, s, SeqTotal

\* An element is appended.
LEMMA SeqTotalAppend ==
    ASSUME NEW E, NEW w \in [E -> Nat], NEW s \in Seq(E), NEW e \in E
    PROVE  SeqTotal(w, Append(s, e)) = SeqTotal(w, s) + w[e]
<1>1. Append(s, e) = s \o <<e>> /\ <<e>> \in Seq(E)
  OBVIOUS
<1>2. SeqTotal(w, s \o <<e>>) = SeqTotal(w, s) + SeqTotal(w, <<e>>)
  BY <1>1, SeqTotalConcat
<1>. QED
  BY <1>1, <1>2, SeqTotalSingle

\* A sequence is cut in two.
LEMMA SeqTotalSplit ==
    ASSUME NEW E, NEW w \in [E -> Nat], NEW s \in Seq(E), NEW n \in 0..Len(s)
    PROVE  SeqTotal(w, s) = SeqTotal(w, SubSeq(s, 1, n)) + SeqTotal(w, SubSeq(s, n + 1, Len(s)))
<1>. DEFINE a == SubSeq(s, 1, n)  b == SubSeq(s, n + 1, Len(s))
<1>1. a \in Seq(E) /\ b \in Seq(E)
  OBVIOUS
<1>2. s = a \o b
  <2>1. /\ Len(s) \in Nat /\ 1 \in 1..(Len(s) + 1)
        /\ n \in (1 - 1)..Len(s) /\ Len(s) \in n..Len(s)
    OBVIOUS
  <2>2. a \o b = SubSeq(s, 1, Len(s))
    BY <2>1, ConcatAdjacentSubSeq, Zenon
  <2>. QED
    BY <2>2, SubSeqFull, Zenon
<1>. HIDE DEF a, b
<1>3. SeqTotal(w, a \o b) = SeqTotal(w, a) + SeqTotal(w, b)
  BY <1>1, SeqTotalConcat
<1>. QED
  BY <1>2, <1>3 DEF a, b

\* The element at a position is taken out.
LEMMA SeqTotalRemoveAt ==
    ASSUME NEW E, NEW w \in [E -> Nat], NEW s \in Seq(E), NEW k \in DOMAIN s
    PROVE  SeqTotal(w, s)
             = SeqTotal(w, SubSeq(s, 1, k - 1) \o SubSeq(s, k + 1, Len(s))) + w[s[k]]
<1>. DEFINE a == SubSeq(s, 1, k - 1)  c == SubSeq(s, 1, k)  b == SubSeq(s, k + 1, Len(s))
<1>0. /\ a \in Seq(E) /\ b \in Seq(E) /\ c \in Seq(E)
      /\ k \in 0..Len(s) /\ s[k] \in E
      /\ 1 \in 1..Len(s) /\ k \in 1..Len(s)
  OBVIOUS
<1>1. c = a \o <<s[k]>> /\ <<s[k]>> \in Seq(E)
  <2>1. c = a \o <<s[k]>>
    BY <1>0, SubSeqRecursiveSecond, Zenon
  <2>. QED
    BY <1>0, <2>1
<1>2. SeqTotal(w, s) = SeqTotal(w, c) + SeqTotal(w, b)
  BY <1>0, SeqTotalSplit
<1>. HIDE DEF a, b, c
<1>3. SeqTotal(w, c) = SeqTotal(w, a) + w[s[k]]
  <2>1. SeqTotal(w, a \o <<s[k]>>) = SeqTotal(w, a) + SeqTotal(w, <<s[k]>>)
    BY <1>0, <1>1, SeqTotalConcat
  <2>. QED
    BY <1>0, <1>1, <2>1, SeqTotalSingle, Zenon
<1>4. SeqTotal(w, a \o b) = SeqTotal(w, a) + SeqTotal(w, b)
  BY <1>0, SeqTotalConcat
<1>5. SeqTotal(w, a) \in Nat /\ SeqTotal(w, b) \in Nat /\ w[s[k]] \in Nat
  BY <1>0, SeqTotalType
<1>6. SeqTotal(w, s) = SeqTotal(w, a \o b) + w[s[k]]
  BY <1>2, <1>3, <1>4, <1>5
<1>. QED
  BY <1>6 DEF a, b

\* Two sequences that differ at most at one position.
DifferAt(s, t, k) ==
    /\ Len(t) = Len(s) /\ k \in DOMAIN s
    /\ \A i \in DOMAIN s : i # k => t[i] = s[i]

\* The element at a position is replaced.
LEMMA SeqTotalUpdate ==
    ASSUME NEW E, NEW w \in [E -> Nat], NEW s \in Seq(E), NEW t \in Seq(E),
           NEW k, DifferAt(s, t, k)
    PROVE  SeqTotal(w, t) + w[s[k]] = SeqTotal(w, s) + w[t[k]]
<1>. DEFINE f == [i \in DOMAIN s |-> w[s[i]]]  h == [i \in DOMAIN t |-> w[t[i]]]
<1>1. DOMAIN t = DOMAIN s /\ IsFiniteSet(DOMAIN s) /\ k \in DOMAIN s
  BY SeqWeights DEF DifferAt
<1>2. /\ \A i \in DOMAIN s : f[i] \in Nat /\ h[i] \in Nat
      /\ \A i \in DOMAIN s \ {k} : f[i] = h[i]
      /\ f[k] = w[s[k]] /\ h[k] = w[t[k]]
  BY <1>1 DEF DifferAt
<1>. HIDE DEF f, h
<1>3. Total(h, DOMAIN s) + f[k] = Total(f, DOMAIN s) + h[k]
  <2>. DEFINE D == DOMAIN s
  <2>1. IsFiniteSet(D) /\ k \in D
    BY <1>1
  <2>2. (\A i \in D : f[i] \in Nat) /\ \A i \in D : h[i] \in Nat
    BY <1>2
  <2>3. \A i \in D : i # k => f[i] = h[i]
    BY <1>2
  <2>. HIDE DEF D
  <2>4. IsFiniteSet(D \ {k})
    BY <2>1, FS_RemoveElement
  <2>5. Total(f, D \ {k}) = Total(h, D \ {k})
    BY <2>2, <2>3, <2>4, TotalSame
  <2>6. Total(f, D \ {k}) \in Nat
    BY <2>2, <2>4, TotalType
  <2>7. Total(f, D) = f[k] + Total(f, D \ {k})
    BY <2>1, <2>2, TotalRemove
  <2>8. Total(h, D) = h[k] + Total(h, D \ {k})
    BY <2>1, <2>2, TotalRemove
  <2>9. Total(h, D) + f[k] = Total(f, D) + h[k]
    BY <2>1, <2>2, <2>5, <2>6, <2>7, <2>8
  <2>. QED
    BY <2>9 DEF D
<1>. QED
  BY <1>1, <1>2, <1>3 DEF f, h, SeqTotal

\* A sum of smaller weights is smaller.
LEMMA SeqTotalLess ==
    ASSUME NEW E, NEW w \in [E -> Nat], NEW v \in [E -> Nat], NEW s \in Seq(E),
           \A e \in E : w[e] <= v[e]
    PROVE  SeqTotal(w, s) <= SeqTotal(v, s)
<1>. DEFINE f == [i \in DOMAIN s |-> w[s[i]]]  h == [i \in DOMAIN s |-> v[s[i]]]
<1>1. IsFiniteSet(DOMAIN s)
  BY SeqWeights
<1>2. \A i \in DOMAIN s : s[i] \in E
  OBVIOUS
<1>3. /\ \A i \in DOMAIN s : f[i] \in Nat
      /\ \A i \in DOMAIN s : h[i] \in Nat
      /\ \A i \in DOMAIN s : f[i] <= h[i]
  BY <1>2
<1>. HIDE DEF f, h
<1>4. Total(f, DOMAIN s) <= Total(h, DOMAIN s)
  <2>. DEFINE D == DOMAIN s
  <2>1. /\ IsFiniteSet(D)
        /\ \A i \in D : f[i] \in Nat
        /\ \A i \in D : h[i] \in Nat
        /\ \A i \in D : f[i] <= h[i]
    BY <1>1, <1>3
  <2>. HIDE DEF D
  <2>2. Total(f, D) <= Total(h, D)
    BY <2>1, TotalLess
  <2>. QED
    BY <2>2 DEF D
<1>. QED
  BY <1>4 DEF f, h, SeqTotal

\* How often e occurs in a sequence over E.
Occurrences(E, e, s) == SeqTotal([x \in E |-> IF x = e THEN 1 ELSE 0], s)

\* An element occurs once in a sequence without repetition, or not at all.
LEMMA OccursOnce ==
    ASSUME NEW E, NEW s \in Seq(E), NEW e \in E,
           \A i, j \in DOMAIN s : s[i] = s[j] => i = j
    PROVE  Occurrences(E, e, s) = IF \E i \in DOMAIN s : s[i] = e THEN 1 ELSE 0
<1>. DEFINE w == [x \in E |-> IF x = e THEN 1 ELSE 0]
            f == [i \in DOMAIN s |-> w[s[i]]]
            D == DOMAIN s
<1>1. IsFiniteSet(D) /\ \A i \in D : s[i] \in E
  <2>1. w \in [E -> Nat]
    OBVIOUS
  <2>. QED
    BY <2>1, SeqWeights, Zenon
<1>2. \A i \in D : f[i] = IF s[i] = e THEN 1 ELSE 0
  BY <1>1
<1>3. Occurrences(E, e, s) = Total(f, D)
  BY Zenon DEF Occurrences, SeqTotal
<1>. HIDE DEF f, D
<1>4. CASE \E i \in D : s[i] = e
  <2>1. PICK i \in D : s[i] = e
    BY <1>4
  <2>2. \A j \in D \ {i} : f[j] = 0
    BY <1>2, <2>1 DEF D
  <2>3. f[i] = 1 /\ \A j \in D : f[j] \in Nat
    BY <1>2, <2>1
  <2>4. Total(f, D) = f[i] + Total(f, D \ {i})
    BY <1>1, <2>1, <2>3, TotalRemove
  <2>5. IsFiniteSet(D \ {i})
    BY <1>1, FS_RemoveElement
  <2>6. Total(f, D \ {i}) = 0
    BY <2>2, <2>5, TotalZero
  <2>. QED
    BY <1>3, <1>4, <2>3, <2>4, <2>6 DEF D
<1>5. CASE ~ \E i \in D : s[i] = e
  <2>1. \A i \in D : f[i] = 0
    BY <1>2, <1>5
  <2>2. Total(f, D) = 0
    BY <1>1, <2>1, TotalZero
  <2>. QED
    BY <1>3, <1>5, <2>2 DEF D
<1>. QED
  BY <1>4, <1>5

\* Occurrences are naturals, none in the empty sequence, and add up over a
\* concatenation.
LEMMA OccurrencesConcat ==
    ASSUME NEW E, NEW e
    PROVE  /\ Occurrences(E, e, <<>>) = 0
           /\ \A s \in Seq(E) : Occurrences(E, e, s) \in Nat
           /\ \A s, t \in Seq(E) :
                 Occurrences(E, e, s \o t) = Occurrences(E, e, s) + Occurrences(E, e, t)
           /\ \A x \in E : Occurrences(E, e, <<x>>) = IF x = e THEN 1 ELSE 0
<1>. DEFINE w == [x \in E |-> IF x = e THEN 1 ELSE 0]
<1>1. w \in [E -> Nat] /\ \A x \in E : w[x] = IF x = e THEN 1 ELSE 0
  OBVIOUS
<1>. HIDE DEF w
<1>2. SeqTotal(w, <<>>) = 0 /\ \A s \in Seq(E) : SeqTotal(w, s) \in Nat
  BY <1>1, SeqTotalEmpty, SeqTotalType
<1>3. \A s, t \in Seq(E) : SeqTotal(w, s \o t) = SeqTotal(w, s) + SeqTotal(w, t)
  BY <1>1, SeqTotalConcat
<1>4. \A x \in E : SeqTotal(w, <<x>>) = w[x]
  BY <1>1, SeqTotalSingle
<1>5. \A s : Occurrences(E, e, s) = SeqTotal(w, s)
  BY Zenon DEF Occurrences, w
<1>. QED
  BY <1>1, <1>2, <1>3, <1>4, <1>5, Zenon

-----------------------------------------------------------------------------
(* Subsequences.                                                           *)

\* The position that k has among the positions K.
Rank(K) == [k \in K |-> Cardinality({j \in K : j <= k})]

\* Ranking is a bijection onto the first numbers.
LEMMA RankBijection ==
    ASSUME NEW L \in Nat, NEW K \in SUBSET (1 .. L)
    PROVE  /\ IsFiniteSet(K) /\ Cardinality(K) \in Nat /\ Cardinality(K) <= L
           /\ \A k \in K : Rank(K)[k] \in 1 .. Cardinality(K)
           /\ \A j, k \in K : Rank(K)[j] = Rank(K)[k] => j = k
           /\ \A n \in 1 .. Cardinality(K) : \E k \in K : Rank(K)[k] = n
<1>. DEFINE upTo(k) == {j \in K : j <= k}
<1>1. IsFiniteSet(K) /\ Cardinality(K) \in Nat /\ Cardinality(K) <= L
  <2>1. 1 \in Int /\ L \in Int
    OBVIOUS
  <2>2. IsFiniteSet(1 .. L) /\ Cardinality(1 .. L) = IF 1 > L THEN 0 ELSE L - 1 + 1
    BY <2>1, FS_Interval, Zenon
  <2>3. IsFiniteSet(K) /\ Cardinality(K) <= Cardinality(1 .. L)
    BY <2>2, FS_Subset
  <2>. QED
    BY <2>2, <2>3, FS_CardinalityType
<1>2. \A k \in K : upTo(k) \in SUBSET K /\ IsFiniteSet(upTo(k)) /\ Cardinality(upTo(k)) <= Cardinality(K)
  BY <1>1, FS_Subset
<1>3. \A k \in K : Cardinality(upTo(k)) \in Nat /\ upTo(k) # {}
  BY <1>2, FS_CardinalityType
<1>4. \A k \in K : Cardinality(upTo(k)) # 0
  BY <1>2, <1>3, FS_EmptySet
<1>5. \A k \in K : Rank(K)[k] = Cardinality(upTo(k)) /\ Rank(K)[k] \in 1 .. Cardinality(K)
  BY <1>1, <1>2, <1>3, <1>4 DEF Rank
<1>6. ASSUME NEW j \in K, NEW k \in K, j < k
      PROVE  Rank(K)[j] # Rank(K)[k]
  <2>1. upTo(j) \in SUBSET upTo(k) /\ upTo(j) # upTo(k)
    <3>1. \A i \in K : i \in Int
      OBVIOUS
    <3>2. k \in upTo(k) /\ k \notin upTo(j)
      BY <1>6, <3>1
    <3>3. \A i \in K : i <= j => i <= k
      BY <1>6, <3>1
    <3>. QED
      BY <3>2, <3>3
  <2>2. Cardinality(upTo(j)) # Cardinality(upTo(k))
    BY <1>2, <2>1, FS_Subset
  <2>. QED
    BY <1>5, <2>2
<1>7. \A j, k \in K : Rank(K)[j] = Rank(K)[k] => j = k
  BY <1>6
<1>8. Rank(K) \in Injection(K, 1 .. Cardinality(K))
  BY <1>5, <1>7 DEF Rank, Injection, IsInjective
<1>9. IsFiniteSet(1 .. Cardinality(K)) /\ Cardinality(1 .. Cardinality(K)) = Cardinality(K)
  <2>1. 1 \in Int /\ Cardinality(K) \in Int
    BY <1>1
  <2>2. /\ IsFiniteSet(1 .. Cardinality(K))
        /\ Cardinality(1 .. Cardinality(K)) = IF 1 > Cardinality(K) THEN 0 ELSE Cardinality(K) - 1 + 1
    BY <2>1, FS_Interval, Zenon
  <2>. QED
    BY <1>1, <2>2
<1>10. Rank(K) \in Surjection(K, 1 .. Cardinality(K))
  BY <1>8, <1>9, FS_Injection
<1>. QED
  BY <1>1, <1>5, <1>7, <1>10 DEF Surjection

\* A subsequence is the sequence of the elements at its positions.
LEMMA SubsequenceElements ==
    ASSUME NEW S, NEW s \in Seq(S), NEW K \in SUBSET DOMAIN s
    PROVE  /\ Subsequence(s, K) \in Seq(S)
           /\ IsFiniteSet(K) /\ Len(Subsequence(s, K)) = Cardinality(K)
           /\ \A n \in DOMAIN Subsequence(s, K) : \E k \in K : Subsequence(s, K)[n] = s[k]
           /\ \A k \in K : /\ Rank(K)[k] \in DOMAIN Subsequence(s, K)
                           /\ Subsequence(s, K)[Rank(K)[k]] = s[k]
<1>. DEFINE C == Cardinality(K)  at(n) == CHOOSE k \in K : Cardinality({j \in K : j <= k}) = n
<1>1. Len(s) \in Nat /\ K \in SUBSET (1 .. Len(s)) /\ \A k \in K : s[k] \in S
  OBVIOUS
<1>2. /\ IsFiniteSet(K) /\ C \in Nat
      /\ \A k \in K : Rank(K)[k] \in 1 .. C
      /\ \A j, k \in K : Rank(K)[j] = Rank(K)[k] => j = k
      /\ \A n \in 1 .. C : \E k \in K : Rank(K)[k] = n
  BY <1>1, RankBijection
<1>3. \A k \in K : Rank(K)[k] = Cardinality({j \in K : j <= k})
  BY DEF Rank
<1>4. \A n \in 1 .. C : at(n) \in K /\ Rank(K)[at(n)] = n
  BY <1>2, <1>3
<1>5. \A k \in K : at(Rank(K)[k]) = k
  BY <1>2, <1>4
<1>6. Subsequence(s, K) = [n \in 1 .. C |-> s[at(n)]]
  BY Zenon DEF Subsequence
<1>. HIDE DEF C, at
<1>7. Subsequence(s, K) \in [1 .. C -> S]
  BY <1>1, <1>4, <1>6
<1>8. Subsequence(s, K) \in Seq(S) /\ Len(Subsequence(s, K)) = C
  BY <1>2, <1>7, LenProperties, SeqDef
<1>9. DOMAIN Subsequence(s, K) = 1 .. C
  BY <1>6
<1>10. \A n \in 1 .. C : Subsequence(s, K)[n] = s[at(n)]
  BY <1>6
<1>. QED
  BY <1>2, <1>4, <1>5, <1>8, <1>9, <1>10 DEF C

\* Ranking and the subsequence keep the order.
LEMMA RankOrder ==
    ASSUME NEW L \in Nat, NEW K \in SUBSET (1 .. L), NEW j \in K, NEW k \in K, j < k
    PROVE  Rank(K)[j] < Rank(K)[k]
<1>. DEFINE upTo(i) == {l \in K : l <= i}
<1>1. /\ IsFiniteSet(K)
      /\ \A i \in K : Rank(K)[i] \in 1 .. Cardinality(K) /\ Rank(K)[i] = Cardinality(upTo(i))
      /\ Rank(K)[j] # Rank(K)[k]
  BY RankBijection DEF Rank
<1>2. upTo(j) \in SUBSET upTo(k)
  <2>1. \A i \in K : i \in Int
    OBVIOUS
  <2>2. \A l \in K : l <= j => l <= k
    BY <2>1
  <2>. QED
    BY <2>2
<1>3. IsFiniteSet(upTo(k))
  BY <1>1, FS_Subset
<1>4. Cardinality(upTo(j)) <= Cardinality(upTo(k))
  BY <1>2, <1>3, FS_Subset
<1>5. Rank(K)[j] \in Nat /\ Rank(K)[k] \in Nat
  BY <1>1, RankBijection
<1>. QED
  BY <1>1, <1>4, <1>5

LEMMA SubsequenceOrder ==
    ASSUME NEW S, NEW s \in Seq(S), NEW K \in SUBSET DOMAIN s,
           NEW m \in DOMAIN Subsequence(s, K), NEW n \in DOMAIN Subsequence(s, K), m < n
    PROVE  \E j, k \in K : j < k /\ Subsequence(s, K)[m] = s[j] /\ Subsequence(s, K)[n] = s[k]
<1>1. Len(s) \in Nat /\ K \in SUBSET (1 .. Len(s))
  OBVIOUS
<1>2. /\ Subsequence(s, K) \in Seq(S) /\ Len(Subsequence(s, K)) = Cardinality(K)
      /\ \A k \in K : Subsequence(s, K)[Rank(K)[k]] = s[k]
  BY SubsequenceElements
<1>3. m \in 1 .. Cardinality(K) /\ n \in 1 .. Cardinality(K)
  BY <1>2
<1>4. PICK j \in K, k \in K : Rank(K)[j] = m /\ Rank(K)[k] = n
  BY <1>1, <1>3, RankBijection
<1>5. j # k /\ ~(k < j)
  <2>1. k < j => Rank(K)[k] < Rank(K)[j]
    BY <1>1, RankOrder
  <2>2. m \in Int /\ n \in Int
    BY <1>3
  <2>. QED
    BY <1>4, <2>1, <2>2
<1>6. j \in Int /\ k \in Int
  BY <1>1
<1>. QED
  BY <1>2, <1>4, <1>5, <1>6
=============================================================================
