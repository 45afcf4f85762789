---------------------------- MODULE FoldTheorems ----------------------------
(***************************************************************************)
(* Facts about folding an operation over a sequence from the left, for     *)
(* every operation: a module that folds an operation of its own takes them *)
(* from an INSTANCE of this one.  The community modules define FoldLeft by *)
(* a recursion over the subsets of the sequence's domain that takes away   *)
(* the largest index; Fold is that recursion.                              *)
(***************************************************************************)
EXTENDS Integers, Sequences, SequenceTheorems, WellFoundedInduction, TLAPS

CONSTANT Op(_, _)

Largest(T) == CHOOSE x \in T : \A y \in T : x >= y

\* g gives every subset of D what the elements of s at it fold to.
Solves(g, base, s, D) ==
    g = [T \in SUBSET D |-> IF T = {} THEN base
                            ELSE Op(g[T \ {Largest(T)}], s[Largest(T)])]

\* What the elements of s fold to, one after the other, from base.
Fold(base, s) == (CHOOSE g : Solves(g, base, s, DOMAIN s))[DOMAIN s]

-----------------------------------------------------------------------------
(* Induction, repeated from AggregateTheorems: every instance of this module *)
(* carries what it extends, so it extends no more than it needs.           *)

\* Induction over the naturals, for the set B of those that satisfy a claim.
LEMMA NatSetInduction ==
    ASSUME NEW B, 0 \in B, \A n \in Nat : n \in B => n + 1 \in B
    PROVE  Nat \subseteq B
<1>. SUFFICES ASSUME Nat \ B # {} PROVE FALSE
  OBVIOUS
<1>1. Nat \ B \subseteq Nat /\ IsWellFoundedOn(OpToRel(<, Nat), Nat)
  BY NatLessThanWellFounded
<1>2. \E x \in Nat \ B : \A y \in Nat \ B : ~ (<<y, x>> \in OpToRel(<, Nat))
  BY <1>1, WFMin, Zenon
<1>3. PICK x \in Nat \ B : \A y \in Nat \ B : ~ (<<y, x>> \in OpToRel(<, Nat))
  BY <1>2
<1>4. \A y \in Nat \ B : ~ (y < x)
  BY <1>3 DEF OpToRel
<1>5. x # 0
  OBVIOUS
<1>6. x - 1 \in Nat /\ x - 1 < x /\ (x - 1) + 1 = x
  BY <1>5
<1>. QED
  BY <1>4, <1>6

\* Induction over the sequences over a set: a claim that holds of the empty one
\* and passes from a sequence to what it is with one element more holds of all.
LEMMA SequenceInduction ==
    ASSUME NEW S, NEW B, <<>> \in B,
           \A s \in Seq(S) : \A e \in S : s \in B => Append(s, e) \in B
    PROVE  Seq(S) \subseteq B
<1>. DEFINE N == {n \in Nat : \A s \in Seq(S) : Len(s) = n => s \in B}
<1>1. 0 \in N
  <2>1. \A s \in Seq(S) : Len(s) = 0 => s = <<>>
    BY EmptySeq
  <2>. QED
    BY <2>1
<1>2. ASSUME NEW n \in Nat, n \in N
      PROVE  n + 1 \in N
  <2>. SUFFICES ASSUME NEW s \in Seq(S), Len(s) = n + 1
               PROVE  s \in B
    OBVIOUS
  <2>1. PICK t \in Seq(S), e \in S : s = Append(t, e)
    <3>1. s # <<>>
      OBVIOUS
    <3>. QED
      BY <3>1, SequenceEmptyOrAppend
  <2>2. Len(t) = n
    BY <2>1, AppendProperties
  <2>. QED
    BY <1>2, <2>1, <2>2
<1>. HIDE DEF N
<1>3. Nat \subseteq N
  BY <1>1, <1>2, NatSetInduction
<1>. QED
  BY <1>3 DEF N

-----------------------------------------------------------------------------
(* The recursion exists and is what it is on the prefixes.                 *)

\* A non-empty set of indices has a largest one.
LEMMA LargestExists ==
    ASSUME NEW n \in Nat, NEW T \in SUBSET (1 .. n), T # {}
    PROVE  /\ Largest(T) \in T /\ \A y \in T : Largest(T) >= y
           /\ T \ {Largest(T)} \in SUBSET (1 .. Largest(T) - 1)
<1>. DEFINE N == {k \in Nat : \A U \in SUBSET (1 .. k) : U # {} => \E x \in U : \A y \in U : x >= y}
<1>1. 0 \in N
  <2>1. 1 .. 0 = {}
    OBVIOUS
  <2>. QED
    BY <2>1
<1>2. ASSUME NEW k \in Nat, k \in N
      PROVE  k + 1 \in N
  <2>. SUFFICES ASSUME NEW U \in SUBSET (1 .. k + 1), U # {}
               PROVE  \E x \in U : \A y \in U : x >= y
    OBVIOUS
  <2>1. CASE k + 1 \in U
    BY <2>1
  <2>2. CASE k + 1 \notin U
    <3>1. U \in SUBSET (1 .. k)
      BY <2>2
    <3>. QED
      BY <3>1, <1>2
  <2>. QED
    BY <2>1, <2>2
<1>. HIDE DEF N
<1>3. Nat \subseteq N
  BY <1>1, <1>2, NatSetInduction
<1>4. \E x \in T : \A y \in T : x >= y
  BY <1>3 DEF N
<1>5. Largest(T) \in T /\ \A y \in T : Largest(T) >= y
  BY <1>4 DEF Largest
<1>6. ASSUME NEW y \in T \ {Largest(T)}
      PROVE  y \in 1 .. Largest(T) - 1
  <2>1. y \in 1 .. n /\ Largest(T) \in 1 .. n /\ Largest(T) >= y /\ y # Largest(T)
    BY <1>5
  <2>. QED
    BY <2>1
<1>. QED
  BY <1>5, <1>6

\* The largest of the first indices.
LEMMA LargestOfInterval ==
    ASSUME NEW n \in Nat
    PROVE  Largest(1 .. n + 1) = n + 1 /\ (1 .. n + 1) \ {n + 1} = 1 .. n
<1>1. 1 .. n + 1 \in SUBSET (1 .. n + 1) /\ 1 .. n + 1 # {} /\ n + 1 \in 1 .. n + 1 /\ n + 1 \in Nat
  OBVIOUS
<1>2. Largest(1 .. n + 1) \in 1 .. n + 1 /\ Largest(1 .. n + 1) >= n + 1
  BY <1>1, LargestExists
<1>. QED
  BY <1>2

\* A solution is built for the subsets of the first indices, one by one.
LEMMA SolutionExists ==
    ASSUME NEW base, NEW s, NEW n \in Nat
    PROVE  \E g : Solves(g, base, s, 1 .. n)
<1>. DEFINE Next(g, T) == IF T = {} THEN base ELSE Op(g[T \ {Largest(T)}], s[Largest(T)])
            Partial(g, k) == \A T \in SUBSET (1 .. n) : T \subseteq 1 .. k => g[T] = Next(g, T)
            N == {k \in Nat : \E g : Partial(g, k)}
<1>1. 0 \in N
  <2>. DEFINE g == [T \in SUBSET (1 .. n) |-> base]
  <2>1. \A T \in SUBSET (1 .. n) : T \subseteq 1 .. 0 => T = {}
    OBVIOUS
  <2>2. Partial(g, 0)
    BY <2>1
  <2>. QED
    BY <2>2
<1>2. ASSUME NEW k \in Nat, k \in N
      PROVE  k + 1 \in N
  <2>1. PICK g : Partial(g, k)
    BY <1>2
  <2>. DEFINE h == [T \in SUBSET (1 .. n) |-> Next(g, T)]
  <2>2. \A T \in SUBSET (1 .. n) : T \subseteq 1 .. k => h[T] = g[T]
    BY <2>1
  <2>3. ASSUME NEW T \in SUBSET (1 .. n), T \subseteq 1 .. k + 1, T # {}
        PROVE  T \ {Largest(T)} \subseteq 1 .. k /\ T \ {Largest(T)} \in SUBSET (1 .. n)
    <3>1. Largest(T) \in T /\ T \ {Largest(T)} \subseteq 1 .. Largest(T) - 1
      BY <2>3, LargestExists
    <3>2. Largest(T) \in 1 .. k + 1
      BY <2>3, <3>1
    <3>3. 1 .. Largest(T) - 1 \subseteq 1 .. k
      BY <3>2
    <3>. QED
      BY <3>1, <3>3
  <2>4. ASSUME NEW T \in SUBSET (1 .. n), T \subseteq 1 .. k + 1
        PROVE  h[T] = Next(h, T)
    <3>1. CASE T = {}
      BY <3>1
    <3>2. CASE T # {}
      <4>1. h[T \ {Largest(T)}] = g[T \ {Largest(T)}]
        BY <2>2, <2>3, <2>4, <3>2
      <4>2. h[T] = Op(g[T \ {Largest(T)}], s[Largest(T)])
        BY <3>2
      <4>. HIDE DEF h
      <4>. QED
        BY <3>2, <4>1, <4>2
    <3>. QED
      BY <3>1, <3>2
  <2>5. Partial(h, k + 1)
    BY <2>4
  <2>. HIDE DEF h, Partial
  <2>6. \E f : Partial(f, k + 1)
    BY <2>5
  <2>. QED
    BY <2>6
<1>. HIDE DEF N
<1>3. Nat \subseteq N
  BY <1>1, <1>2, NatSetInduction
<1>4. PICK g : Partial(g, n)
  BY <1>3 DEF N
<1>. DEFINE h == [T \in SUBSET (1 .. n) |-> g[T]]
<1>5. ASSUME NEW T \in SUBSET (1 .. n)
      PROVE  h[T] = Next(h, T)
  <2>1. g[T] = Next(g, T)
    BY <1>4
  <2>2. CASE T = {}
    BY <2>1, <2>2
  <2>3. CASE T # {}
    <3>1. T \ {Largest(T)} \in SUBSET (1 .. n)
      OBVIOUS
    <3>. QED
      BY <2>1, <2>3, <3>1
  <2>. QED
    BY <2>2, <2>3
<1>6. h = [T \in SUBSET (1 .. n) |-> Next(h, T)]
  BY <1>5
<1>7. Solves(h, base, s, 1 .. n)
  BY <1>6 DEF Solves
<1>. QED
  BY <1>7

\* Solutions for a sequence and for one element more give the sequence the same
\* value.
LEMMA SolutionsAgree ==
    ASSUME NEW base, NEW s, NEW t, NEW k \in Nat, \A i \in 1 .. k : s[i] = t[i],
           NEW a, NEW b, Solves(a, base, s, 1 .. k), Solves(b, base, t, 1 .. k + 1)
    PROVE  a[1 .. k] = b[1 .. k]
<1>. DEFINE B == {j \in Nat : j <= k => a[1 .. j] = b[1 .. j]}
<1>0. /\ \A T \in SUBSET (1 .. k) : a[T] = IF T = {} THEN base ELSE Op(a[T \ {Largest(T)}], s[Largest(T)])
      /\ \A T \in SUBSET (1 .. k + 1) : b[T] = IF T = {} THEN base ELSE Op(b[T \ {Largest(T)}], t[Largest(T)])
  BY Zenon DEF Solves
<1>1. 0 \in B
  <2>1. 1 .. 0 = {}
    OBVIOUS
  <2>2. a[{}] = base /\ b[{}] = base
    BY <1>0
  <2>. QED
    BY <2>1, <2>2
<1>2. ASSUME NEW j \in Nat, j \in B
      PROVE  j + 1 \in B
  <2>. SUFFICES ASSUME j + 1 <= k
               PROVE  a[1 .. j + 1] = b[1 .. j + 1]
    OBVIOUS
  <2>1. Largest(1 .. j + 1) = j + 1 /\ (1 .. j + 1) \ {j + 1} = 1 .. j
    BY LargestOfInterval
  <2>2. 1 .. j + 1 \in SUBSET (1 .. k) /\ 1 .. j + 1 \in SUBSET (1 .. k + 1) /\ 1 .. j + 1 # {}
    <3>1. j + 1 <= k /\ 1 \in 1 .. j + 1
      OBVIOUS
    <3>2. \A i \in 1 .. j + 1 : i \in 1 .. k /\ i \in 1 .. k + 1
      BY <3>1
    <3>. QED
      BY <3>1, <3>2, Zenon
  <2>3. a[1 .. j + 1] = Op(a[1 .. j], s[j + 1])
    BY <1>0, <2>1, <2>2, Zenon
  <2>4. b[1 .. j + 1] = Op(b[1 .. j], t[j + 1])
    BY <1>0, <2>1, <2>2, Zenon
  <2>5. a[1 .. j] = b[1 .. j]
    BY <1>2
  <2>6. s[j + 1] = t[j + 1]
    OBVIOUS
  <2>. QED
    BY <2>3, <2>4, <2>5, <2>6
<1>. HIDE DEF B
<1>3. Nat \subseteq B
  BY <1>1, <1>2, NatSetInduction
<1>. QED
  BY <1>3 DEF B

-----------------------------------------------------------------------------
(* The fold of a sequence.                                                 *)

\* Nothing folds to the base.
THEOREM FoldEmpty ==
    ASSUME NEW base
    PROVE  Fold(base, <<>>) = base
<1>. DEFINE a == CHOOSE g : Solves(g, base, <<>>, DOMAIN <<>>)
<1>1. DOMAIN <<>> = 1 .. 0 /\ 1 .. 0 = {} /\ 0 \in Nat
  OBVIOUS
<1>2. \E g : Solves(g, base, <<>>, 1 .. 0)
  BY <1>1, SolutionExists
<1>3. Solves(a, base, <<>>, DOMAIN <<>>)
  BY <1>1, <1>2, Zenon
<1>. HIDE DEF a
<1>4. a[{}] = base
  BY <1>3 DEF Solves
<1>5. Fold(base, <<>>) = a[DOMAIN <<>>]
  BY DEF Fold, a
<1>. QED
  BY <1>1, <1>4, <1>5

\* One element more is one operation more.
THEOREM FoldAppend ==
    ASSUME NEW base, NEW S, NEW s \in Seq(S), NEW e \in S
    PROVE  Fold(base, Append(s, e)) = Op(Fold(base, s), e)
<1>. DEFINE t == Append(s, e)
            n == Len(s)
            a == CHOOSE g : Solves(g, base, s, DOMAIN s)
            b == CHOOSE g : Solves(g, base, t, DOMAIN t)
<1>1. n \in Nat /\ n + 1 \in Nat /\ DOMAIN s = 1 .. n /\ DOMAIN t = 1 .. n + 1 /\ t[n + 1] = e
      /\ \A i \in 1 .. n : s[i] = t[i]
  BY AppendProperties
<1>. HIDE DEF t, n
<1>2. Solves(a, base, s, 1 .. n)
  BY <1>1, SolutionExists, Zenon
<1>3. Solves(b, base, t, 1 .. n + 1)
  BY <1>1, SolutionExists, Zenon
<1>4. Fold(base, s) = a[1 .. n] /\ Fold(base, t) = b[1 .. n + 1]
  BY <1>1, Zenon DEF Fold
<1>. HIDE DEF a, b
<1>5. a[1 .. n] = b[1 .. n]
  <2>1. \A i \in 1 .. n : s[i] = t[i]
    BY <1>1
  <2>. QED
    BY <1>1, <1>2, <1>3, <2>1, SolutionsAgree
<1>6. b[1 .. n + 1] = Op(b[1 .. n], t[n + 1])
  <2>1. Largest(1 .. n + 1) = n + 1 /\ (1 .. n + 1) \ {n + 1} = 1 .. n
    BY <1>1, LargestOfInterval
  <2>2. 1 .. n + 1 \in SUBSET (1 .. n + 1) /\ 1 .. n + 1 # {}
    BY <1>1
  <2>. QED
    BY <1>3, <2>1, <2>2, Zenon DEF Solves
<1>. QED
  BY <1>1, <1>4, <1>5, <1>6 DEF t

\* The fold of one element.
THEOREM FoldSingle ==
    ASSUME NEW base, NEW e
    PROVE  Fold(base, <<e>>) = Op(base, e)
<1>1. <<>> \in Seq({e}) /\ e \in {e} /\ Append(<<>>, e) = <<e>>
  OBVIOUS
<1>2. Fold(base, Append(<<>>, e)) = Op(Fold(base, <<>>), e)
  BY <1>1, FoldAppend, Zenon
<1>. QED
  BY <1>1, <1>2, FoldEmpty, Zenon

\* What every operation keeps, the fold keeps.
THEOREM FoldKeeps ==
    ASSUME NEW I, NEW base \in I, NEW S, \A a \in I : \A e \in S : Op(a, e) \in I,
           NEW s \in Seq(S)
    PROVE  Fold(base, s) \in I
<1>. DEFINE B == {t \in Seq(S) : Fold(base, t) \in I}
<1>1. <<>> \in B
  BY FoldEmpty
<1>2. \A t \in Seq(S) : \A e \in S : t \in B => Append(t, e) \in B
  BY FoldAppend
<1>. HIDE DEF B
<1>3. Seq(S) \subseteq B
  BY <1>1, <1>2, SequenceInduction
<1>. QED
  BY <1>3 DEF B

\* One sequence after another.
THEOREM FoldConcat ==
    ASSUME NEW base, NEW S, NEW s \in Seq(S), NEW t \in Seq(S)
    PROVE  Fold(base, s \o t) = Fold(Fold(base, s), t)
<1>. DEFINE B == {u \in Seq(S) : Fold(base, s \o u) = Fold(Fold(base, s), u)}
<1>1. <<>> \in B
  BY FoldEmpty, ConcatEmptySeq
<1>2. ASSUME NEW u \in Seq(S), NEW e \in S, u \in B
      PROVE  Append(u, e) \in B
  <2>1. s \o Append(u, e) = Append(s \o u, e) /\ s \o u \in Seq(S) /\ Append(u, e) \in Seq(S)
    OBVIOUS
  <2>2. Fold(base, Append(s \o u, e)) = Op(Fold(base, s \o u), e)
    <3>. DEFINE w == s \o u
    <3>1. w \in Seq(S)
      BY <2>1
    <3>. HIDE DEF w
    <3>2. Fold(base, Append(w, e)) = Op(Fold(base, w), e)
      BY <3>1, FoldAppend, Zenon
    <3>. QED
      BY <3>2 DEF w
  <2>3. Fold(Fold(base, s), Append(u, e)) = Op(Fold(Fold(base, s), u), e)
    BY FoldAppend
  <2>. QED
    BY <1>2, <2>1, <2>2, <2>3
<1>. HIDE DEF B
<1>3. Seq(S) \subseteq B
  BY <1>1, <1>2, SequenceInduction
<1>. QED
  BY <1>3 DEF B

=============================================================================
