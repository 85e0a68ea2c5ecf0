----------------------------- MODULE LoopLemmas -----------------------------
(***************************************************************************)
(* What a loop computes.  The loops of CpuSched are folds over sequences   *)
(* (FoldLeft of SequencesExt), which are functions of sets of indices.  A  *)
(* loop of N rounds over a state in S is given by the function step of the *)
(* round's number and the state before the round.  The sums of memory are  *)
(* folds over sets.                                                        *)
(***************************************************************************)
EXTENDS Integers, FiniteSetsExt, FiniteSetTheorems, WellFoundedInduction, TLAPS

\* A set of natural numbers that is not empty has a least element.
LEMMA LeastNat ==
    ASSUME NEW T, T \subseteq Nat, T # {}
    PROVE  \E x \in T : \A y \in T : x <= y
<1> DEFINE R == OpToRel(<, Nat)
<1>1. IsWellFoundedOn(R, Nat)
    BY NatLessThanWellFounded
<1>2. \A x, y \in Nat : <<y, x>> \in R <=> y < x
    BY DEF OpToRel
<1> HIDE DEF R
<1>3. PICK x \in T : \A y \in T : ~ (<<y, x>> \in R)
    BY <1>1, WFMin
<1>4. \A y \in T : ~(y < x)
    BY <1>2, <1>3, Zenon
<1>5. \A y \in T : x <= y
    BY <1>4
<1>6. QED
    BY <1>5

\* Induction up to N, for the numbers of a set.
LEMMA Rounds ==
    ASSUME NEW N \in Nat, NEW T, 0 \in T, \A n \in 1..N : n - 1 \in T => n \in T
    PROVE  \A n \in 0..N : n \in T
<1> DEFINE B == {n \in 0..N : n \notin T}
<1> SUFFICES ASSUME B # {} PROVE FALSE
    OBVIOUS
<1>1. B \subseteq Nat
    OBVIOUS
<1>2. PICK x \in B : \A y \in B : x <= y
    BY <1>1, LeastNat
<1>3. x \in 1..N /\ x - 1 \notin B
    BY <1>2
<1>4. QED
    BY <1>3

\* The greatest of some indices.
LEMMA MaxIndex ==
    ASSUME NEW N \in Nat, NEW t \in SUBSET (1..N), t # {}
    PROVE  Max(t) \in t /\ \A y \in t : y <= Max(t)
<1> DEFINE D == {N - x : x \in t}
<1>1. D \subseteq Nat /\ D # {}
    <2>1. \A x \in t : x \in 1..N
        OBVIOUS
    <2>2. \A x \in 1..N : N - x \in Nat
        OBVIOUS
    <2>3. QED
        BY <2>1, <2>2
<1>2. PICK d \in D : \A y \in D : d <= y
    BY <1>1, LeastNat
<1>3. PICK x \in t : d = N - x
    BY <1>2
<1>4. ASSUME NEW y \in t PROVE x >= y
    <2>1. N - y \in D
        OBVIOUS
    <2>2. N - x <= N - y
        BY <1>2, <1>3, <2>1
    <2>3. QED
        BY <2>2
<1>5. \E z \in t : \A y \in t : z >= y
    BY <1>4
<1>6. Max(t) \in t /\ \A y \in t : Max(t) >= y
    BY <1>5 DEF Max
<1>7. QED
    BY <1>6

\* g[t] is the state after the rounds of t.
IsLoop(g, m, S, base, step) ==
    /\ g \in [SUBSET (1..m) -> S] /\ g[{}] = base
    /\ \A t \in SUBSET (1..m) :
         t # {} => g[t] = step[<<Max(t), g[t \ {Max(t)}]>>]

\* The recursion of a fold has a solution.
LEMMA FoldExists ==
    ASSUME NEW N \in Nat, NEW S, NEW base \in S,
           NEW step \in [(1..N) \X S -> S]
    PROVE  \E g : IsLoop(g, N, S, base, step)
<1> DEFINE Good(m, g) == IsLoop(g, m, S, base, step)
           T == {m \in 0..N : \E g : Good(m, g)}
<1>1. 0 \in T
    <2> DEFINE g == [t \in SUBSET (1..0) |-> base]
    <2>1. SUBSET (1..0) = {{}}
        OBVIOUS
    <2>2. Good(0, g)
        BY <2>1 DEF IsLoop
    <2> HIDE DEF g, Good
    <2>3. QED
        BY <2>2
<1>2. ASSUME NEW m \in 1..N, m \in Nat, m - 1 \in T PROVE m \in T
    <2>1. PICK g : Good(m - 1, g)
        BY <1>2
    <2> USE DEF IsLoop
    <2> DEFINE h == [t \in SUBSET (1..m) |->
                       IF m \in t THEN step[<<m, g[t \ {m}]>>] ELSE g[t]]
    <2>2. \A t \in SUBSET (1..m) : t \ {m} \in SUBSET (1..(m - 1))
        OBVIOUS
    <2>3. \A t \in SUBSET (1..m) : m \notin t => t \in SUBSET (1..(m - 1))
        OBVIOUS
    <2>4. \A t \in SUBSET (1..m) : step[<<m, g[t \ {m}]>>] \in S
        BY <2>1, <2>2
    <2>5. h \in [SUBSET (1..m) -> S]
        BY <2>1, <2>3, <2>4
    <2>6. h[{}] = base
        BY <2>1
    <2>7. ASSUME NEW t \in SUBSET (1..m), t # {}
          PROVE  h[t] = step[<<Max(t), h[t \ {Max(t)}]>>]
        <3>1. Max(t) \in t /\ \A y \in t : y <= Max(t)
            BY <1>2, <2>7, MaxIndex
        <3>2. CASE m \in t
            <4>1. Max(t) = m
                <5>1. Max(t) \in 1..m /\ m <= Max(t)
                    BY <3>1, <3>2
                <5>2. QED
                    BY <5>1
            <4>2. h[t] = step[<<m, g[t \ {m}]>>] /\ h[t \ {m}] = g[t \ {m}]
                BY <3>2
            <4> HIDE DEF h
            <4>3. QED
                BY <4>1, <4>2
        <3>3. CASE m \notin t
            <4>1. h[t] = g[t] /\ h[t \ {Max(t)}] = g[t \ {Max(t)}]
                BY <3>3
            <4> HIDE DEF h
            <4>2. g[t] = step[<<Max(t), g[t \ {Max(t)}]>>]
                BY <2>1, <2>3, <2>7, <3>3
            <4>3. QED
                BY <4>1, <4>2
        <3>4. QED
            BY <3>2, <3>3
    <2> HIDE DEF h
    <2>8. Good(m, h)
        BY <2>5, <2>6, <2>7
    <2> HIDE DEF Good
    <2>9. QED
        BY <2>8
<1> HIDE DEF T
<1>3. \A n \in 0..N : n \in T
    BY <1>1, <1>2, Rounds
<1>4. N \in T
    BY <1>3
<1>5. QED
    BY <1>4 DEF T

\* The indices up to n, and the last of them.
LEMMA LastIndex ==
    ASSUME NEW N \in Nat, NEW n \in 1..N
    PROVE  1..n \in SUBSET (1..N) /\ 1..n # {} /\ Max(1..n) = n
           /\ (1..n) \ {n} = 1..(n - 1)
<1>1. 1..n \in SUBSET (1..N) /\ 1..n # {} /\ (1..n) \ {n} = 1..(n - 1)
    OBVIOUS
<1>2. Max(1..n) \in 1..n /\ \A y \in 1..n : y <= Max(1..n)
    BY <1>1, MaxIndex
<1>3. QED
    BY <1>1, <1>2

\* c[t] is the state after the rounds of t, unless the state before the last
\* of them is not in S.
Loops(c, m, S, base, step) ==
    /\ c[{}] = base
    /\ \A t \in SUBSET (1..m) :
         t # {} /\ c[t \ {Max(t)}] \in S
         => c[t] = step[<<Max(t), c[t \ {Max(t)}]>>]

\* f[n] is the state after n rounds, last the state after all of them.
IsRounds(f, m, S, base, step, last) ==
    /\ f \in [0..m -> S] /\ f[0] = base /\ f[m] = last
    /\ \A n \in 1..m : f[n] = step[<<n, f[n - 1]>>]

\* The states of a loop after its rounds, given what the fold computes for
\* every set of rounds.
LEMMA LoopRounds ==
    ASSUME NEW N \in Nat, NEW S, NEW base \in S,
           NEW step \in [(1..N) \X S -> S],
           NEW c, Loops(c, N, S, base, step)
    PROVE  \E f : IsRounds(f, N, S, base, step, c[1..N])
<1> DEFINE T == {n \in 0..N : c[1..n] \in S}
           f == [n \in 0..N |-> c[1..n]]
<1>1. 0 \in T /\ f[0] = base
    BY DEF Loops
<1>2. ASSUME NEW n \in 1..N, n - 1 \in T
      PROVE  n \in T /\ f[n] = step[<<n, f[n - 1]>>]
    <2>1. /\ 1..n \in SUBSET (1..N) /\ 1..n # {} /\ Max(1..n) = n
          /\ (1..n) \ {n} = 1..(n - 1)
        BY LastIndex
    <2>2. c[1..(n - 1)] \in S
        BY <1>2
    <2>3. c[1..n] = step[<<n, c[1..(n - 1)]>>]
        BY <2>1, <2>2 DEF Loops
    <2>4. n \in 0..N /\ n - 1 \in 0..N
        OBVIOUS
    <2>5. QED
        BY <2>2, <2>3, <2>4
<1> HIDE DEF T
<1>3. \A n \in 0..N : n \in T
    BY <1>1, <1>2, Rounds
<1>4. f \in [0..N -> S]
    BY <1>3 DEF T
<1>5. f[N] = c[1..N]
    OBVIOUS
<1>6. ASSUME NEW n \in 1..N PROVE f[n] = step[<<n, f[n - 1]>>]
    <2>1. n - 1 \in 0..N
        OBVIOUS
    <2>2. QED
        BY <1>2, <1>3, <2>1
<1> HIDE DEF f
<1>7. IsRounds(f, N, S, base, step, c[1..N])
    BY <1>1, <1>4, <1>5, <1>6 DEF IsRounds
<1>8. QED
    BY <1>7

-----------------------------------------------------------------------------
(***************************************************************************)
(* Sums over finite sets.                                                  *)
(***************************************************************************)

\* Induction over the subsets of a finite set.
LEMMA Subsets ==
    ASSUME NEW R, IsFiniteSet(R), NEW T,
           \A U \in SUBSET R : (\A V \in SUBSET U : V # U => V \in T) => U \in T
    PROVE  \A U \in SUBSET R : U \in T
<1> DEFINE B == {U \in SUBSET R : U \notin T}
           C == {Cardinality(U) : U \in B}
<1> SUFFICES ASSUME B # {} PROVE FALSE
    OBVIOUS
<1>1. \A U \in SUBSET R : IsFiniteSet(U) /\ Cardinality(U) \in Nat
    BY FS_Subset, FS_CardinalityType
<1>2. C \subseteq Nat /\ C # {}
    BY <1>1
<1>3. PICK m \in C : \A n \in C : m <= n
    BY <1>2, LeastNat
<1>4. PICK U \in B : m = Cardinality(U)
    BY <1>3
<1>5. ASSUME NEW V \in SUBSET U, V # U PROVE V \in T
    <2>1. Cardinality(V) <= Cardinality(U) /\ Cardinality(V) # Cardinality(U)
        BY <1>1, <1>4, <1>5, FS_Subset
    <2>2. V \in SUBSET R /\ ~(m <= Cardinality(V))
        BY <1>1, <1>4, <2>1
    <2>3. V \notin B
        BY <1>3, <2>2
    <2>4. QED
        BY <2>2, <2>3
<1>6. QED
    BY <1>4, <1>5

\* The memory of some applications: a sum over a set, from which Pick(t)
\* is the next to be taken.
Pick(t) == CHOOSE x \in t : TRUE
Total(w, S) == MapThenSumSet(LAMBDA r : w[r].rss, S)

\* g[t] is the sum for every set t of D.
IsSum(g, D, w) ==
    \A t \in D :
      g[t] = IF t = {} THEN 0 ELSE w[Pick(t)].rss + g[t \ {Pick(t)}]

LEMMA SumExists ==
    ASSUME NEW R, IsFiniteSet(R), NEW w, \A r \in R : w[r].rss \in Nat
    PROVE  \E g : g \in [SUBSET R -> Nat] /\ IsSum(g, SUBSET R, w)
<1> DEFINE N == Cardinality(R)
           D(n) == {t \in SUBSET R : Cardinality(t) <= n}
           Good(n, g) == g \in [D(n) -> Nat] /\ IsSum(g, D(n), w)
           T == {n \in 0..N : \E g : Good(n, g)}
<1>1. N \in Nat
    BY FS_CardinalityType
<1>2. \A t \in SUBSET R : /\ IsFiniteSet(t) /\ Cardinality(t) \in Nat
                          /\ Cardinality(t) <= N
                          /\ Cardinality(t) = 0 <=> t = {}
    BY FS_Subset, FS_CardinalityType, FS_EmptySet
<1>3. 0 \in T
    <2> DEFINE g == [t \in D(0) |-> 0]
    <2>1. \A t \in D(0) : t = {}
        BY <1>2
    <2>2. g \in [D(0) -> Nat]
        OBVIOUS
    <2>3. IsSum(g, D(0), w)
        BY <2>1 DEF IsSum
    <2> HIDE DEF g, D
    <2>4. Good(0, g)
        BY <2>2, <2>3
    <2> HIDE DEF Good
    <2>5. QED
        BY <1>1, <2>4
<1>4. ASSUME NEW n \in 1..N, n - 1 \in T PROVE n \in T
    <2>1. PICK g : Good(n - 1, g)
        BY <1>4
    <2> DEFINE F(t) == IF t = {} THEN 0 ELSE w[Pick(t)].rss + g[t \ {Pick(t)}]
               h == [t \in D(n) |-> F(t)]
    <2>2. ASSUME NEW t \in D(n), t # {}
          PROVE  Pick(t) \in R /\ t \ {Pick(t)} \in D(n - 1)
        <3>1. Pick(t) \in t
            BY <2>2 DEF Pick
        <3>2. Cardinality(t \ {Pick(t)}) = Cardinality(t) - 1
            BY <1>2, <3>1, FS_RemoveElement
        <3>3. QED
            BY <1>2, <3>1, <3>2
    <2>3. \A t \in D(n) : F(t) \in Nat
        BY <2>1, <2>2
    <2>4. h \in [D(n) -> Nat]
        BY <2>3
    <2>5. \A t \in D(n - 1) : t \in D(n) /\ g[t] = F(t)
        BY <1>2, <2>1 DEF IsSum
    <2>6. \A t \in D(n - 1) : h[t] = g[t]
        BY <2>5
    <2>7. IsSum(h, D(n), w)
        <3> SUFFICES ASSUME NEW t \in D(n)
                     PROVE  h[t] = IF t = {} THEN 0
                                   ELSE w[Pick(t)].rss + h[t \ {Pick(t)}]
            BY DEF IsSum
        <3>1. h[t] = F(t)
            OBVIOUS
        <3> HIDE DEF h
        <3>2. QED
            BY <2>2, <2>6, <3>1
    <2> HIDE DEF h, D
    <2>8. Good(n, h)
        BY <2>4, <2>7
    <2> HIDE DEF Good
    <2>9. QED
        BY <1>1, <2>8
<1> HIDE DEF T
<1>5. N \in T
    <2>1. \A n \in 0..N : n \in T
        BY <1>1, <1>3, <1>4, Rounds
    <2>2. QED
        BY <1>1, <2>1
<1>6. D(N) = SUBSET R
    BY <1>2
<1> HIDE DEF D
<1>7. QED
    BY <1>5, <1>6 DEF T

LEMMA TotalIs ==
    ASSUME NEW R, IsFiniteSet(R), NEW w, \A r \in R : w[r].rss \in Nat,
           NEW g \in [SUBSET R -> Nat], IsSum(g, SUBSET R, w), NEW S \in SUBSET R
    PROVE  Total(w, S) = g[S]
<1> DEFINE B(c) == [t \in SUBSET S |->
                      IF t = {} THEN 0 ELSE w[Pick(t)].rss + c[t \ {Pick(t)}]]
           c == CHOOSE c : c = B(c)
           h == [t \in SUBSET S |-> g[t]]
           T == {t \in SUBSET S : c[t] = g[t]}
<1>1. Total(w, S) = c[S]
    BY Zenon DEF Total, MapThenSumSet, MapThenFoldSet, Pick
<1>2. \A t \in SUBSET S : t # {} => Pick(t) \in t
    BY DEF Pick
<1>3. \A t \in SUBSET S :
        g[t] = IF t = {} THEN 0 ELSE w[Pick(t)].rss + g[t \ {Pick(t)}]
    BY DEF IsSum
<1>4. h = B(h)
    BY <1>3
<1>5. c = B(c)
    <2> HIDE DEF h, B
    <2>1. QED
        BY <1>4
<1> HIDE DEF c
<1>6. ASSUME NEW U \in SUBSET S, \A V \in SUBSET U : V # U => V \in T
      PROVE  U \in T
    <2>1. c[U] = IF U = {} THEN 0 ELSE w[Pick(U)].rss + c[U \ {Pick(U)}]
        BY <1>5
    <2>2. U # {} => c[U \ {Pick(U)}] = g[U \ {Pick(U)}]
        BY <1>2, <1>6
    <2>3. QED
        BY <1>3, <2>1, <2>2
<1>7. IsFiniteSet(S)
    BY FS_Subset
<1> HIDE DEF T
<1>8. S \in T
    BY <1>6, <1>7, Subsets
<1>9. QED
    BY <1>1, <1>8 DEF T

\* What is asked of the sums over subsets of R.
LEMMA TotalRemove ==
    ASSUME NEW R, IsFiniteSet(R), NEW w, \A r \in R : w[r].rss \in Nat
    PROVE  /\ Total(w, {}) = 0
           /\ \A S \in SUBSET R : Total(w, S) \in Nat
           /\ \A S \in SUBSET R : \A r \in S :
                Total(w, S) = w[r].rss + Total(w, S \ {r})
<1>1. PICK g : g \in [SUBSET R -> Nat] /\ IsSum(g, SUBSET R, w)
    BY SumExists
<1>2. \A S \in SUBSET R : Total(w, S) = g[S]
    BY <1>1, TotalIs
<1>3. g[{}] = 0 /\ \A S \in SUBSET R : g[S] \in Nat
    BY <1>1 DEF IsSum
<1> DEFINE T == {S \in SUBSET R : \A r \in S : g[S] = w[r].rss + g[S \ {r}]}
<1>4. ASSUME NEW U \in SUBSET R, \A V \in SUBSET U : V # U => V \in T
      PROVE  U \in T
    <2> SUFFICES ASSUME NEW r \in U PROVE g[U] = w[r].rss + g[U \ {r}]
        OBVIOUS
    <2> DEFINE x == Pick(U)
    <2>1. x \in U
        BY DEF Pick
    <2>2. g[U] = w[x].rss + g[U \ {x}]
        BY <1>1 DEF IsSum
    <2> HIDE DEF x
    <2>3. CASE x = r
        BY <2>2, <2>3
    <2>4. CASE x # r
        <3>1. U \ {x} \in T /\ r \in U \ {x}
            BY <1>4, <2>1, <2>4
        <3>2. U \ {r} \in T /\ x \in U \ {r}
            BY <1>4, <2>1, <2>4
        <3>3. (U \ {x}) \ {r} = (U \ {r}) \ {x}
            OBVIOUS
        <3> DEFINE y == g[(U \ {r}) \ {x}]
        <3>4. y \in Nat /\ w[x].rss \in Nat /\ w[r].rss \in Nat
            BY <1>3, <2>1
        <3>5. g[U \ {x}] = w[r].rss + y /\ g[U \ {r}] = w[x].rss + y
            BY <3>1, <3>2, <3>3
        <3> HIDE DEF y
        <3>6. QED
            BY <2>2, <3>4, <3>5
    <2>5. QED
        BY <2>3, <2>4
<1> HIDE DEF T
<1>5. \A S \in SUBSET R : S \in T
    BY <1>4, Subsets
<1>6. ASSUME NEW S \in SUBSET R, NEW r \in S
      PROVE  Total(w, S) = w[r].rss + Total(w, S \ {r})
    <2>1. g[S] = w[r].rss + g[S \ {r}]
        BY <1>5 DEF T
    <2>2. S \ {r} \in SUBSET R
        OBVIOUS
    <2>3. QED
        BY <1>2, <2>1, <2>2
<1>7. QED
    BY <1>2, <1>3, <1>6

LEMMA TotalSubset ==
    ASSUME NEW R, IsFiniteSet(R), NEW w, \A r \in R : w[r].rss \in Nat,
           NEW S \in SUBSET R, NEW V \in SUBSET S
    PROVE  Total(w, V) <= Total(w, S)
<1> DEFINE T == {U \in SUBSET R : V \in SUBSET U => Total(w, V) <= Total(w, U)}
<1>1. ASSUME NEW U \in SUBSET R, \A X \in SUBSET U : X # U => X \in T
      PROVE  U \in T
    <2> SUFFICES ASSUME V \in SUBSET U PROVE Total(w, V) <= Total(w, U)
        OBVIOUS
    <2>1. Total(w, V) \in Nat /\ Total(w, U) \in Nat
        BY TotalRemove
    <2>2. CASE V = U
        BY <2>1, <2>2
    <2>3. CASE V # U
        <3>1. PICK x \in U : x \notin V
            BY <2>3
        <3>2. /\ Total(w, U) = w[x].rss + Total(w, U \ {x}) /\ w[x].rss \in Nat
              /\ Total(w, U \ {x}) \in Nat
            BY TotalRemove
        <3>3. Total(w, V) <= Total(w, U \ {x})
            BY <1>1, <3>1
        <3>4. QED
            BY <2>1, <3>2, <3>3
    <2>4. QED
        BY <2>2, <2>3
<1> HIDE DEF T
<1>2. \A U \in SUBSET R : U \in T
    BY <1>1, Subsets
<1>3. QED
    BY <1>2 DEF T

\* Only the sizes of the members matter.
LEMMA TotalSame ==
    ASSUME NEW R, IsFiniteSet(R), NEW w, NEW v,
           \A r \in R : w[r].rss \in Nat /\ v[r].rss = w[r].rss
    PROVE  Total(v, R) = Total(w, R)
<1> DEFINE T == {U \in SUBSET R : Total(v, U) = Total(w, U)}
<1>1. ASSUME NEW U \in SUBSET R, \A X \in SUBSET U : X # U => X \in T
      PROVE  U \in T
    <2>1. CASE U = {}
        BY <2>1, TotalRemove
    <2>2. CASE U # {}
        <3>1. PICK x : x \in U
            BY <2>2
        <3>2. Total(w, U) = w[x].rss + Total(w, U \ {x})
            BY <3>1, TotalRemove
        <3>3. Total(v, U) = v[x].rss + Total(v, U \ {x})
            BY <3>1, TotalRemove
        <3>4. U \ {x} \in T
            BY <1>1, <3>1
        <3>5. QED
            BY <3>1, <3>2, <3>3, <3>4
    <2>3. QED
        BY <2>1, <2>2
<1> HIDE DEF T
<1>2. \A U \in SUBSET R : U \in T
    BY <1>1, Subsets
<1>3. QED
    BY <1>2 DEF T

=============================================================================
