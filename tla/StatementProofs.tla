---------------------------- MODULE StatementProofs ----------------------------
(***************************************************************************)
(* Proofs about what the pages compute from the rows.  However many        *)
(* requests commit while a page is computed, its running balance ends at   *)
(* what the account holds and the pages agree on what they show.  With one *)
(* request at a time the rows of an account sum to its balance, and the    *)
(* opening balance and the analytics are off by exactly what OpeningOff    *)
(* and AnalyticsOff say.                                                   *)
(***************************************************************************)
EXTENDS Statement, BankingRecordProofs

-----------------------------------------------------------------------------
(* Sums over finite sets                                                    *)

\* The figures of the pages are folds over sets of rows.  The fold takes the
\* elements in the order of CHOOSE; these lemmas show that it is a sum.
Pick(S) == CHOOSE x \in S : TRUE

Total(w, S) == MapThenSumSet(LAMBDA x : w[x], S)

\* The recursion of the fold: f gives every subset of S its total.
Adds(w, S, f) ==
    f = [T \in SUBSET S |-> IF T = {} THEN 0 ELSE w[Pick(T)] + f[T \ {Pick(T)}]]

\* The fold takes whatever function satisfies the recursion.
LEMMA TotalUnfolds ==
    ASSUME NEW w, NEW S
    PROVE  Total(w, S) = (CHOOSE f : Adds(w, S, f))[S]
  BY DEF Total, MapThenSumSet, MapThenFoldSet, Adds, Pick

\* A set of finite sets has one of which no proper subset belongs to it.  So to
\* show something of all subsets of a finite set, take a smallest exception.
LEMMA SmallestSet ==
    ASSUME NEW S, IsFiniteSet(S), NEW Bad \in SUBSET SUBSET S, Bad # {}
    PROVE  \E T \in Bad : \A U \in SUBSET T : U # T => U \notin Bad
  <1>1. Bad \subseteq FiniteSubsetsOf(S)
    BY FS_FiniteSubsetsOfFinite
  <1>2. PICK T \in Bad : \A U \in Bad : ~ (<<U, T>> \in StrictSubsetOrdering(S))
    BY <1>1, WFMin, FS_StrictSubsetOrderingWellFounded
  <1>3. ASSUME NEW U \in SUBSET T, U # T, U \in Bad
        PROVE  FALSE
    BY <1>2, <1>3 DEF StrictSubsetOrdering
  <1>4. QED BY <1>3

\* Two functions that satisfy the recursion agree where both are defined.
LEMMA AddsAgree ==
    ASSUME NEW w, NEW S, IsFiniteSet(S), NEW T,
           NEW f, Adds(w, S, f), NEW g, Adds(w, T, g), NEW U \in SUBSET S, U \in SUBSET T
    PROVE  f[U] = g[U]
  <1> DEFINE Bad == {V \in SUBSET U : f[V] # g[V]}
  <1>1. ASSUME Bad # {} PROVE FALSE
    <2>1. IsFiniteSet(U)
      BY FS_Subset
    <2>2. PICK V \in Bad : \A X \in SUBSET V : X # V => X \notin Bad
      <3> HIDE DEF Bad
      <3>1. Bad \in SUBSET SUBSET U
        BY DEF Bad
      <3>2. QED BY <1>1, <2>1, <3>1, SmallestSet
    <2>3. V \in SUBSET S /\ V \in SUBSET T /\ f[V] # g[V]
      OBVIOUS
    <2>4. CASE V = {}
      BY <2>3, <2>4 DEF Adds
    <2>5. CASE V # {}
      <3>1. Pick(V) \in V
        BY <2>5 DEF Pick
      <3>2. V \ {Pick(V)} \in SUBSET V /\ V \ {Pick(V)} # V /\ V \ {Pick(V)} \in SUBSET U
        BY <3>1
      <3>3. f[V \ {Pick(V)}] = g[V \ {Pick(V)}]
        BY <2>2, <3>2
      <3>4. f[V] = w[Pick(V)] + f[V \ {Pick(V)}] /\ g[V] = w[Pick(V)] + g[V \ {Pick(V)}]
        BY <2>3, <2>5 DEF Adds
      <3>5. QED BY <2>3, <3>3, <3>4
    <2>6. QED BY <2>4, <2>5
  <1>2. QED BY <1>1

\* The recursion has a solution on every finite set.
LEMMA AddsExists ==
    ASSUME NEW w, NEW S, IsFiniteSet(S)
    PROVE  \E f : Adds(w, S, f)
  <1> DEFINE Bad == {T \in SUBSET S : ~ \E f : Adds(w, T, f)}
  <1>1. ASSUME Bad # {} PROVE FALSE
    <2>1. PICK T \in Bad : \A U \in SUBSET T : U # T => U \notin Bad
      <3> HIDE DEF Bad
      <3>1. Bad \in SUBSET SUBSET S
        BY DEF Bad
      <3>2. QED BY <1>1, <3>1, SmallestSet
    <2>2. T \in SUBSET S /\ ~ \E f : Adds(w, T, f)
      OBVIOUS
    <2>3. ASSUME NEW U \in SUBSET T, U # T PROVE \E f : Adds(w, U, f)
      BY <2>1, <2>2, <2>3
    <2> HIDE DEF Bad
    <2> DEFINE sum(U) == (CHOOSE f : Adds(w, U, f))[U]
               h == [U \in SUBSET T |-> IF U = {} THEN 0 ELSE w[Pick(U)] + sum(U \ {Pick(U)})]
    <2>4. ASSUME NEW U \in SUBSET T, U # T PROVE h[U] = sum(U)
      <3> DEFINE f == CHOOSE f : Adds(w, U, f)
      <3>1. Adds(w, U, f)
        BY <2>3, <2>4
      <3>2. sum(U) = f[U]
        OBVIOUS
      <3>3. CASE U = {}
        <4>1. f[U] = 0
          <5> HIDE DEF f
          <5>1. QED BY <3>1, <3>3 DEF Adds
        <4>2. QED BY <3>2, <3>3, <4>1
      <3>4. CASE U # {}
        <4> DEFINE V == U \ {Pick(U)}
                   g == CHOOSE g : Adds(w, V, g)
        <4>1. V \in SUBSET T /\ V # T /\ V \in SUBSET U
          BY <3>4 DEF Pick
        <4>2. Adds(w, V, g)
          BY <2>3, <4>1
        <4>3. IsFiniteSet(U)
          BY <2>2, FS_Subset
        <4>4. f[V] = g[V]
          <5> HIDE DEF f, g, V
          <5>1. V \in SUBSET V
            OBVIOUS
          <5>2. QED BY <3>1, <4>1, <4>2, <4>3, <5>1, AddsAgree
        <4>5. f[U] = w[Pick(U)] + f[V]
          <5> HIDE DEF f
          <5>1. QED BY <3>1, <3>4 DEF Adds
        <4>6. sum(V) = g[V]
          OBVIOUS
        <4>7. h[U] = w[Pick(U)] + sum(V)
          BY <3>4
        <4> HIDE DEF f, g, sum, h, V
        <4>8. QED BY <3>2, <4>4, <4>5, <4>6, <4>7
      <3>5. QED BY <3>3, <3>4
    <2>5. ASSUME NEW U \in SUBSET T, U # {}
          PROVE  h[U] = w[Pick(U)] + h[U \ {Pick(U)}]
      <3>1. U \ {Pick(U)} \in SUBSET T /\ U \ {Pick(U)} # T
        BY <2>5 DEF Pick
      <3>2. h[U \ {Pick(U)}] = sum(U \ {Pick(U)})
        BY <2>4, <3>1
      <3>3. h[U] = w[Pick(U)] + sum(U \ {Pick(U)})
        BY <2>5
      <3> HIDE DEF h, sum
      <3>4. QED BY <3>2, <3>3
    <2>6. h = [U \in SUBSET T |-> h[U]] /\ h[{}] = 0
      OBVIOUS
    <2>7. Adds(w, T, h)
      <3> HIDE DEF h
      <3>1. QED BY <2>5, <2>6 DEF Adds
    <2>8. QED BY <2>2, <2>7
  <1>2. QED BY <1>1

\* One step of the fold.
LEMMA TotalPicked ==
    ASSUME NEW w, NEW S, IsFiniteSet(S)
    PROVE  /\ S = {} => Total(w, S) = 0
           /\ S # {} => Pick(S) \in S /\ Total(w, S) = w[Pick(S)] + Total(w, S \ {Pick(S)})
  <1> DEFINE f == CHOOSE f : Adds(w, S, f)
  <1>1. Adds(w, S, f)
    BY AddsExists
  <1>2. Total(w, S) = f[S]
    BY TotalUnfolds
  <1> HIDE DEF f
  <1>3. CASE S = {}
    BY <1>1, <1>2, <1>3 DEF Adds
  <1>4. CASE S # {}
    <2> DEFINE V == S \ {Pick(S)}
               g == CHOOSE g : Adds(w, V, g)
    <2>1. Pick(S) \in S
      BY <1>4 DEF Pick
    <2>2. IsFiniteSet(V) /\ V \in SUBSET S
      BY FS_Subset
    <2>3. Adds(w, V, g)
      <3> HIDE DEF V
      <3>1. QED BY <2>2, AddsExists
    <2>4. Total(w, V) = g[V]
      <3> HIDE DEF V
      <3>1. QED BY TotalUnfolds
    <2> HIDE DEF g
    <2>5. f[V] = g[V]
      <3> HIDE DEF V
      <3>1. PICK U : U = V
        OBVIOUS
      <3>2. U \in SUBSET S /\ U \in SUBSET V
        BY <2>2, <3>1
      <3>3. f[U] = g[U]
        BY <1>1, <2>3, <3>2, AddsAgree
      <3>4. QED BY <3>1, <3>3
    <2>6. f[S] = w[Pick(S)] + f[V]
      BY <1>1, <1>4 DEF Adds
    <2> HIDE DEF V
    <2>7. QED BY <1>2, <1>4, <2>1, <2>4, <2>5, <2>6 DEF V
  <1>5. QED BY <1>3, <1>4

\* A sum of integers is an integer.
LEMMA TotalInt ==
    ASSUME NEW w, NEW S, IsFiniteSet(S), \A x \in S : w[x] \in Int
    PROVE  Total(w, S) \in Int
  <1> DEFINE Bad == {T \in SUBSET S : Total(w, T) \notin Int}
  <1>1. ASSUME Bad # {} PROVE FALSE
    <2>1. PICK T \in Bad : \A U \in SUBSET T : U # T => U \notin Bad
      <3> HIDE DEF Bad
      <3>1. Bad \in SUBSET SUBSET S
        BY DEF Bad
      <3>2. QED BY <1>1, <3>1, SmallestSet
    <2>2. T \in SUBSET S /\ Total(w, T) \notin Int /\ IsFiniteSet(T)
      BY FS_Subset
    <2>3. /\ T = {} => Total(w, T) = 0
          /\ T # {} => Pick(T) \in T /\ Total(w, T) = w[Pick(T)] + Total(w, T \ {Pick(T)})
      BY <2>2, TotalPicked
    <2>4. T # {} => Total(w, T \ {Pick(T)}) \in Int
      BY <2>1, <2>2, <2>3
    <2>5. QED BY <2>2, <2>3, <2>4
  <1>2. QED BY <1>1

\* The order of the elements does not matter: any of them may come first.
LEMMA TotalWithout ==
    ASSUME NEW w, NEW S, IsFiniteSet(S), \A x \in S : w[x] \in Int, NEW y \in S
    PROVE  Total(w, S) = w[y] + Total(w, S \ {y})
  <1> DEFINE Bad == {T \in SUBSET S : \E x \in T : Total(w, T) # w[x] + Total(w, T \ {x})}
  <1>1. ASSUME Bad # {} PROVE FALSE
    <2>1. PICK T \in Bad : \A U \in SUBSET T : U # T => U \notin Bad
      <3> HIDE DEF Bad
      <3>1. Bad \in SUBSET SUBSET S
        BY DEF Bad
      <3>2. QED BY <1>1, <3>1, SmallestSet
    <2>2. T \in SUBSET S /\ IsFiniteSet(T)
      BY FS_Subset
    <2>3. PICK x \in T : Total(w, T) # w[x] + Total(w, T \ {x})
      OBVIOUS
    <2>4. PICK p \in T : Total(w, T) = w[p] + Total(w, T \ {p})
      BY <2>2, <2>3, TotalPicked
    <2>5. p # x
      BY <2>3, <2>4
    <2>6. T \ {p} \notin Bad /\ T \ {x} \notin Bad
      BY <2>1
    <2>7. T \ {p} \in SUBSET S /\ T \ {x} \in SUBSET S /\ x \in T \ {p} /\ p \in T \ {x}
      BY <2>2, <2>5
    <2> DEFINE A == (T \ {p}) \ {x}
               B == (T \ {x}) \ {p}
    <2>8. /\ Total(w, T \ {p}) = w[x] + Total(w, A)
          /\ Total(w, T \ {x}) = w[p] + Total(w, B)
      BY <2>6, <2>7
    <2>9. A = B /\ B \in SUBSET S
      BY <2>2
    <2>10. Total(w, B) \in Int
      <3> HIDE DEF A, B
      <3>1. IsFiniteSet(B) /\ \A z \in B : w[z] \in Int
        BY <2>9, FS_Subset
      <3>2. QED BY <3>1, TotalInt
    <2>11. w[x] \in Int /\ w[p] \in Int
      BY <2>2
    <2> HIDE DEF Bad, A, B
    <2>12. QED BY <2>3, <2>4, <2>8, <2>9, <2>10, <2>11
  <1>2. QED BY <1>1

\* One more element.
LEMMA TotalWith ==
    ASSUME NEW w, NEW S, IsFiniteSet(S), \A x \in S : w[x] \in Int,
           NEW y, y \notin S, w[y] \in Int
    PROVE  Total(w, S \cup {y}) = Total(w, S) + w[y]
  <1>1. IsFiniteSet(S \cup {y}) /\ \A x \in S \cup {y} : w[x] \in Int
    BY FS_AddElement
  <1> DEFINE V == (S \cup {y}) \ {y}
  <1>2. y \in S \cup {y} /\ V = S
    OBVIOUS
  <1>3. Total(w, S \cup {y}) = w[y] + Total(w, V)
    BY <1>1, <1>2, TotalWithout
  <1>4. Total(w, S) \in Int
    BY TotalInt
  <1> HIDE DEF V
  <1>5. QED BY <1>2, <1>3, <1>4

\* Sums are added term by term.
LEMMA TotalAdds ==
    ASSUME NEW w, NEW u, NEW v, NEW S, IsFiniteSet(S),
           \A x \in S : u[x] \in Int /\ v[x] \in Int /\ w[x] = u[x] + v[x]
    PROVE  Total(w, S) = Total(u, S) + Total(v, S)
  <1> DEFINE Bad == {T \in SUBSET S : Total(w, T) # Total(u, T) + Total(v, T)}
  <1>1. ASSUME Bad # {} PROVE FALSE
    <2>1. PICK T \in Bad : \A U \in SUBSET T : U # T => U \notin Bad
      <3> HIDE DEF Bad
      <3>1. Bad \in SUBSET SUBSET S
        BY DEF Bad
      <3>2. QED BY <1>1, <3>1, SmallestSet
    <2>2. T \in SUBSET S /\ IsFiniteSet(T) /\ Total(w, T) # Total(u, T) + Total(v, T)
      BY FS_Subset
    <2>3. CASE T = {}
      <3>1. Total(w, T) = 0 /\ Total(u, T) = 0 /\ Total(v, T) = 0
        BY <2>2, <2>3, TotalPicked
      <3> HIDE DEF Bad
      <3>2. QED BY <2>2, <3>1
    <2>4. CASE T # {}
      <3>1. PICK y \in T : y = Pick(T)
        BY <2>2, <2>4, TotalPicked
      <3> DEFINE V == T \ {y}
      <3>2. Total(w, V) = Total(u, V) + Total(v, V)
        BY <2>1, <2>2
      <3>3. IsFiniteSet(V) /\ V \in SUBSET S
        BY <2>2, FS_Subset
      <3> HIDE DEF V, Bad
      <3>4. Total(u, V) \in Int /\ Total(v, V) \in Int
        BY <3>3, TotalInt
      <3>5. /\ Total(w, T) = w[y] + Total(w, V)
            /\ Total(u, T) = u[y] + Total(u, V)
            /\ Total(v, T) = v[y] + Total(v, V)
        BY <2>2, <2>4, <3>1, TotalPicked DEF V
      <3>6. u[y] \in Int /\ v[y] \in Int /\ w[y] = u[y] + v[y]
        BY <2>2
      <3>7. QED BY <2>2, <3>2, <3>4, <3>5, <3>6
    <2>5. QED BY <2>3, <2>4
  <1>2. QED BY <1>1

\* A sum of zeros.
LEMMA TotalZero ==
    ASSUME NEW w, NEW S, IsFiniteSet(S), \A x \in S : w[x] = 0
    PROVE  Total(w, S) = 0
  <1>1. Total(w, S) = Total(w, S) + Total(w, S)
    <2>1. \A x \in S : w[x] \in Int /\ w[x] \in Int /\ w[x] = w[x] + w[x]
      OBVIOUS
    <2>2. QED BY <2>1, TotalAdds
  <1>2. Total(w, S) \in Int
    BY TotalInt
  <1> DEFINE n == Total(w, S)
  <1>3. n \in Int /\ n = n + n
    BY <1>1, <1>2
  <1>4. \A i \in Int : i = i + i => i = 0
    OBVIOUS
  <1> HIDE DEF n
  <1>5. n = 0
    BY <1>3, <1>4
  <1>6. QED BY <1>5 DEF n

\* Functions that agree on a set have one sum over it.
LEMMA TotalSame ==
    ASSUME NEW w, NEW u, NEW S, IsFiniteSet(S), \A x \in S : w[x] = u[x] /\ u[x] \in Int
    PROVE  Total(w, S) = Total(u, S)
  <1> DEFINE z == [x \in S |-> 0]
  <1>1. Total(z, S) = 0
    BY TotalZero
  <1>2. \A x \in S : u[x] \in Int /\ z[x] \in Int /\ w[x] = u[x] + z[x]
    OBVIOUS
  <1> HIDE DEF z
  <1>3. Total(w, S) = Total(u, S) + Total(z, S)
    BY <1>2, TotalAdds
  <1>4. Total(u, S) \in Int
    BY TotalInt
  <1>5. QED BY <1>1, <1>3, <1>4

\* Negated terms have the negated sum.
LEMMA TotalOpposite ==
    ASSUME NEW w, NEW u, NEW S, IsFiniteSet(S), \A x \in S : u[x] \in Int /\ w[x] = -u[x]
    PROVE  Total(w, S) = -Total(u, S)
  <1> DEFINE z == [x \in S |-> 0]
  <1>1. Total(z, S) = 0
    BY TotalZero
  <1>2. \A x \in S : w[x] \in Int /\ u[x] \in Int /\ z[x] = w[x] + u[x]
    OBVIOUS
  <1> HIDE DEF z
  <1>3. Total(z, S) = Total(w, S) + Total(u, S)
    BY <1>2, TotalAdds
  <1>4. Total(u, S) \in Int /\ Total(w, S) \in Int
    BY <1>2, TotalInt
  <1>5. QED BY <1>1, <1>3, <1>4

\* The sum over two disjoint sets.
LEMMA TotalUnion ==
    ASSUME NEW w, NEW S, NEW T, IsFiniteSet(S), IsFiniteSet(T), S \cap T = {},
           \A x \in S \cup T : w[x] \in Int
    PROVE  Total(w, S \cup T) = Total(w, S) + Total(w, T)
  <1> DEFINE Bad == {U \in SUBSET T : Total(w, S \cup U) # Total(w, S) + Total(w, U)}
  <1>1. ASSUME Bad # {} PROVE FALSE
    <2>1. PICK U \in Bad : \A X \in SUBSET U : X # U => X \notin Bad
      <3> HIDE DEF Bad
      <3>1. Bad \in SUBSET SUBSET T
        BY DEF Bad
      <3>2. QED BY <1>1, <3>1, SmallestSet
    <2>2. U \in SUBSET T /\ IsFiniteSet(U) /\ Total(w, S \cup U) # Total(w, S) + Total(w, U)
      BY FS_Subset
    <2>3. Total(w, S) \in Int
      BY TotalInt
    <2>4. CASE U = {}
      <3> DEFINE V == S \cup U
      <3>1. V = S /\ Total(w, U) = 0
        BY <2>2, <2>4, TotalPicked
      <3> HIDE DEF V, Bad
      <3>2. Total(w, V) = Total(w, S) + Total(w, U)
        BY <2>3, <3>1
      <3>3. QED BY <2>2, <3>2 DEF V
    <2>5. CASE U # {}
      <3>1. PICK y \in U : TRUE
        BY <2>5
      <3> DEFINE X == U \ {y}
                 V == S \cup X
                 W == S \cup U
                 Y == W \ {y}
      <3>2. Total(w, V) = Total(w, S) + Total(w, X)
        BY <2>1, <2>2
      <3>3. X \in SUBSET T
        BY <2>2
      <3>4. Y = V
        BY <2>2, <3>1
      <3>5. y \in W
        OBVIOUS
      <3>6. IsFiniteSet(W) /\ \A x \in W : w[x] \in Int
        BY <2>2, FS_Union
      <3>7. Total(w, W) # Total(w, S) + Total(w, U)
        BY <2>2
      <3>8. Total(w, W) = w[y] + Total(w, Y)
        <4> HIDE DEF W
        <4>1. QED BY <3>5, <3>6, TotalWithout
      <3>9. Total(w, U) = w[y] + Total(w, X)
        BY <2>2, TotalWithout
      <3> HIDE DEF X, V, W, Y, Bad
      <3>10. Total(w, X) \in Int
        <4>1. IsFiniteSet(X) /\ \A x \in X : w[x] \in Int
          BY <3>3, FS_Subset
        <4>2. QED BY <4>1, TotalInt
      <3>11. w[y] \in Int
        BY <2>2
      <3>12. Total(w, Y) = Total(w, V)
        BY <3>4
      <3>13. QED BY <2>3, <3>2, <3>7, <3>8, <3>9, <3>10, <3>11, <3>12
    <2>6. QED BY <2>4, <2>5
  <1>2. QED BY <1>1

\* f takes S one to one onto R and the terms over S to those over R.
SameTerms(f, w, S, u, R) ==
    /\ f \in [S -> R]
    /\ \A x \in S : w[x] \in Int /\ u[f[x]] = w[x]
    /\ \A x, y \in S : f[x] = f[y] => x = y
    /\ \A y \in R : \E x \in S : f[x] = y

\* A bijection that keeps the terms keeps the sum.
LEMMA TotalMapped ==
    ASSUME NEW w, NEW u, NEW S, IsFiniteSet(S), NEW R, NEW f, SameTerms(f, w, S, u, R)
    PROVE  IsFiniteSet(R) /\ Cardinality(R) = Cardinality(S) /\ Total(u, R) = Total(w, S)
  <1> DEFINE Onto(T) == {f[x] : x \in T}
             Good(T) == /\ IsFiniteSet(Onto(T))
                        /\ Cardinality(Onto(T)) = Cardinality(T)
                        /\ Total(u, Onto(T)) = Total(w, T)
             Bad == {T \in SUBSET S : ~Good(T)}
  <1>0. /\ f \in [S -> R]
        /\ \A x \in S : w[x] \in Int /\ u[f[x]] = w[x]
        /\ \A x, y \in S : f[x] = f[y] => x = y
        /\ \A y \in R : \E x \in S : f[x] = y
    BY DEF SameTerms
  <1>1. ASSUME Bad # {} PROVE FALSE
    <2>1. PICK T \in Bad : \A X \in SUBSET T : X # T => X \notin Bad
      <3> HIDE DEF Bad
      <3>1. Bad \in SUBSET SUBSET S
        BY DEF Bad
      <3>2. QED BY <1>1, <3>1, SmallestSet
    <2>2. T \in SUBSET S /\ IsFiniteSet(T) /\ ~Good(T)
      <3> HIDE DEF Good
      <3>1. QED BY FS_Subset
    <2>3. CASE T = {}
      <3> DEFINE V == Onto(T)
      <3>1. V = {}
        BY <2>3
      <3> HIDE DEF V
      <3>2. IsFiniteSet(V) /\ Cardinality(V) = 0 /\ Cardinality(T) = 0
        BY <2>3, <3>1, FS_EmptySet
      <3>3. Total(u, V) = 0 /\ Total(w, T) = 0
        BY <2>2, <2>3, <3>1, <3>2, TotalPicked
      <3>4. QED BY <2>2, <3>2, <3>3 DEF V
    <2>4. CASE T # {}
      <3>1. PICK y \in T : TRUE
        BY <2>4
      <3> DEFINE X == T \ {y}
                 V == Onto(X)
                 W == Onto(T)
                 Y == V \cup {f[y]}
      <3>2. IsFiniteSet(V) /\ Cardinality(V) = Cardinality(X) /\ Total(u, V) = Total(w, X)
        BY <2>1, <2>2
      <3>3. X \in SUBSET S
        BY <2>2
      <3>4. W = Y /\ f[y] \notin V
        BY <1>0, <2>2, <3>1
      <3>5. \A x \in V : u[x] \in Int
        BY <1>0, <2>2
      <3>6. u[f[y]] = w[y] /\ w[y] \in Int
        BY <1>0, <2>2
      <3>7. Total(w, T) = w[y] + Total(w, X)
        <4> HIDE DEF Good
        <4>1. QED BY <1>0, <2>2, TotalWithout
      <3>8. Cardinality(X) = Cardinality(T) - 1 /\ Cardinality(T) \in Nat
        <4> HIDE DEF Good
        <4>1. QED BY <2>2, FS_RemoveElement, FS_CardinalityType
      <3>9. Good(T) <=> IsFiniteSet(W) /\ Cardinality(W) = Cardinality(T) /\ Total(u, W) = Total(w, T)
        OBVIOUS
      <3> HIDE DEF X, V, W, Bad, Good
      <3>10. Total(u, Y) = Total(u, V) + u[f[y]]
        BY <3>2, <3>4, <3>5, <3>6, TotalWith
      <3>11. IsFiniteSet(Y) /\ Cardinality(Y) = Cardinality(V) + 1
        BY <3>2, <3>4, FS_AddElement
      <3> HIDE DEF Y
      <3>12. Total(w, X) \in Int
        <4>1. IsFiniteSet(X) /\ \A x \in X : w[x] \in Int
          BY <1>0, <3>3, FS_Subset
        <4>2. QED BY <4>1, TotalInt
      <3>13. IsFiniteSet(W) /\ Cardinality(W) = Cardinality(T)
        BY <3>2, <3>4, <3>8, <3>11
      <3>14. Total(u, W) = Total(w, T)
        BY <3>2, <3>4, <3>6, <3>7, <3>10, <3>12
      <3>15. QED BY <2>2, <3>9, <3>13, <3>14
    <2>5. QED BY <2>3, <2>4
  <1>2. Good(S)
    <2> HIDE DEF Good
    <2>1. QED BY <1>1
  <1> DEFINE V == Onto(S)
  <1>3. V = R
    BY <1>0
  <1>4. IsFiniteSet(V) /\ Cardinality(V) = Cardinality(S) /\ Total(u, V) = Total(w, S)
    BY <1>2
  <1> HIDE DEF V
  <1>5. QED BY <1>3, <1>4

\* Summing the sums of disjoint sets is summing over their union.
LEMMA TotalOfTotals ==
    ASSUME NEW w, NEW M, IsFiniteSet(M), NEW F, NEW sums,
           \A a \in M : /\ IsFiniteSet(F[a])
                        /\ sums[a] = Total(w, F[a])
                        /\ \A x \in F[a] : w[x] \in Int,
           \A a, b \in M : a # b => F[a] \cap F[b] = {}
    PROVE  Total(sums, M) = Total(w, UNION {F[a] : a \in M})
  <1> DEFINE All(A) == UNION {F[a] : a \in A}
             Good(A) == IsFiniteSet(All(A)) /\ Total(sums, A) = Total(w, All(A))
             Bad == {A \in SUBSET M : ~Good(A)}
  <1>1. ASSUME Bad # {} PROVE FALSE
    <2>1. PICK A \in Bad : \A X \in SUBSET A : X # A => X \notin Bad
      <3> HIDE DEF Bad
      <3>1. Bad \in SUBSET SUBSET M
        BY DEF Bad
      <3>2. QED BY <1>1, <3>1, SmallestSet
    <2>2. A \in SUBSET M /\ IsFiniteSet(A) /\ ~Good(A)
      <3> HIDE DEF Good
      <3>1. QED BY FS_Subset
    <2>3. CASE A = {}
      <3> DEFINE V == All(A)
      <3>1. V = {}
        BY <2>3
      <3> HIDE DEF V
      <3>2. IsFiniteSet(V)
        BY <3>1, FS_EmptySet
      <3>3. Total(w, V) = 0 /\ Total(sums, A) = 0
        BY <2>2, <2>3, <3>1, <3>2, TotalPicked
      <3>4. QED BY <2>2, <3>2, <3>3 DEF V
    <2>4. CASE A # {}
      <3>1. PICK y \in A : TRUE
        BY <2>4
      <3> DEFINE X == A \ {y}
                 V == All(X)
                 W == All(A)
                 Y == V \cup F[y]
      <3>2. IsFiniteSet(V) /\ Total(sums, X) = Total(w, V)
        BY <2>1, <2>2
      <3>3. X \in SUBSET M /\ y \in M
        BY <2>2
      <3>4. W = Y
        BY <3>1
      <3>5. V \cap F[y] = {}
        BY <2>2, <3>1
      <3>6. \A x \in Y : w[x] \in Int
        BY <2>2
      <3>7. \A a \in M : sums[a] \in Int
        BY TotalInt
      <3>8. Total(sums, A) = sums[y] + Total(sums, X)
        <4> HIDE DEF Good
        <4>1. QED BY <2>2, <3>7, TotalWithout
      <3>9. Good(A) <=> IsFiniteSet(W) /\ Total(sums, A) = Total(w, W)
        OBVIOUS
      <3> HIDE DEF X, V, W, Bad, Good
      <3>10. IsFiniteSet(F[y]) /\ sums[y] = Total(w, F[y])
        BY <3>3
      <3>11. Total(w, Y) = Total(w, V) + Total(w, F[y])
        BY <3>2, <3>5, <3>6, <3>10, TotalUnion
      <3>12. IsFiniteSet(Y)
        BY <3>2, <3>10, FS_Union
      <3>13. Total(sums, X) \in Int /\ sums[y] \in Int
        <4>1. IsFiniteSet(X) /\ \A x \in X : sums[x] \in Int
          BY <3>3, <3>7, FS_Subset
        <4>2. QED BY <3>3, <3>7, <4>1, TotalInt
      <3> HIDE DEF Y
      <3>14. Total(w, W) = Total(w, Y) /\ IsFiniteSet(W)
        BY <3>4, <3>12
      <3>15. QED BY <2>2, <3>2, <3>8, <3>9, <3>10, <3>11, <3>13, <3>14
    <2>5. QED BY <2>3, <2>4
  <1>2. Good(M)
    <2> HIDE DEF Good
    <2>1. QED BY <1>1
  <1>3. QED BY <1>2

-----------------------------------------------------------------------------
(* The shape of the rows                                                    *)

\* Every row stands for itself or is one of the two rows of a transfer, which
\* are next to each other, the sender's first.
Shaped(d) ==
    \A k \in DOMAIN d.txn :
        \/ SingleEntry(d.txn[k])
        \/ k + 1 \in DOMAIN d.txn /\ Mated(d.txn[k], d.txn[k + 1])
        \/ k - 1 \in DOMAIN d.txn /\ Mated(d.txn[k - 1], d.txn[k])

\* The committed rows and those of the image have the shape.
ShapeInv == Shaped(db) /\ Shaped(work)

\* The rows that are there keep all that the statements look at.
LEMMA ColumnsStay ==
    ASSUME NEW d \in Database, NEW e \in Database, Grows(d, e), NEW t \in DOMAIN d.txn
    PROVE  /\ t \in DOMAIN e.txn
           /\ e.txn[t].account = d.txn[t].account
           /\ e.txn[t].type = d.txn[t].type
           /\ e.txn[t].amount = d.txn[t].amount
           /\ e.txn[t].change = d.txn[t].change
           /\ e.txn[t].counterparty = d.txn[t].counterparty
           /\ e.txn[t].related = d.txn[t].related
           /\ e.txn[t].after = d.txn[t].after
  <1>1. t \in DOMAIN e.txn
    BY DEF Grows, Database
  <1>2. d.txn[t] \in Transaction /\ e.txn[t] \in Transaction /\ Unchanged(d.txn[t], e.txn[t])
    BY <1>1 DEF Grows, Database
  <1>3. QED BY <1>1, <1>2 DEF Unchanged, Transaction

\* Rows of the right shape on top of others keep the shape.
LEMMA ShapedGrows ==
    ASSUME NEW d \in Database, NEW e \in Database, Grows(d, e), Shaped(d),
           NEW N, DOMAIN e.txn = DOMAIN d.txn \cup N,
           \A k \in N :
              \/ SingleEntry(e.txn[k])
              \/ k + 1 \in DOMAIN e.txn /\ Mated(e.txn[k], e.txn[k + 1])
              \/ k - 1 \in DOMAIN e.txn /\ Mated(e.txn[k - 1], e.txn[k])
    PROVE  Shaped(e)
  <1>1. ASSUME NEW k \in DOMAIN d.txn
        PROVE  \/ SingleEntry(e.txn[k])
               \/ k + 1 \in DOMAIN e.txn /\ Mated(e.txn[k], e.txn[k + 1])
               \/ k - 1 \in DOMAIN e.txn /\ Mated(e.txn[k - 1], e.txn[k])
    <2>1. CASE SingleEntry(d.txn[k])
      <3>1. SingleEntry(e.txn[k])
        BY <2>1, ColumnsStay DEF SingleEntry
      <3>2. QED BY <3>1
    <2>2. CASE k + 1 \in DOMAIN d.txn /\ Mated(d.txn[k], d.txn[k + 1])
      <3>1. k + 1 \in DOMAIN e.txn /\ Mated(e.txn[k], e.txn[k + 1])
        BY <2>2, ColumnsStay DEF Mated
      <3>2. QED BY <3>1
    <2>3. CASE k - 1 \in DOMAIN d.txn /\ Mated(d.txn[k - 1], d.txn[k])
      <3>1. k - 1 \in DOMAIN e.txn /\ Mated(e.txn[k - 1], e.txn[k])
        BY <2>3, ColumnsStay DEF Mated
      <3>2. QED BY <3>1
    <2>4. QED BY <2>1, <2>2, <2>3 DEF Shaped
  <1>2. QED BY <1>1 DEF Shaped

\* A posting of one row keeps the shape.
LEMMA ShapeRow ==
    ASSUME IInv, IInv', ShapeInv, NEW r \in Requests, NEW row, NEW x, PostsRow(r, row, x)
    PROVE  ShapeInv'
  <1> DEFINE q == req[r]
             n == Len(db.txn) + 1
             N == {n}
  <1>1. /\ Flushed(r) /\ x \in {row.amount, -row.amount} /\ row.change = x
        /\ row.counterparty = NoAccount
        /\ q.op # "reverse" => SingleEntry(row)
        /\ Len(work'.txn) = n
        /\ DOMAIN work'.txn = DOMAIN db.txn \cup {n}
        /\ work'.txn[n] = row
        /\ q.op \in {"deposit", "withdraw"} \/
             /\ q.op = "reverse"
             /\ q.tid \in DOMAIN db.txn
             /\ row.type = "REVERSAL" /\ row.related = q.tid
             /\ row.amount = db.txn[q.tid].amount
    BY DEF PostsRow
  <1>2. /\ db \in Database /\ work' \in Database /\ Grows(db, work')
        /\ Len(db.txn) \in Nat /\ 0 \notin DOMAIN db.txn
    <2>1. db \in Database /\ work' \in Database /\ Grows(db, work')
      BY <1>1, FlushedImages
    <2>2. QED BY <2>1, RowNumbers
  <1>3. \A k \in DOMAIN db.txn : db.txn[k].amount > 0
    <2>1. Shaped(db)
      BY DEF ShapeInv
    <2>2. QED BY <2>1 DEF Shaped, SingleEntry, Mated
  <1>4. SingleEntry(row)
    <2>1. CASE q.op # "reverse"
      BY <1>1, <2>1
    <2>2. CASE q.op = "reverse"
      <3>1. row.type = "REVERSAL" /\ row.amount > 0 /\ row.related # 0
        BY <1>1, <1>2, <1>3, <2>2
      <3>2. row.type \in {"DEPOSIT", "WITHDRAWAL", "REVERSAL"}
            /\ row.type # "DEPOSIT" /\ row.type # "WITHDRAWAL"
        BY <3>1
      <3>3. QED BY <1>1, <3>1, <3>2 DEF SingleEntry
    <2>3. QED BY <2>1, <2>2
  <1>5. \A k \in N : SingleEntry(work'.txn[k])
    BY <1>1, <1>4
  <1>6. DOMAIN work'.txn = DOMAIN db.txn \cup N
    BY <1>1
  <1> HIDE DEF N
  <1>7. Shaped(work')
    <2>1. Shaped(db)
      BY DEF ShapeInv
    <2>2. QED BY <1>2, <1>5, <1>6, <2>1, ShapedGrows
  <1>8. db' = db
    BY <1>1 DEF Flushed
  <1>9. QED BY <1>7, <1>8 DEF ShapeInv, Shaped, SingleEntry, Mated

\* A transfer keeps the shape.
LEMMA ShapePair ==
    ASSUME IInv, IInv', ShapeInv, NEW r \in Requests, NEW out, NEW in, PostsPair(r, out, in)
    PROVE  ShapeInv'
  <1> DEFINE n == Len(db.txn) + 1
             N == {n, n + 1}
  <1>1. /\ Flushed(r) /\ Mated(out, in)
        /\ Len(work'.txn) = n + 1
        /\ DOMAIN work'.txn = DOMAIN db.txn \cup {n, n + 1}
        /\ work'.txn[n] = out /\ work'.txn[n + 1] = in
    BY DEF PostsPair
  <1>2. db \in Database /\ work' \in Database /\ Grows(db, work') /\ Len(db.txn) \in Nat
    <2>1. db \in Database /\ work' \in Database /\ Grows(db, work')
      BY <1>1, FlushedImages
    <2>2. QED BY <2>1 DEF Database
  <1>3. \A k \in N : \/ k + 1 \in DOMAIN work'.txn /\ Mated(work'.txn[k], work'.txn[k + 1])
                     \/ k - 1 \in DOMAIN work'.txn /\ Mated(work'.txn[k - 1], work'.txn[k])
    <2>1. n + 1 \in DOMAIN work'.txn /\ Mated(work'.txn[n], work'.txn[n + 1])
      BY <1>1
    <2>2. n \in DOMAIN work'.txn /\ (n + 1) - 1 = n
      BY <1>1, <1>2
    <2>3. QED BY <2>1, <2>2
  <1>4. DOMAIN work'.txn = DOMAIN db.txn \cup N
    BY <1>1
  <1> HIDE DEF N
  <1>5. Shaped(work')
    <2>1. Shaped(db)
      BY DEF ShapeInv
    <2>2. QED BY <1>2, <1>3, <1>4, <2>1, ShapedGrows
  <1>6. db' = db
    BY <1>1 DEF Flushed
  <1>7. QED BY <1>5, <1>6 DEF ShapeInv, Shaped, SingleEntry, Mated

\* The initial database has no rows.
LEMMA InitShape == Init => ShapeInv
  BY DEF Init, ShapeInv, Shaped

\* Every step keeps the shape.
LEMMA NextShape ==
    ASSUME IInv, IInv', HeadInv, ShapeInv, [Next]_vars
    PROVE  ShapeInv'
  <1> USE DEF ShapeInv
  <1>1. CASE UNCHANGED <<db, work>>
    BY <1>1 DEF Shaped, SingleEntry, Mated
  <1>2. ASSUME NEW r \in Requests, Start(r) \/ Step(r) \/ Fail(r)
        PROVE  ShapeInv'
    <2>1. CASE \/ Start(r) \/ LoadDestination(r) \/ LoadReversed(r) \/ RejectReversed(r)
               \/ Reject(r) \/ Busy(r)
      <3>1. UNCHANGED <<db, work>>
        BY <2>1 DEF Start, StartOpen, StartSingle, StartTransfer, StartReverse,
                    LoadDestination, LoadReversed, RejectReversed, Reject, Busy
      <3>2. QED BY <1>1, <3>1
    <2>2. CASE Open(r)
      <3>1. PICK a \in Accounts \ db.opened :
               Flush(r, db.opened \cup {a}, [db.acct EXCEPT ![a] = Fresh], db.txn)
        BY <2>2 DEF Open
      <3>2. work'.txn = db.txn /\ db' = db
        BY <3>1, FlushImage
      <3>3. QED BY <3>2 DEF Shaped, SingleEntry, Mated
    <2>3. CASE Deposit(r) \/ Withdraw(r) \/ Reverse(r)
      <3>1. PICK row, x : PostsRow(r, row, x)
        BY <2>3, SinglePosts, ReversePosts
      <3>2. QED BY <3>1, ShapeRow
    <2>4. CASE Transfer(r)
      <3>1. PICK out, in : PostsPair(r, out, in)
        BY <2>4, TransferPosts
      <3>2. QED BY <3>1, ShapePair
    <2>5. CASE RecordOpen(r) \/ RecordSingle(r) \/ RecordTransfer(r) \/ RecordReverse(r)
      <3>1. work'.txn = work.txn /\ db' = db
        BY <2>5, RecordedKeeps
      <3>2. QED BY <3>1 DEF Shaped, SingleEntry, Mated
    <2>6. CASE Commit(r) \/ Fail(r)
      <3>1. (db' = work /\ work' = work) \/ (db' = db /\ work' \in {work, db})
        BY <2>6 DEF Commit, Fail
      <3>2. CASE db' = db /\ work' = work
        BY <3>2 DEF Shaped, SingleEntry, Mated
      <3>3. CASE db' = work /\ work' = work
        BY <3>3 DEF Shaped, SingleEntry, Mated
      <3>4. CASE db' = db /\ work' = db
        BY <3>4 DEF Shaped, SingleEntry, Mated
      <3>5. QED BY <3>1, <3>2, <3>3, <3>4
    <2>7. QED BY <1>2, <2>1, <2>2, <2>3, <2>4, <2>5, <2>6 DEF Step
  <1>3. QED BY <1>1, <1>2 DEF Next, Rest, vars

-----------------------------------------------------------------------------
(* A page that is being computed, whatever commits meanwhile                *)

\* The rows of an account among the first n.
RowsUntil(d, a, n) == {t \in RowsOf(d, a) : t <= n}

\* The page's account is open, and the newest of its rows that the page counted
\* carries the balance the page has.
PageInv ==
    page # NoPage =>
        /\ page \in Page
        /\ page.account \in db.opened
        /\ page.rows <= Len(db.txn)
        /\ \A t \in RowsUntil(db, page.account, page.rows) :
              (\A k \in RowsUntil(db, page.account, page.rows) : k <= t)
                => db.txn[t].after = page.balance

\* Rows that commit later are none of the first n.
LEMMA UntilStays ==
    ASSUME NEW d \in Database, NEW e \in Database, Grows(d, e), NEW a, NEW n \in Nat,
           n <= Len(d.txn)
    PROVE  RowsUntil(e, a, n) = RowsUntil(d, a, n)
  <1>1. /\ Len(d.txn) \in Nat /\ DOMAIN d.txn = 1 .. Len(d.txn)
        /\ Len(e.txn) \in Nat /\ DOMAIN e.txn = 1 .. Len(e.txn)
    BY DEF Database
  <1>2. \A t \in DOMAIN d.txn : t \in DOMAIN e.txn /\ e.txn[t].account = d.txn[t].account
    BY ColumnsStay
  <1>3. \A t \in DOMAIN e.txn : t <= n => t \in DOMAIN d.txn
    BY <1>1
  <1>4. QED BY <1>2, <1>3 DEF RowsUntil, RowsOf

\* A commit that adds rows or none leaves a page right about the rows it counted.
LEMMA PageStays ==
    ASSUME IInv, IInv', PageInv, UNCHANGED page, db' = db \/ db' = work
    PROVE  PageInv'
  <1> SUFFICES ASSUME page # NoPage, db' = work
               PROVE  PageInv'
    BY DEF PageInv, RowsUntil, RowsOf
  <1> DEFINE S == RowsUntil(db, page.account, page.rows)
  <1>1. /\ page \in Page /\ page.account \in db.opened /\ page.rows <= Len(db.txn)
        /\ \A t \in S : (\A k \in S : k <= t) => db.txn[t].after = page.balance
    BY DEF PageInv
  <1>2. db \in Database /\ work \in Database /\ Grows(db, work)
    BY DEF IInv, TypeOK
  <1>3. /\ Len(db.txn) \in Nat /\ Len(work.txn) \in Nat /\ Len(work.txn) >= Len(db.txn)
        /\ db.opened \subseteq work.opened
    BY <1>2 DEF Database, Grows
  <1>4. page.rows \in Nat
    BY <1>1 DEF Page
  <1>5. RowsUntil(work, page.account, page.rows) = S
    BY <1>1, <1>2, <1>4, UntilStays
  <1>6. \A t \in S : work.txn[t].after = db.txn[t].after
    <2>1. \A t \in S : t \in DOMAIN db.txn
      BY DEF RowsUntil, RowsOf
    <2>2. QED BY <1>2, <2>1, ColumnsStay
  <1> HIDE DEF S
  <1>7. \A t \in S : (\A k \in S : k <= t) => work.txn[t].after = page.balance
    BY <1>1, <1>6
  <1>8. /\ page' \in Page /\ page'.account \in db'.opened /\ page'.rows <= Len(db'.txn)
        /\ RowsUntil(db', page'.account, page'.rows) = S
    <2>1. page.rows <= Len(work.txn)
      BY <1>1, <1>3, <1>4
    <2>2. QED BY <1>1, <1>3, <1>5, <2>1
  <1>9. QED BY <1>7, <1>8 DEF PageInv, RowsUntil, RowsOf

\* All rows are among the first Len(d.txn).
LEMMA UntilAll ==
    ASSUME NEW d \in Database, NEW a
    PROVE  RowsUntil(d, a, Len(d.txn)) = RowsOf(d, a)
  <1>1. \A t \in DOMAIN d.txn : t <= Len(d.txn)
    BY DEF Database
  <1>2. QED BY <1>1 DEF RowsUntil, RowsOf

\* The database changes only by a commit.
LEMMA CommitsOnly ==
    ASSUME [Next]_vars
    PROVE  db' = db \/ db' = work
  <1>1. ASSUME NEW r \in Requests, Start(r) \/ Step(r) \/ Fail(r)
        PROVE  db' = db \/ db' = work
    BY <1>1 DEF Start, Step, StartOpen, StartSingle, StartTransfer, StartReverse,
                LoadDestination, LoadReversed, RejectReversed, Reject, Busy, Open, Deposit,
                Withdraw, PostSingle, Transfer, Reverse, Flush, RecordOpen, RecordSingle,
                RecordTransfer, RecordReverse, Record, Commit, Fail
  <1>2. QED BY <1>1 DEF Next, Rest, vars

\* Every step keeps the page right.
LEMMA NextPage ==
    ASSUME IInv, IInv', HeadInv, PageInv, [SNext]_svars
    PROVE  PageInv'
  <1>1. CASE UNCHANGED page /\ [Next]_vars
    BY <1>1, CommitsOnly, PageStays
  <1>2. CASE ClosePage
    BY <1>2 DEF ClosePage, PageInv
  <1>3. CASE OpenPage
    <2>1. PICK u \in Users, asked \in Accounts : \E a \in Selected(u, asked) :
             page' = [account |-> a, balance |-> db.acct[a].balance, rows |-> Len(db.txn)]
      BY <1>3 DEF OpenPage
    <2>2. PICK a \in db.opened :
             page' = [account |-> a, balance |-> db.acct[a].balance, rows |-> Len(db.txn)]
      BY <2>1 DEF Selected, OwnedBy
    <2>3. db' = db
      BY <1>3 DEF OpenPage, vars
    <2>4. db \in Database /\ NewestRow(db, a)
      BY DEF IInv, TypeOK, HeadInv, RowsShow
    <2>5. Len(db.txn) \in Nat /\ a \in Accounts /\ db.acct[a].balance \in Int
      BY <2>4 DEF Database, Account
    <2>6. page' \in Page
      BY <2>2, <2>5 DEF Page
    <2>7. page'.account = a /\ page'.balance = db.acct[a].balance /\ page'.rows = Len(db.txn)
      BY <2>2
    <2>8. RowsUntil(db, a, Len(db.txn)) = RowsOf(db, a)
      BY <2>4, UntilAll
    <2>9. \A t \in RowsUntil(db, a, Len(db.txn)) :
             (\A k \in RowsUntil(db, a, Len(db.txn)) : k <= t) => db.txn[t].after = page'.balance
      BY <2>4, <2>7, <2>8 DEF NewestRow
    <2>10. /\ page'.account \in db'.opened /\ page'.rows <= Len(db'.txn)
           /\ RowsUntil(db', page'.account, page'.rows) = RowsUntil(db, a, Len(db.txn))
      BY <2>3, <2>5, <2>7
    <2> DEFINE S == RowsUntil(db, a, Len(db.txn))
    <2>11. \A t \in S : (\A k \in S : k <= t) => db'.txn[t].after = page'.balance
      BY <2>3, <2>9
    <2> HIDE DEF S
    <2>12. RowsUntil(db', page'.account, page'.rows) = S
      BY <2>10 DEF S
    <2>13. QED BY <2>6, <2>10, <2>11, <2>12 DEF PageInv, RowsUntil, RowsOf
  <1>4. QED BY <1>1, <1>2, <1>3 DEF SNext, svars

\* Opening and closing pages leaves the requests alone.
LEMMA StatementsRunBanking == StatementSpec => Spec
  <1>1. SInit => Init
    BY DEF SInit
  <1>2. [SNext]_svars => [Next]_vars
    BY DEF SNext, svars, OpenPage, ClosePage
  <1>3. QED BY <1>1, <1>2, PTL DEF StatementSpec, Spec

\* Every reachable state satisfies all the invariants.
THEOREM StatementInvariant ==
    StatementSpec => [](IInv /\ HeadInv /\ ShapeInv /\ PageInv)
  <1>1. SInit => ShapeInv /\ PageInv
    BY InitShape DEF SInit, PageInv
  <1>2. IInv /\ IInv' /\ HeadInv /\ ShapeInv /\ [SNext]_svars => ShapeInv'
    <2>1. [SNext]_svars => [Next]_vars
      BY DEF SNext, svars, OpenPage, ClosePage
    <2>2. QED BY <2>1, NextShape
  <1>3. IInv /\ IInv' /\ HeadInv /\ PageInv /\ [SNext]_svars => PageInv'
    BY NextPage
  <1>4. QED BY <1>1, <1>2, <1>3, StatementsRunBanking, BooksInvariant, PTL DEF StatementSpec

\* A page is an account with its balance and a number of rows, or none is being
\* computed; the other variables have their types as in Banking.
THEOREM StatementTypes == StatementSpec => []STypeOK
  <1>1. IInv /\ PageInv => STypeOK
    BY DEF IInv, PageInv, STypeOK
  <1>2. QED BY <1>1, StatementInvariant, PTL

-----------------------------------------------------------------------------
(* The last line of a passbook                                              *)

\* A set of numbers up to a bound has a greatest.
LEMMA Greatest ==
    ASSUME NEW n \in Nat, NEW P \in SUBSET (1 .. n), P # {}
    PROVE  \E m \in P : \A k \in P : k <= m
  <1> DEFINE Bounds == {b \in Nat : \A k \in P : k <= b}
  <1>1. n \in Bounds
    OBVIOUS
  <1>2. PICK m \in Bounds : \A b \in Bounds : ~(<<b, m>> \in OpToRel(<, Nat))
    <2>1. Bounds \in SUBSET Nat
      OBVIOUS
    <2>2. IsWellFoundedOn(OpToRel(<, Nat), Nat)
      BY NatLessThanWellFounded
    <2> HIDE DEF Bounds
    <2>3. QED BY <1>1, <2>1, <2>2, WFMin
  <1>3. m \in Nat /\ \A b \in Bounds : ~(b < m)
    BY <1>2 DEF OpToRel
  <1>4. m \in P
    <2>1. SUFFICES ASSUME m \notin P PROVE FALSE
      OBVIOUS
    <2>2. m \in Nat /\ \A k \in P : k <= m
      BY <1>2
    <2>3. \A k \in P : k \in Nat /\ k # m
      BY <2>1
    <2>4. m # 0
      <3>1. PICK k : k \in P
        OBVIOUS
      <3>2. k \in Nat /\ k # m /\ k <= m
        BY <2>2, <2>3, <3>1
      <3>3. QED BY <3>2
    <2>5. m - 1 \in Nat /\ \A k \in P : k <= m - 1
      BY <2>2, <2>3, <2>4
    <2>6. m - 1 \in Bounds
      BY <2>5
    <2>7. m - 1 < m
      BY <2>2
    <2> HIDE DEF Bounds
    <2>8. QED BY <1>3, <2>6, <2>7
  <1>5. QED BY <1>2, <1>4

\* The records of a window without other limits.
LEMMA FromRecords ==
    ASSUME \A t \in DOMAIN db.txn : t <= Len(db.txn), NEW a, NEW since, NEW t
    PROVE  t \in Records(a, From(since)) <=>
             /\ t \in DOMAIN db.txn /\ t >= since
             /\ db.txn[t].account = a \/ db.txn[t].counterparty = a
  <1>1. /\ From(since).first = since /\ From(since).last = Len(db.txn)
        /\ From(since).found = DOMAIN db.txn /\ From(since).kind = "ALL"
    BY DEF From
  <1>2. since <= t <=> t >= since
    OBVIOUS
  <1>3. QED BY <1>1, <1>2 DEF Records, Naming

\* A row names an account as counterparty only if it is one of the rows of a
\* transfer with it.
LEMMA PartnerRow ==
    ASSUME NEW d \in Database, Shaped(d), NEW t \in DOMAIN d.txn, NEW a \in Accounts,
           d.txn[t].counterparty = a
    PROVE  \/ /\ t + 1 \in DOMAIN d.txn /\ Mated(d.txn[t], d.txn[t + 1])
              /\ d.txn[t + 1].account = a
           \/ /\ t - 1 \in DOMAIN d.txn /\ Mated(d.txn[t - 1], d.txn[t])
              /\ d.txn[t - 1].account = a
  <1>1. a # NoAccount
    BY ConstantsAssumption
  <1>2. ~SingleEntry(d.txn[t])
    BY <1>1 DEF SingleEntry
  <1>3. \/ t + 1 \in DOMAIN d.txn /\ Mated(d.txn[t], d.txn[t + 1])
        \/ t - 1 \in DOMAIN d.txn /\ Mated(d.txn[t - 1], d.txn[t])
    BY <1>2 DEF Shaped
  <1>4. QED BY <1>3 DEF Mated

\* The running-balance column of a passbook ends at what the account holds when
\* the rows are read, in the last line or, after a transfer the account sent, in
\* the line before it.  That is the balance at the head of the passbook unless
\* a row of the account committed after the account was loaded; any number of
\* requests may commit in between (epassbook, download_epassbook_csv).
THEOREM PassbookCloses == StatementSpec => []PassbookEnds
  <1>1. IInv /\ HeadInv /\ ShapeInv /\ PageInv => PassbookEnds
    <2> SUFFICES ASSUME IInv, HeadInv, ShapeInv, PageInv,
                        page # NoPage, Passbook(page) # {}
                 PROVE  LET a    == page.account
                            last == CHOOSE t \in Passbook(page) : \A k \in Passbook(page) : k <= t
                            own  == IF db.txn[last].account = a THEN last ELSE last - 1
                        IN  /\ own \in RowsOn({a})
                            /\ db.txn[own].after = db.acct[a].balance
                            /\ db.txn[own].after # page.balance => own > page.rows
      BY DEF PassbookEnds
    <2> DEFINE a    == page.account
               P    == Passbook(page)
               last == CHOOSE t \in P : \A k \in P : k <= t
               own  == IF db.txn[last].account = a THEN last ELSE last - 1
    <2>1. db \in Database /\ Shaped(db) /\ a \in db.opened /\ a \in Accounts
      BY DEF IInv, TypeOK, ShapeInv, PageInv, Database
    <2>2. NewestRow(db, a)
      BY <2>1 DEF HeadInv, RowsShow
    <2>3. Len(db.txn) \in Nat /\ DOMAIN db.txn = 1 .. Len(db.txn)
      BY <2>1 DEF Database
    <2>4. \A t : t \in P <=> t \in DOMAIN db.txn /\ (db.txn[t].account = a \/ db.txn[t].counterparty = a)
      <3>1. \A t \in DOMAIN db.txn : 1 <= t /\ t <= Len(db.txn)
        BY <2>3
      <3>2. QED BY <3>1, FromRecords DEF Passbook
    <2>5. P \in SUBSET (1 .. Len(db.txn)) /\ P # {}
      BY <2>3, <2>4
    <2> HIDE DEF P
    <2>6. \E m \in P : \A k \in P : k <= m
      BY <2>3, <2>5, Greatest
    <2>7. last \in P /\ \A k \in P : k <= last
      BY <2>6
    <2> HIDE DEF last
    <2>8. last \in DOMAIN db.txn /\ last \in Nat
      BY <2>3, <2>4, <2>7
    <2>9. own \in RowsOf(db, a) /\ \A k \in RowsOf(db, a) : k <= own
      <3>1. CASE db.txn[last].account = a
        <4>1. last \in RowsOf(db, a) /\ \A k \in RowsOf(db, a) : k <= last
          BY <2>4, <2>7, <2>8, <3>1 DEF RowsOf
        <4>2. QED BY <3>1, <4>1
      <3>2. CASE db.txn[last].account # a
        <4>1. db.txn[last].counterparty = a
          BY <2>4, <2>7, <3>2
        <4>2. ~(last + 1 \in DOMAIN db.txn /\ db.txn[last + 1].account = a)
          <5>1. SUFFICES ASSUME last + 1 \in DOMAIN db.txn, db.txn[last + 1].account = a
                         PROVE  FALSE
            OBVIOUS
          <5>2. last + 1 <= last
            BY <2>4, <2>7, <5>1
          <5>3. QED BY <2>8, <5>2
        <4>3. last - 1 \in DOMAIN db.txn /\ db.txn[last - 1].account = a
          BY <2>1, <2>8, <4>1, <4>2, PartnerRow
        <4>4. \A k \in RowsOf(db, a) : k <= last - 1
          <5>1. \A k \in RowsOf(db, a) : k \in Nat /\ k <= last /\ k # last
            BY <2>3, <2>4, <2>7, <3>2 DEF RowsOf
          <5>2. QED BY <2>8, <5>1
        <4>5. last - 1 \in RowsOf(db, a)
          BY <4>3 DEF RowsOf
        <4>6. QED BY <3>2, <4>4, <4>5
      <3>3. QED BY <3>1, <3>2
    <2> HIDE DEF own
    <2>10. own \in RowsOn({a}) /\ own \in Nat
      BY <2>3, <2>9 DEF RowsOf, RowsOn
    <2>11. db.txn[own].after = db.acct[a].balance
      BY <2>2, <2>9 DEF NewestRow
    <2>12. db.txn[own].after # page.balance => own > page.rows
      <3>1. SUFFICES ASSUME ~(own > page.rows)
                     PROVE  db.txn[own].after = page.balance
        OBVIOUS
      <3>2. page.rows \in Nat
        BY DEF PageInv, Page
      <3>3. own <= page.rows
        BY <2>10, <3>1, <3>2
      <3>4. own \in RowsUntil(db, a, page.rows) /\ \A k \in RowsUntil(db, a, page.rows) : k <= own
        BY <2>9, <3>3 DEF RowsUntil
      <3>5. QED BY <3>4 DEF PageInv
    <2>13. QED BY <2>10, <2>11, <2>12 DEF own, last, P
  <1>2. QED BY <1>1, StatementInvariant, PTL

-----------------------------------------------------------------------------
(* The sums of the pages                                                    *)

\* The amounts and the changes of the rows, as functions.
AmountOf(d) == [t \in DOMAIN d.txn |-> d.txn[t].amount]

ChangeOf(d) == [t \in DOMAIN d.txn |-> d.txn[t].change]

\* Whatever satisfies the recursion has the total.
LEMMA AddsTotal ==
    ASSUME NEW w, NEW S, IsFiniteSet(S), NEW f, Adds(w, S, f)
    PROVE  f[S] = Total(w, S)
  <1>1. Total(w, S) = (CHOOSE g : Adds(w, S, g))[S]
    BY TotalUnfolds
  <1> DEFINE g == CHOOSE g : Adds(w, S, g)
  <1>2. Adds(w, S, g)
    OBVIOUS
  <1> HIDE DEF g
  <1>3. S \in SUBSET S
    OBVIOUS
  <1>4. f[S] = g[S]
    BY <1>2, <1>3, AddsAgree
  <1>5. QED BY <1>1, <1>4 DEF g

\* The rows are finitely many, with integer amounts and changes.
LEMMA RowsOfDatabase ==
    ASSUME NEW d \in Database, NEW rows \in SUBSET DOMAIN d.txn
    PROVE  /\ IsFiniteSet(rows)
           /\ \A t \in rows : /\ t \in Nat
                              /\ d.txn[t] \in Transaction
                              /\ AmountOf(d)[t] = d.txn[t].amount /\ AmountOf(d)[t] \in Int
                              /\ ChangeOf(d)[t] = d.txn[t].change /\ ChangeOf(d)[t] \in Int
  <1>1. Len(d.txn) \in Nat /\ DOMAIN d.txn = 1 .. Len(d.txn)
        /\ \A t \in DOMAIN d.txn : d.txn[t] \in Transaction
    BY DEF Database
  <1>2. IsFiniteSet(rows)
    <2>1. IsFiniteSet(1 .. Len(d.txn))
      BY <1>1, FS_Interval
    <2>2. rows \in SUBSET (1 .. Len(d.txn))
      BY <1>1
    <2>3. QED BY <2>1, <2>2, FS_Subset
  <1>3. \A t \in rows : t \in Nat /\ d.txn[t] \in Transaction
    BY <1>1
  <1>4. \A t \in rows : AmountOf(d)[t] = d.txn[t].amount /\ ChangeOf(d)[t] = d.txn[t].change
    BY DEF AmountOf, ChangeOf
  <1>5. \A t \in rows : d.txn[t].amount \in Int /\ d.txn[t].change \in Int
    BY <1>3 DEF Transaction
  <1>6. QED BY <1>2, <1>3, <1>4, <1>5

\* What a page sums over rows is their total.
LEMMA AmountTotal ==
    ASSUME db \in Database, NEW rows \in SUBSET DOMAIN db.txn
    PROVE  Amount(rows) = Total(AmountOf(db), rows) /\ Amount(rows) \in Int
  <1> DEFINE R(f) == f = [s \in SUBSET rows |->
                            IF s = {} THEN 0 ELSE db.txn[Pick(s)].amount + f[s \ {Pick(s)}]]
             w    == AmountOf(db)
  <1>1. Amount(rows) = (CHOOSE f : R(f))[rows]
    BY DEF Amount, MapThenSumSet, MapThenFoldSet, Pick
  <1>2. IsFiniteSet(rows) /\ \A t \in rows : w[t] = db.txn[t].amount /\ w[t] \in Int
    BY RowsOfDatabase
  <1> HIDE DEF w
  <1>3. ASSUME NEW f
        PROVE  R(f) <=> Adds(w, rows, f)
    <2>1. \A s \in SUBSET rows : s # {} => Pick(s) \in rows
      BY DEF Pick
    <2>2. \A s \in SUBSET rows : s # {} => w[Pick(s)] = db.txn[Pick(s)].amount
      BY <1>2, <2>1
    <2>3. QED BY <2>2 DEF Adds
  <1>4. \E f : R(f)
    BY <1>2, <1>3, AddsExists
  <1> DEFINE g == CHOOSE f : R(f)
  <1>5. R(g)
    BY <1>4
  <1> HIDE DEF R, g
  <1>6. Adds(w, rows, g)
    BY <1>3, <1>5
  <1>7. g[rows] = Total(w, rows) /\ Total(w, rows) \in Int
    BY <1>2, <1>6, AddsTotal, TotalInt
  <1>8. QED BY <1>1, <1>7 DEF g, w

\* The same for the changes.
LEMMA ChangeTotal ==
    ASSUME db \in Database, NEW rows \in SUBSET DOMAIN db.txn
    PROVE  Change(rows) = Total(ChangeOf(db), rows) /\ Change(rows) \in Int
  <1> DEFINE R(f) == f = [s \in SUBSET rows |->
                            IF s = {} THEN 0 ELSE db.txn[Pick(s)].change + f[s \ {Pick(s)}]]
             w    == ChangeOf(db)
  <1>1. Change(rows) = (CHOOSE f : R(f))[rows]
    BY DEF Change, MapThenSumSet, MapThenFoldSet, Pick
  <1>2. IsFiniteSet(rows) /\ \A t \in rows : w[t] = db.txn[t].change /\ w[t] \in Int
    BY RowsOfDatabase
  <1> HIDE DEF w
  <1>3. ASSUME NEW f
        PROVE  R(f) <=> Adds(w, rows, f)
    <2>1. \A s \in SUBSET rows : s # {} => Pick(s) \in rows
      BY DEF Pick
    <2>2. \A s \in SUBSET rows : s # {} => w[Pick(s)] = db.txn[Pick(s)].change
      BY <1>2, <2>1
    <2>3. QED BY <2>2 DEF Adds
  <1>4. \E f : R(f)
    BY <1>2, <1>3, AddsExists
  <1> DEFINE g == CHOOSE f : R(f)
  <1>5. R(g)
    BY <1>4
  <1> HIDE DEF R, g
  <1>6. Adds(w, rows, g)
    BY <1>3, <1>5
  <1>7. g[rows] = Total(w, rows) /\ Total(w, rows) \in Int
    BY <1>2, <1>6, AddsTotal, TotalInt
  <1>8. QED BY <1>1, <1>7 DEF g, w

\* What a page sums over accounts is a total too: of debits,
LEMMA DebitsTotal ==
    ASSUME NEW M, IsFiniteSet(M), NEW window, NEW w, \A a \in M : w[a] = Debits(a, Records(a, window))
    PROVE  MapThenSumSet(LAMBDA a : Debits(a, Records(a, window)), M) = Total(w, M)
  <1> DEFINE R(f) == f = [s \in SUBSET M |->
                            IF s = {} THEN 0
                            ELSE Debits(Pick(s), Records(Pick(s), window)) + f[s \ {Pick(s)}]]
  <1>1. MapThenSumSet(LAMBDA a : Debits(a, Records(a, window)), M) = (CHOOSE f : R(f))[M]
    BY DEF MapThenSumSet, MapThenFoldSet, Pick
  <1>2. ASSUME NEW f
        PROVE  R(f) <=> Adds(w, M, f)
    <2>1. \A s \in SUBSET M : s # {} => Pick(s) \in M
      BY DEF Pick
    <2>2. \A s \in SUBSET M : s # {} => w[Pick(s)] = Debits(Pick(s), Records(Pick(s), window))
      BY <2>1
    <2>3. QED BY <2>2 DEF Adds
  <1>3. \E f : R(f)
    BY <1>2, AddsExists
  <1> DEFINE g == CHOOSE f : R(f)
  <1>4. R(g)
    BY <1>3
  <1> HIDE DEF R, g
  <1>5. Adds(w, M, g)
    BY <1>2, <1>4
  <1>6. QED BY <1>1, <1>5, AddsTotal DEF g

\* of credits,
LEMMA CreditsTotal ==
    ASSUME NEW M, IsFiniteSet(M), NEW window, NEW w, \A a \in M : w[a] = Credits(a, Records(a, window))
    PROVE  MapThenSumSet(LAMBDA a : Credits(a, Records(a, window)), M) = Total(w, M)
  <1> DEFINE R(f) == f = [s \in SUBSET M |->
                            IF s = {} THEN 0
                            ELSE Credits(Pick(s), Records(Pick(s), window)) + f[s \ {Pick(s)}]]
  <1>1. MapThenSumSet(LAMBDA a : Credits(a, Records(a, window)), M) = (CHOOSE f : R(f))[M]
    BY DEF MapThenSumSet, MapThenFoldSet, Pick
  <1>2. ASSUME NEW f
        PROVE  R(f) <=> Adds(w, M, f)
    <2>1. \A s \in SUBSET M : s # {} => Pick(s) \in M
      BY DEF Pick
    <2>2. \A s \in SUBSET M : s # {} => w[Pick(s)] = Credits(Pick(s), Records(Pick(s), window))
      BY <2>1
    <2>3. QED BY <2>2 DEF Adds
  <1>3. \E f : R(f)
    BY <1>2, AddsExists
  <1> DEFINE g == CHOOSE f : R(f)
  <1>4. R(g)
    BY <1>3
  <1> HIDE DEF R, g
  <1>5. Adds(w, M, g)
    BY <1>2, <1>4
  <1>6. QED BY <1>1, <1>5, AddsTotal DEF g

\* and of balances.
LEMMA BalanceTotal ==
    ASSUME NEW M, IsFiniteSet(M), NEW w, \A a \in M : w[a] = db.acct[a].balance
    PROVE  MapThenSumSet(LAMBDA a : db.acct[a].balance, M) = Total(w, M)
  <1> DEFINE R(f) == f = [s \in SUBSET M |->
                            IF s = {} THEN 0
                            ELSE db.acct[Pick(s)].balance + f[s \ {Pick(s)}]]
  <1>1. MapThenSumSet(LAMBDA a : db.acct[a].balance, M) = (CHOOSE f : R(f))[M]
    BY DEF MapThenSumSet, MapThenFoldSet, Pick
  <1>2. ASSUME NEW f
        PROVE  R(f) <=> Adds(w, M, f)
    <2>1. \A s \in SUBSET M : s # {} => Pick(s) \in M
      BY DEF Pick
    <2>2. \A s \in SUBSET M : s # {} => w[Pick(s)] = db.acct[Pick(s)].balance
      BY <2>1
    <2>3. QED BY <2>2 DEF Adds
  <1>3. \E f : R(f)
    BY <1>2, AddsExists
  <1> DEFINE g == CHOOSE f : R(f)
  <1>4. R(g)
    BY <1>3
  <1> HIDE DEF R, g
  <1>5. Adds(w, M, g)
    BY <1>2, <1>4
  <1>6. QED BY <1>1, <1>5, AddsTotal DEF g

-----------------------------------------------------------------------------
(* Kinds of rows                                                            *)

\* The other row of a transfer.
Mate(d, t) == IF d.txn[t].change < 0 THEN t + 1 ELSE t - 1

\* The columns of a row have their types.
LEMMA RowColumns ==
    ASSUME NEW d \in Database, NEW t \in DOMAIN d.txn
    PROVE  /\ t \in Nat /\ d.txn[t] \in Transaction
           /\ d.txn[t].amount \in Int /\ d.txn[t].change \in Int
           /\ d.txn[t].account \in Accounts /\ d.txn[t].type \in TransactionTypes
  <1>1. t \in Nat /\ d.txn[t] \in Transaction
    BY DEF Database
  <1>2. QED BY <1>1 DEF Transaction

\* The two rows of a transfer are each other's mates, with the parties and the
\* sign exchanged.
LEMMA MateRow ==
    ASSUME NEW d \in Database, Shaped(d), NEW t \in DOMAIN d.txn, d.txn[t].type = "TRANSFER",
           NEW m, m = Mate(d, t)
    PROVE  /\ m \in DOMAIN d.txn
           /\ Mate(d, m) = t
           /\ d.txn[m].type = "TRANSFER"
           /\ d.txn[m].account = d.txn[t].counterparty
           /\ d.txn[m].counterparty = d.txn[t].account
           /\ d.txn[t].account # d.txn[t].counterparty
           /\ d.txn[m].amount = d.txn[t].amount
           /\ d.txn[m].change = -d.txn[t].change
           /\ d.txn[t].amount > 0
           /\ d.txn[t].change \in {d.txn[t].amount, -d.txn[t].amount}
  <1>1. /\ t \in Int
        /\ d.txn[t].amount \in Int /\ d.txn[t].change \in Int
    BY RowColumns
  <1>2. ~SingleEntry(d.txn[t])
    BY DEF SingleEntry
  <1>3. \/ t + 1 \in DOMAIN d.txn /\ Mated(d.txn[t], d.txn[t + 1])
        \/ t - 1 \in DOMAIN d.txn /\ Mated(d.txn[t - 1], d.txn[t])
    BY <1>2 DEF Shaped
  <1>4. CASE t + 1 \in DOMAIN d.txn /\ Mated(d.txn[t], d.txn[t + 1])
    <2> DEFINE n == t + 1
    <2>1. d.txn[t].amount > 0 /\ d.txn[t].change = -d.txn[t].amount
          /\ d.txn[n].change = d.txn[t].amount
      BY <1>4 DEF Mated
    <2>2. d.txn[t].change < 0 /\ ~(d.txn[n].change < 0)
      BY <1>1, <2>1
    <2>3. m = n
      BY <2>2 DEF Mate
    <2>4. Mate(d, n) = t
      BY <1>1, <2>2 DEF Mate
    <2>5. n \in DOMAIN d.txn /\ Mated(d.txn[t], d.txn[n])
      BY <1>4
    <2> HIDE DEF n
    <2>6. QED BY <1>1, <2>1, <2>3, <2>4, <2>5 DEF Mated
  <1>5. CASE t - 1 \in DOMAIN d.txn /\ Mated(d.txn[t - 1], d.txn[t])
    <2> DEFINE n == t - 1
    <2>1. n \in DOMAIN d.txn /\ Mated(d.txn[n], d.txn[t])
      BY <1>5
    <2>2. n \in Int /\ d.txn[n].amount \in Int /\ d.txn[n].change \in Int
      BY <2>1, RowColumns
    <2>3. /\ d.txn[t].amount > 0 /\ d.txn[t].change = d.txn[t].amount
          /\ d.txn[n].change = -d.txn[t].amount /\ d.txn[n].amount = d.txn[t].amount
      BY <2>1 DEF Mated
    <2>4. d.txn[n].change < 0 /\ ~(d.txn[t].change < 0)
      BY <1>1, <2>3
    <2>5. m = n
      BY <2>4 DEF Mate
    <2>6. Mate(d, n) = t
      BY <1>1, <2>4 DEF Mate
    <2> HIDE DEF n
    <2>7. QED BY <1>1, <2>1, <2>3, <2>5, <2>6 DEF Mated
  <1>6. QED BY <1>3, <1>4, <1>5

\* Rows of other types stand for themselves.
LEMMA SingleRow ==
    ASSUME NEW d \in Database, Shaped(d), NEW t \in DOMAIN d.txn, d.txn[t].type # "TRANSFER"
    PROVE  SingleEntry(d.txn[t])
  BY DEF Shaped, Mated

\* Only rows of transfers name an account as counterparty.
LEMMA PartnersTransfer ==
    ASSUME NEW d \in Database, Shaped(d), NEW t \in DOMAIN d.txn, NEW a \in Accounts,
           d.txn[t].counterparty = a
    PROVE  d.txn[t].type = "TRANSFER" /\ d.txn[t].account # a
  <1>1. a # NoAccount
    BY ConstantsAssumption
  <1>2. d.txn[t].type = "TRANSFER"
    BY <1>1, SingleRow DEF SingleEntry
  <1>3. QED BY <1>2, MateRow

\* Every row has one of the types.
LEMMA RowTypes ==
    ASSUME NEW d \in Database, NEW t \in DOMAIN d.txn
    PROVE  d.txn[t].type \in {"DEPOSIT", "WITHDRAWAL", "TRANSFER", "REVERSAL"}
  BY RowColumns DEF TransactionTypes

\* The two statements classify every row alike.
LEMMA StatementsAlike ==
    ASSUME IInv, ShapeInv, PageInv
    PROVE  StatementsAgree
  <1> SUFFICES ASSUME page # NoPage, NEW w, NEW type, NEW a, a = page.account,
                      NEW rows, rows = ServiceRecords(a, w, type)
               PROVE  /\ \A t \in rows : ServiceIsCredit(t, a) <=> IsCredit(t, a)
                      /\ \/ ServiceOpening(page, rows) = OpeningBalance(page, rows)
                         \/ ServiceOpening(page, rows) = 0 /\ OpeningBalance(page, rows) < 0
    BY DEF StatementsAgree, Windows
  <1>1. /\ db \in Database /\ Shaped(db) /\ a \in Accounts /\ page.balance \in Int
    BY DEF IInv, TypeOK, ShapeInv, PageInv, Page
  <1>2. rows \in SUBSET DOMAIN db.txn
    BY DEF ServiceRecords, Naming
  <1>3. \A t \in rows : ServiceIsCredit(t, a) <=> IsCredit(t, a)
    <2>1. \A t \in rows : db.txn[t].counterparty = a => db.txn[t].type = "TRANSFER"
      BY <1>1, <1>2, PartnersTransfer
    <2>2. QED BY <2>1 DEF ServiceIsCredit, IsCredit
  <1> DEFINE C == {t \in rows : IsCredit(t, a)}
             D == {t \in rows : ~IsCredit(t, a)}
  <1>4. {t \in rows : ServiceIsCredit(t, a)} = C /\ {t \in rows : ~ServiceIsCredit(t, a)} = D
    BY <1>3
  <1>5. /\ ServiceCredits(a, rows) = Amount(C) /\ Credits(a, rows) = Amount(C)
        /\ ServiceDebits(a, rows) = Amount(D) /\ Debits(a, rows) = Amount(D)
    BY <1>4 DEF ServiceCredits, Credits, ServiceDebits, Debits
  <1>6. C \in SUBSET DOMAIN db.txn /\ D \in SUBSET DOMAIN db.txn
    BY <1>2
  <1> HIDE DEF C, D
  <1>7. Amount(C) \in Int /\ Amount(D) \in Int
    BY <1>1, <1>6, AmountTotal
  <1>8. \/ ServiceOpening(page, rows) = OpeningBalance(page, rows)
        \/ ServiceOpening(page, rows) = 0 /\ OpeningBalance(page, rows) < 0
    BY <1>1, <1>5, <1>7 DEF ServiceOpening, OpeningBalance
  <1>9. QED BY <1>3, <1>8

-----------------------------------------------------------------------------
(* The pages agree                                                          *)

\* What the dashboard shows as sent is what the statements show as debits.
LEMMA SentAreDebits ==
    ASSUME IInv, ShapeInv, NEW mine \in SUBSET Accounts, NEW since, Settled(mine, since)
    PROVE  MonthlySent(mine, since) = DebitsShown(mine, since)
  <1>1. db \in Database /\ Shaped(db) /\ IsFiniteSet(mine)
    BY ConstantsAssumption, FS_Subset DEF IInv, TypeOK, ShapeInv
  <1> DEFINE F    == [a \in mine |-> {t \in Records(a, From(since)) : ~IsCredit(t, a)}]
             sums == [a \in mine |-> Debits(a, Records(a, From(since)))]
             w    == AmountOf(db)
             rows == {t \in Recent(mine, since) : /\ db.txn[t].type \in {"WITHDRAWAL", "TRANSFER"}
                                                  /\ db.txn[t].account \in mine}
  <1>0. /\ \A t \in DOMAIN db.txn : t <= Len(db.txn)
        /\ \A t \in DOMAIN db.txn :
              t >= since /\ (db.txn[t].account \in mine \/ db.txn[t].counterparty \in mine) =>
                 db.txn[t].status = "COMPLETED" /\ db.txn[t].type # "REVERSAL"
    BY <1>1 DEF Database, Settled, Naming
  <1>2. ASSUME NEW a \in mine, NEW t
        PROVE  t \in F[a] <=> /\ t \in DOMAIN db.txn /\ t >= since /\ db.txn[t].account = a
                              /\ db.txn[t].type \in {"WITHDRAWAL", "TRANSFER"}
    <2>1. t \in F[a] <=> /\ t \in DOMAIN db.txn /\ t >= since
                         /\ db.txn[t].account = a \/ db.txn[t].counterparty = a
                         /\ ~IsCredit(t, a)
      BY <1>0, FromRecords
    <2>2. ASSUME t \in DOMAIN db.txn, t >= since
          PROVE  /\ db.txn[t].type \in {"DEPOSIT", "WITHDRAWAL", "TRANSFER", "REVERSAL"}
                 /\ db.txn[t].account = a => db.txn[t].type # "REVERSAL"
                 /\ db.txn[t].counterparty = a => db.txn[t].type = "TRANSFER" /\ db.txn[t].account # a
      <3>1. db.txn[t].account = a => db.txn[t].type # "REVERSAL"
        BY <1>0, <2>2
      <3>2. db.txn[t].counterparty = a => db.txn[t].type = "TRANSFER" /\ db.txn[t].account # a
        BY <1>1, <2>2, PartnersTransfer
      <3>3. db.txn[t].type \in {"DEPOSIT", "WITHDRAWAL", "TRANSFER", "REVERSAL"}
        BY <1>1, <2>2, RowTypes
      <3>4. QED BY <3>1, <3>2, <3>3
    <2> HIDE DEF F
    <2>3. QED BY <2>1, <2>2 DEF IsCredit
  <1>3. \A t : t \in rows <=> /\ t \in DOMAIN db.txn /\ t >= since /\ db.txn[t].account \in mine
                              /\ db.txn[t].type \in {"WITHDRAWAL", "TRANSFER"}
    BY <1>0 DEF Recent, Completed, Naming
  <1>4. MonthlySent(mine, since) = Amount(rows)
    BY DEF MonthlySent
  <1>5. \A a \in mine : sums[a] = Amount(F[a])
    BY DEF Debits
  <1>6. DebitsShown(mine, since) = Total(sums, mine)
    <2>1. \A a \in mine : sums[a] = Debits(a, Records(a, From(since)))
      OBVIOUS
    <2> HIDE DEF sums
    <2>2. QED BY <1>1, <2>1, DebitsTotal DEF DebitsShown
  <1> HIDE DEF F, sums, w, rows
  <1>7. rows = UNION {F[a] : a \in mine}
    BY <1>2, <1>3
  <1>8. ASSUME NEW a \in mine
        PROVE  IsFiniteSet(F[a]) /\ sums[a] = Total(w, F[a]) /\ \A t \in F[a] : w[t] \in Int
    <2>1. F[a] \in SUBSET DOMAIN db.txn
      BY <1>2
    <2>2. QED BY <1>1, <1>5, <2>1, AmountTotal, RowsOfDatabase DEF w
  <1>9. \A a, b \in mine : a # b => F[a] \cap F[b] = {}
    BY <1>2
  <1>10. Total(sums, mine) = Total(w, UNION {F[a] : a \in mine})
    BY <1>1, <1>8, <1>9, TotalOfTotals
  <1>11. Amount(rows) = Total(w, rows)
    <2>1. rows \in SUBSET DOMAIN db.txn
      BY <1>3
    <2>2. QED BY <1>1, <2>1, AmountTotal DEF w
  <1>12. QED BY <1>4, <1>6, <1>7, <1>10, <1>11

\* What the dashboard shows as received is what the statements show as credits.
LEMMA ReceivedAreCredits ==
    ASSUME IInv, ShapeInv, NEW mine \in SUBSET Accounts, NEW since, Settled(mine, since)
    PROVE  MonthlyReceived(mine, since) = CreditsShown(mine, since)
  <1>1. db \in Database /\ Shaped(db) /\ IsFiniteSet(mine)
    BY ConstantsAssumption, FS_Subset DEF IInv, TypeOK, ShapeInv
  <1> DEFINE F    == [a \in mine |-> {t \in Records(a, From(since)) : IsCredit(t, a)}]
             sums == [a \in mine |-> Credits(a, Records(a, From(since)))]
             w    == AmountOf(db)
             rows == {t \in Recent(mine, since) :
                        \/ db.txn[t].type = "DEPOSIT"
                        \/ db.txn[t].type = "TRANSFER" /\ db.txn[t].counterparty \in mine}
  <1>2. /\ \A t \in DOMAIN db.txn : t <= Len(db.txn)
        /\ \A t \in DOMAIN db.txn : \A a \in mine :
              db.txn[t].counterparty = a => db.txn[t].type = "TRANSFER"
        /\ \A t \in DOMAIN db.txn :
              t >= since /\ (db.txn[t].account \in mine \/ db.txn[t].counterparty \in mine) =>
                 db.txn[t].status = "COMPLETED"
    <2>1. \A t \in DOMAIN db.txn : \A a \in mine :
             db.txn[t].counterparty = a => db.txn[t].type = "TRANSFER"
      BY <1>1, PartnersTransfer
    <2>2. QED BY <1>1, <2>1 DEF Database, Settled, Naming
  <1>3. ASSUME NEW a \in mine, NEW t
        PROVE  t \in F[a] <=> /\ t \in DOMAIN db.txn /\ t >= since
                              /\ \/ db.txn[t].type = "DEPOSIT" /\ db.txn[t].account = a
                                 \/ db.txn[t].type = "TRANSFER" /\ db.txn[t].counterparty = a
    <2>1. t \in F[a] <=> /\ t \in DOMAIN db.txn /\ t >= since
                         /\ db.txn[t].account = a \/ db.txn[t].counterparty = a
                         /\ IsCredit(t, a)
      BY <1>2, FromRecords
    <2> HIDE DEF F
    <2>2. QED BY <1>2, <2>1 DEF IsCredit
  <1>4. \A t : t \in rows <=> /\ t \in DOMAIN db.txn /\ t >= since
                              /\ \/ db.txn[t].type = "DEPOSIT" /\ db.txn[t].account \in mine
                                 \/ db.txn[t].type = "TRANSFER" /\ db.txn[t].counterparty \in mine
    BY <1>2 DEF Recent, Completed, Naming
  <1>6. MonthlyReceived(mine, since) = Amount(rows)
    BY DEF MonthlyReceived
  <1>7. \A a \in mine : sums[a] = Amount(F[a])
    BY DEF Credits
  <1>8. CreditsShown(mine, since) = Total(sums, mine)
    <2>1. \A a \in mine : sums[a] = Credits(a, Records(a, From(since)))
      OBVIOUS
    <2> HIDE DEF sums
    <2>2. QED BY <1>1, <2>1, CreditsTotal DEF CreditsShown
  <1> HIDE DEF F, sums, w, rows
  <1>9. rows = UNION {F[a] : a \in mine}
    BY <1>3, <1>4
  <1>10. ASSUME NEW a \in mine
         PROVE  IsFiniteSet(F[a]) /\ sums[a] = Total(w, F[a]) /\ \A t \in F[a] : w[t] \in Int
    <2>1. F[a] \in SUBSET DOMAIN db.txn
      BY <1>3
    <2>2. QED BY <1>1, <1>7, <2>1, AmountTotal, RowsOfDatabase DEF w
  <1>11. \A a, b \in mine : a # b => F[a] \cap F[b] = {}
    BY <1>3
  <1>12. Total(sums, mine) = Total(w, UNION {F[a] : a \in mine})
    BY <1>1, <1>10, <1>11, TotalOfTotals
  <1>13. Amount(rows) = Total(w, rows)
    <2>1. rows \in SUBSET DOMAIN db.txn
      BY <1>4
    <2>2. QED BY <1>1, <2>1, AmountTotal DEF w
  <1>14. QED BY <1>6, <1>8, <1>9, <1>12, <1>13

\* The mates of some transfers, the rows of others, are as many and opposite.
LEMMA MatesOpposite ==
    ASSUME db \in Database, Shaped(db), NEW mine \in SUBSET Accounts, NEW abroad, NEW partner,
           \A t : t \in abroad <=> /\ t \in DOMAIN db.txn /\ db.txn[t].account \in mine
                                  /\ db.txn[t].type = "TRANSFER"
                                  /\ db.txn[t].counterparty \notin mine,
           \A t : t \in partner <=> /\ t \in DOMAIN db.txn /\ db.txn[t].account \notin mine
                                   /\ db.txn[t].counterparty \in mine
    PROVE  /\ Cardinality(partner) = Cardinality(abroad)
           /\ Change(partner) = -Change(abroad)
  <1>1. db \in Database /\ Shaped(db)
    OBVIOUS
  <1>2. \A t : t \in abroad <=> /\ t \in DOMAIN db.txn /\ db.txn[t].account \in mine
                                /\ db.txn[t].type = "TRANSFER"
                                /\ db.txn[t].counterparty \notin mine
    OBVIOUS
  <1>3. \A t : t \in partner <=> /\ t \in DOMAIN db.txn /\ db.txn[t].account \notin mine
                                 /\ db.txn[t].counterparty \in mine
    OBVIOUS
  <1>4. \A t \in partner : db.txn[t].type = "TRANSFER"
    BY <1>1, <1>3, PartnersTransfer
  <1> DEFINE f == [t \in abroad |-> Mate(db, t)]
             u == ChangeOf(db)
             w == [t \in abroad |-> -u[t]]
  <1>5. ASSUME NEW t \in abroad
        PROVE  /\ f[t] \in partner /\ Mate(db, f[t]) = t
               /\ u[f[t]] = w[t] /\ w[t] = -u[t] /\ u[t] \in Int /\ w[t] \in Int
    <2> DEFINE m == Mate(db, t)
    <2>1. t \in DOMAIN db.txn /\ db.txn[t].type = "TRANSFER"
      BY <1>2
    <2>2. /\ m \in DOMAIN db.txn /\ Mate(db, m) = t
          /\ db.txn[m].account = db.txn[t].counterparty
          /\ db.txn[m].counterparty = db.txn[t].account
          /\ db.txn[m].change = -db.txn[t].change
      BY <1>1, <2>1, MateRow
    <2>3. f[t] = m
      OBVIOUS
    <2> HIDE DEF m
    <2>4. m \in partner
      BY <1>2, <1>3, <2>2
    <2>5. u[t] = db.txn[t].change /\ u[m] = db.txn[m].change /\ db.txn[t].change \in Int
      BY <1>1, <2>1, <2>2, RowColumns DEF ChangeOf
    <2>6. w[t] = -u[t]
      OBVIOUS
    <2> HIDE DEF f, u, w
    <2>7. QED BY <2>2, <2>3, <2>4, <2>5, <2>6
  <1>6. ASSUME NEW k \in partner
        PROVE  \E t \in abroad : f[t] = k
    <2> DEFINE m == Mate(db, k)
    <2>1. k \in DOMAIN db.txn /\ db.txn[k].type = "TRANSFER"
      BY <1>3, <1>4
    <2>2. /\ m \in DOMAIN db.txn /\ Mate(db, m) = k /\ db.txn[m].type = "TRANSFER"
          /\ db.txn[m].account = db.txn[k].counterparty
          /\ db.txn[m].counterparty = db.txn[k].account
      BY <1>1, <2>1, MateRow
    <2> HIDE DEF m
    <2>3. m \in abroad
      BY <1>2, <1>3, <2>2
    <2>4. f[m] = k
      BY <2>2, <2>3
    <2>5. QED BY <2>3, <2>4
  <1>7. abroad \in SUBSET DOMAIN db.txn /\ partner \in SUBSET DOMAIN db.txn
    BY <1>2, <1>3
  <1>8. IsFiniteSet(abroad) /\ IsFiniteSet(partner)
    BY <1>1, <1>7, RowsOfDatabase
  <1>9. Change(partner) = Total(u, partner) /\ Change(abroad) = Total(u, abroad)
    BY <1>1, <1>7, ChangeTotal
  <1>0. f \in [abroad -> partner]
    BY <1>5
  <1> HIDE DEF f, u, w
  <1>10. \A x, y \in abroad : f[x] = f[y] => x = y
    BY <1>5
  <1>11. \A x \in abroad : w[x] \in Int /\ u[f[x]] = w[x]
    BY <1>5
  <1>12. \A k \in partner : \E t \in abroad : f[t] = k
    BY <1>6
  <1>13. Cardinality(partner) = Cardinality(abroad) /\ Total(u, partner) = Total(w, abroad)
    <2>1. SameTerms(f, w, abroad, u, partner)
      BY <1>0, <1>10, <1>11, <1>12 DEF SameTerms
    <2>2. QED BY <1>8, <2>1, TotalMapped
  <1>14. Total(w, abroad) = -Total(u, abroad)
    BY <1>5, <1>8, TotalOpposite
  <1>15. QED BY <1>9, <1>13, <1>14

\* The export adds to the own rows the mates of the transfers with somebody else.
LEMMA PartnersExported ==
    ASSUME IInv, ShapeInv, NEW mine \in SUBSET Accounts
    PROVE  /\ Cardinality(Export(mine) \ RowsOn(mine)) = Cardinality(Abroad(mine))
           /\ Change(Export(mine) \ RowsOn(mine)) = -Change(Abroad(mine))
  <1> DEFINE abroad  == Abroad(mine)
             partner == Export(mine) \ RowsOn(mine)
  <1>1. db \in Database /\ Shaped(db)
    BY DEF IInv, TypeOK, ShapeInv
  <1>2. \A t : t \in abroad <=> /\ t \in DOMAIN db.txn /\ db.txn[t].account \in mine
                                /\ db.txn[t].type = "TRANSFER"
                                /\ db.txn[t].counterparty \notin mine
    BY DEF Abroad, RowsOn
  <1>3. \A t : t \in partner <=> /\ t \in DOMAIN db.txn /\ db.txn[t].account \notin mine
                                 /\ db.txn[t].counterparty \in mine
    BY DEF Export, RowsOn, Naming
  <1> HIDE DEF abroad, partner
  <1>4. Cardinality(partner) = Cardinality(abroad) /\ Change(partner) = -Change(abroad)
    <2> PICK A, P : A = abroad /\ P = partner
      OBVIOUS
    <2>1. /\ \A t : t \in A <=> /\ t \in DOMAIN db.txn /\ db.txn[t].account \in mine
                               /\ db.txn[t].type = "TRANSFER"
                               /\ db.txn[t].counterparty \notin mine
          /\ \A t : t \in P <=> /\ t \in DOMAIN db.txn /\ db.txn[t].account \notin mine
                               /\ db.txn[t].counterparty \in mine
      BY <1>2, <1>3
    <2>2. Cardinality(P) = Cardinality(A) /\ Change(P) = -Change(A)
      BY <1>1, <2>1, MatesOpposite
    <2>3. QED BY <2>2
  <1>5. QED BY <1>4 DEF abroad, partner

-----------------------------------------------------------------------------
(* The newest rows                                                          *)

\* The elements of a finite set above a number are finitely many.
LEMMA AboveFinite ==
    ASSUME NEW S, IsFiniteSet(S), NEW t
    PROVE  /\ IsFiniteSet({k \in S : k > t})
           /\ Cardinality({k \in S : k > t}) \in Nat
  <1> DEFINE above == {k \in S : k > t}
  <1>1. above \in SUBSET S
    OBVIOUS
  <1> HIDE DEF above
  <1>2. IsFiniteSet(above)
    BY <1>1, FS_Subset
  <1>3. Cardinality(above) \in Nat
    BY <1>2, FS_CardinalityType
  <1>4. QED BY <1>2, <1>3 DEF above

\* What is among the newest of a set is among the newest of a part of it.
LEMMA NewestNested ==
    ASSUME NEW S, IsFiniteSet(S), NEW R \in SUBSET S, NEW n \in Nat, NEW t \in R, t \in Newest(S, n)
    PROVE  t \in Newest(R, n)
  <1> DEFINE all  == {k \in S : k > t}
             part == {k \in R : k > t}
  <1>1. IsFiniteSet(all) /\ Cardinality(all) \in Nat
    BY AboveFinite
  <1>2. part \in SUBSET all
    OBVIOUS
  <1>3. Cardinality(all) < n
    BY DEF Newest
  <1> HIDE DEF all, part
  <1>4. Cardinality(part) <= Cardinality(all) /\ Cardinality(part) \in Nat
    <2>1. IsFiniteSet(part) /\ Cardinality(part) <= Cardinality(all)
      BY <1>1, <1>2, FS_Subset
    <2>2. QED BY <2>1, FS_CardinalityType
  <1>5. Cardinality(part) < n
    BY <1>1, <1>3, <1>4
  <1>6. QED BY <1>5 DEF part, Newest

\* What is left out is older than everything that is not.
LEMMA NewestAreNewer ==
    ASSUME NEW S \in SUBSET Nat, IsFiniteSet(S), NEW n \in Nat,
           NEW t \in S, t \notin Newest(S, n), NEW k \in Newest(S, n)
    PROVE  t < k
  <1> SUFFICES ASSUME ~(t < k) PROVE FALSE
    OBVIOUS
  <1> DEFINE aboveT == {j \in S : j > t}
             aboveK == {j \in S : j > k}
  <1>1. k \in S /\ k \in Nat /\ t \in Nat /\ k <= t
    BY DEF Newest
  <1>2. aboveT \in SUBSET aboveK
    <2>1. \A j \in S : j \in Nat /\ (j > t => j > k)
      BY <1>1
    <2>2. QED BY <2>1
  <1>3. /\ IsFiniteSet(aboveK) /\ Cardinality(aboveK) \in Nat
        /\ IsFiniteSet(aboveT) /\ Cardinality(aboveT) \in Nat
    BY AboveFinite
  <1>4. Cardinality(aboveK) < n /\ ~(Cardinality(aboveT) < n)
    BY DEF Newest
  <1> HIDE DEF aboveT, aboveK
  <1>5. Cardinality(aboveT) <= Cardinality(aboveK)
    BY <1>2, <1>3, FS_Subset
  <1>6. QED BY <1>3, <1>4, <1>5

\* A set of natural numbers has a smallest.
LEMMA Smallest ==
    ASSUME NEW P \in SUBSET Nat, P # {}
    PROVE  \E m \in P : \A k \in P : m <= k
  <1>1. PICK m \in P : \A k \in P : ~(<<k, m>> \in OpToRel(<, Nat))
    <2>1. IsWellFoundedOn(OpToRel(<, Nat), Nat)
      BY NatLessThanWellFounded
    <2>2. QED BY <2>1, WFMin
  <1>2. \A k \in P : m <= k
    <2>1. \A k \in P : k \in Nat /\ m \in Nat /\ ~(k < m)
      BY <1>1 DEF OpToRel
    <2>2. QED BY <2>1
  <1>3. QED BY <1>2

\* If anything is left out, there are as many as asked for.
LEMMA NewestFull ==
    ASSUME NEW N \in Nat, NEW S \in SUBSET (1 .. N), NEW n \in Nat, Newest(S, n) # S
    PROVE  Cardinality(Newest(S, n)) = n
  <1> DEFINE T == Newest(S, n)
             U == S \ T
  <1>1. S \in SUBSET Nat /\ IsFiniteSet(S)
    <2>1. IsFiniteSet(1 .. N)
      BY FS_Interval
    <2>2. IsFiniteSet(S)
      BY <2>1, FS_Subset
    <2>3. S \in SUBSET Nat
      OBVIOUS
    <2>4. QED BY <2>2, <2>3
  <1>2. /\ \A t : t \in T <=> t \in S /\ Cardinality({k \in S : k > t}) < n
        /\ U # {} /\ U \in SUBSET (1 .. N) /\ \A t : t \in U <=> t \in S /\ t \notin T
    BY DEF Newest
  <1>3. \A t \in U, k \in T : t < k
    BY <1>1, <1>2, NewestAreNewer
  <1> HIDE DEF T, U
  <1>4. IsFiniteSet(T) /\ Cardinality(T) \in Nat /\ T \in SUBSET Nat
    <2>1. T \in SUBSET S
      BY <1>2
    <2>2. IsFiniteSet(T)
      BY <1>1, <2>1, FS_Subset
    <2>3. QED BY <1>1, <2>1, <2>2, FS_CardinalityType
  <1>5. Cardinality(T) >= n
    <2>1. PICK m \in U : \A k \in U : k <= m
      BY <1>2, Greatest
    <2>2. {k \in S : k > m} = T
      <3>1. \A k \in S : k \in Nat /\ m \in Nat
        BY <1>1, <1>2
      <3>2. \A k \in S : k > m <=> k \in T
        BY <1>2, <1>3, <2>1, <3>1
      <3>3. QED BY <1>2, <3>2
    <2>3. ~(Cardinality(T) < n)
      BY <1>2, <2>1, <2>2
    <2>4. QED BY <1>4, <2>3
  <1>6. Cardinality(T) <= n
    <2>1. CASE T = {}
      <3>1. Cardinality(T) = 0
        BY <2>1, FS_EmptySet
      <3>2. QED BY <3>1
    <2>2. CASE T # {}
      <3>1. PICK p \in T : \A k \in T : p <= k
        BY <1>4, <2>2, Smallest
      <3> DEFINE V == T \ {p}
      <3>2. {k \in S : k > p} = V
        <4>1. \A k \in S : k \in Nat /\ p \in Nat
          BY <1>1, <1>4
        <4>2. \A k \in S : k > p => k \in T
          BY <1>2, <1>3, <4>1
        <4>3. ASSUME NEW k \in T PROVE k > p <=> k # p
          <5>1. k \in Nat /\ p \in Nat /\ p <= k
            BY <1>4, <3>1
          <5>2. QED BY <5>1
        <4>4. QED BY <1>2, <4>2, <4>3
      <3>3. Cardinality(V) < n
        BY <1>2, <3>1, <3>2
      <3>4. Cardinality(V) = Cardinality(T) - 1
        BY <1>4, <3>1, FS_RemoveElement
      <3> HIDE DEF V
      <3>5. QED BY <1>4, <3>3, <3>4
    <2>3. QED BY <2>1, <2>2
  <1>7. QED BY <1>4, <1>5, <1>6 DEF T

\* The rows of some accounts, by row number.
LEMMA RowsNumbered ==
    ASSUME IInv, NEW accounts, NEW rows \in SUBSET RowsOn(accounts)
    PROVE  /\ Len(db.txn) \in Nat /\ rows \in SUBSET (1 .. Len(db.txn)) /\ rows \in SUBSET Nat
           /\ IsFiniteSet(rows)
  <1>1. db \in Database
    BY DEF IInv, TypeOK
  <1>2. Len(db.txn) \in Nat /\ DOMAIN db.txn = 1 .. Len(db.txn)
    BY <1>1 DEF Database
  <1>3. rows \in SUBSET DOMAIN db.txn
    BY DEF RowsOn
  <1>4. QED BY <1>1, <1>2, <1>3, RowsOfDatabase

\* The listing of the own rows, and what the export has besides.
LEMMA OlderLeftOut ==
    ASSUME IInv, NEW mine
    PROVE  LET listed == Listing(mine, "ALL")
               older  == Export(mine) \ (listed \cup (Export(mine) \ RowsOn(mine)))
           IN  /\ listed \subseteq Export(mine)
               /\ \A t \in older, k \in listed : t < k
               /\ older # {} => Cardinality(listed) = ListLimit
  <1> DEFINE listed == Listing(mine, "ALL")
             older  == Export(mine) \ (listed \cup (Export(mine) \ RowsOn(mine)))
             rows   == RowsOn(mine)
  <1>1. /\ Len(db.txn) \in Nat /\ rows \in SUBSET (1 .. Len(db.txn)) /\ rows \in SUBSET Nat
        /\ IsFiniteSet(rows)
    BY RowsNumbered
  <1>2. listed = Newest(rows, ListLimit) /\ ListLimit \in Nat
    BY FiltersAssumption DEF Listing
  <1>3. rows \subseteq Export(mine)
    BY DEF Export, RowsOn, Naming
  <1> HIDE DEF rows
  <1>4. listed \subseteq rows
    BY <1>2 DEF Newest
  <1>5. \A t \in older : t \in rows /\ t \notin listed
    BY DEF rows
  <1> HIDE DEF listed, older
  <1>6. \A t \in older, k \in listed : t < k
    BY <1>1, <1>2, <1>5, NewestAreNewer
  <1>7. older # {} => Cardinality(listed) = ListLimit
    <2>1. older # {} => listed # rows
      BY <1>5
    <2>2. QED BY <1>1, <1>2, <2>1, NewestFull
  <1>8. QED BY <1>3, <1>4, <1>6, <1>7 DEF listed, older

\* The listings of a user.
LEMMA ListingsInside ==
    ASSUME IInv, NEW mine, NEW type, type # "ALL", NEW rows, rows = OfType(RowsOn(mine), type),
           NEW some, some = Listing(mine, type)
    PROVE  /\ OfType(Listing(mine, "ALL"), type) \subseteq some
           /\ \A a \in mine : RowsOn({a}) \cap some \subseteq Listing({a}, type)
           /\ some # rows => Cardinality(some) = ListLimit
  <1>1. rows \in SUBSET RowsOn(mine)
    BY DEF OfType
  <1>2. /\ Len(db.txn) \in Nat /\ rows \in SUBSET (1 .. Len(db.txn)) /\ IsFiniteSet(rows)
        /\ IsFiniteSet(RowsOn(mine))
    BY <1>1, RowsNumbered
  <1>3. some = Newest(rows, ListLimit) /\ ListLimit \in Nat
    BY FiltersAssumption DEF Listing
  <1>4. OfType(Listing(mine, "ALL"), type) \subseteq some
    <2> SUFFICES ASSUME NEW t \in OfType(Listing(mine, "ALL"), type)
                 PROVE  t \in some
      OBVIOUS
    <2>1. t \in Newest(RowsOn(mine), ListLimit) /\ db.txn[t].type = type
      BY DEF OfType, Listing
    <2>2. t \in rows
      BY <2>1 DEF OfType, Newest
    <2>3. QED BY <1>1, <1>2, <1>3, <2>1, <2>2, NewestNested
  <1>5. ASSUME NEW a \in mine, NEW t \in RowsOn({a}) \cap some
        PROVE  t \in Listing({a}, type)
    <2> DEFINE part == OfType(RowsOn({a}), type)
    <2>1. part \in SUBSET rows
      BY DEF OfType, RowsOn
    <2>2. t \in part
      BY <1>3 DEF OfType, Newest
    <2>3. Listing({a}, type) = Newest(part, ListLimit)
      BY DEF Listing
    <2> HIDE DEF part
    <2>4. t \in Newest(part, ListLimit)
      BY <1>2, <1>3, <2>1, <2>2, NewestNested
    <2>5. QED BY <2>3, <2>4
  <1>6. some # rows => Cardinality(some) = ListLimit
    BY <1>2, <1>3, NewestFull
  <1>7. QED BY <1>4, <1>5, <1>6

\* The pages agree on the rows they show, for any number of requests that
\* commit while they are computed and whatever dates, kinds and types are asked
\* for: the two statements with each other, the dashboard with the statements
\* over the same days, the export with the listings up to their limit
\* (_calculate_statement_data, generate_statement_data, dashboard,
\* download_transactions_csv, list_transactions).
THEOREM PagesConsistent == StatementSpec => []PagesAgree
  <1>1. ASSUME IInv, ShapeInv, PageInv
        PROVE  PagesAgree
    <2>1. \A u \in Users : OwnedBy(u) \in SUBSET Accounts
      BY <1>1 DEF IInv, TypeOK, Database, OwnedBy
    <2>2. StatementsAgree
      BY <1>1, StatementsAlike
    <2>3. DashboardAgrees
      BY <1>1, <2>1, SentAreDebits, ReceivedAreCredits DEF DashboardAgrees
    <2>4. ExportAddsPartnerRows
      BY <1>1, <2>1, OlderLeftOut, PartnersExported DEF ExportAddsPartnerRows
    <2>5. ListingsNest
      <3>1. \A type \in TransactionTypes : type # "ALL"
        BY DEF TransactionTypes
      <3>2. QED BY <1>1, <3>1, ListingsInside DEF ListingsNest
    <2>6. QED BY <2>2, <2>3, <2>4, <2>5 DEF PagesAgree
  <1>2. QED BY <1>1, StatementInvariant, PTL

-----------------------------------------------------------------------------
(* With one request at a time the rows of an account sum to its balance     *)

\* The balance of an account is the sum of the changes of its rows.
Balanced(d) == \A a \in Accounts : d.acct[a].balance = Total(ChangeOf(d), RowsOf(d, a))

\* The sum over the rows of an account after some were added.
LEMMA SumGrown ==
    ASSUME NEW d \in Database, NEW e \in Database,
           \A t \in DOMAIN d.txn : /\ t \in DOMAIN e.txn
                                   /\ e.txn[t].account = d.txn[t].account
                                   /\ e.txn[t].change = d.txn[t].change,
           NEW a
    PROVE  Total(ChangeOf(e), RowsOf(e, a))
             = Total(ChangeOf(d), RowsOf(d, a)) + Total(ChangeOf(e), RowsOf(e, a) \ DOMAIN d.txn)
  <1> DEFINE old  == RowsOf(d, a)
             rows == RowsOf(e, a)
             own  == rows \ DOMAIN d.txn
             both == old \cup own
             u    == ChangeOf(d)
             w    == ChangeOf(e)
  <1>1. rows = both /\ old \cap own = {}
    BY DEF RowsOf
  <1>2. /\ old \in SUBSET DOMAIN d.txn /\ old \in SUBSET DOMAIN e.txn
        /\ own \in SUBSET DOMAIN e.txn /\ both \in SUBSET DOMAIN e.txn
    BY DEF RowsOf
  <1>3. \A t \in old : w[t] = u[t]
    BY <1>2 DEF ChangeOf
  <1> HIDE DEF old, both, rows, own, u, w
  <1>4. /\ IsFiniteSet(old) /\ \A t \in old : u[t] \in Int
        /\ IsFiniteSet(own) /\ \A t \in both : w[t] \in Int
    BY <1>2, RowsOfDatabase DEF u, w
  <1>5. Total(w, old) = Total(u, old)
    BY <1>3, <1>4, TotalSame
  <1>6. Total(w, both) = Total(w, old) + Total(w, own)
    <2>1. \A t \in old \cup own : w[t] \in Int
      BY <1>4 DEF both
    <2>2. Total(w, old \cup own) = Total(w, old) + Total(w, own)
      BY <1>1, <1>4, <2>1, TotalUnion
    <2>3. QED BY <2>2 DEF both
  <1>7. Total(w, rows) = Total(u, old) + Total(w, own)
    BY <1>1, <1>5, <1>6
  <1>8. QED BY <1>7 DEF old, rows, own, u, w

\* A sum of one term, and of none.
LEMMA TotalSingle ==
    ASSUME NEW w, NEW y, w[y] \in Int
    PROVE  Total(w, {y}) = w[y] /\ Total(w, {}) = 0
  <1>1. IsFiniteSet({}) /\ Total(w, {}) = 0
    BY FS_EmptySet, TotalPicked
  <1> DEFINE E == {}
             S == E \cup {y}
  <1>2. S = {y}
    OBVIOUS
  <1>3. IsFiniteSet(E) /\ y \notin E /\ \A x \in E : w[x] \in Int
    BY <1>1
  <1> HIDE DEF E
  <1>4. Total(w, E \cup {y}) = Total(w, E) + w[y]
    BY <1>3, TotalWith
  <1>5. QED BY <1>1, <1>2, <1>4 DEF E

\* The rows behind one more line of the journal.
LEMMA LineAppended ==
    ASSUME NEW d \in Database, NEW e \in Database, NEW b, NEW f, NEW x, NEW c,
           Journal(e) = Append(Journal(d), L!Line(b, f, x, c)), NEW n, n = Len(d.txn) + 1
    PROVE  /\ DOMAIN e.txn = DOMAIN d.txn \cup {n} /\ n \notin DOMAIN d.txn
           /\ \A t \in DOMAIN d.txn : /\ e.txn[t].account = d.txn[t].account
                                      /\ e.txn[t].change = d.txn[t].change
           /\ e.txn[n].account = b /\ e.txn[n].change = x
  <1> DEFINE E == [account : Accounts, kind : Kinds, change : Int, corrects : Nat]
             l == L!Line(b, f, x, c)
  <1>1. /\ Journal(d) \in Seq(E) /\ Len(Journal(d)) = Len(d.txn) /\ DOMAIN Journal(d) = DOMAIN d.txn
        /\ Journal(e) \in Seq(E) /\ DOMAIN Journal(e) = DOMAIN e.txn
        /\ \A t \in DOMAIN d.txn :
              Journal(d)[t] = LineOf(d.txn[t])
        /\ \A t \in DOMAIN e.txn :
              Journal(e)[t] = LineOf(e.txn[t])
    BY JournalType
  <1>2. Len(d.txn) \in Nat /\ DOMAIN d.txn = 1 .. Len(d.txn)
    BY DEF Database
  <1>3. Journal(e) = Append(Journal(d), l)
    OBVIOUS
  <1> HIDE DEF E, l
  <1>4. /\ DOMAIN Journal(e) = DOMAIN Journal(d) \cup {n}
        /\ \A t \in DOMAIN Journal(d) : Journal(e)[t] = Journal(d)[t]
        /\ Journal(e)[n] = l
    BY <1>1, <1>2, <1>3
  <1>5. DOMAIN e.txn = DOMAIN d.txn \cup {n} /\ n \notin DOMAIN d.txn /\ n \in DOMAIN e.txn
    BY <1>1, <1>2, <1>4
  <1>6. ASSUME NEW t \in DOMAIN d.txn
        PROVE  e.txn[t].account = d.txn[t].account /\ e.txn[t].change = d.txn[t].change
    <2>1. LineOf(e.txn[t]) = LineOf(d.txn[t])
      BY <1>1, <1>4, <1>5
    <2>2. QED BY <2>1 DEF LineOf, L!Line
  <1>7. e.txn[n].account = b /\ e.txn[n].change = x
    <2>1. LineOf(e.txn[n]) = L!Line(b, f, x, c)
      BY <1>1, <1>4, <1>5 DEF l
    <2>2. QED BY <2>1 DEF LineOf, L!Line
  <1>8. QED BY <1>5, <1>6, <1>7

\* A sequence with two more elements.
LEMMA TwoAppended ==
    ASSUME NEW E, NEW j \in Seq(E), NEW l \in E, NEW k \in E
    PROVE  /\ Len(j \o <<l, k>>) = Len(j) + 2
           /\ DOMAIN (j \o <<l, k>>) = 1 .. Len(j) + 2
           /\ \A t \in 1 .. Len(j) : (j \o <<l, k>>)[t] = j[t]
           /\ (j \o <<l, k>>)[Len(j) + 1] = l
           /\ (j \o <<l, k>>)[Len(j) + 2] = k
  OBVIOUS

\* An interval with two more numbers.
LEMMA TwoMore ==
    ASSUME NEW z \in Nat
    PROVE  /\ 1 .. z + 2 = 1 .. z \cup {z + 1, z + 2}
           /\ z + 1 \notin 1 .. z /\ z + 2 \notin 1 .. z
  OBVIOUS

\* Image e has two more rows, n and m, which carry x from s to c.
Carried(d, e, s, c, x, n, m) ==
    /\ s # c /\ DOMAIN e.txn = DOMAIN d.txn \cup {n, m}
    /\ n # m /\ n \notin DOMAIN d.txn /\ m \notin DOMAIN d.txn
    /\ \A t \in DOMAIN d.txn : /\ e.txn[t].account = d.txn[t].account
                               /\ e.txn[t].change = d.txn[t].change
    /\ e.txn[n].account = s /\ e.txn[n].change = -x
    /\ e.txn[m].account = c /\ e.txn[m].change = x
    /\ e.acct[s].balance = d.acct[s].balance - x
    /\ e.acct[c].balance = d.acct[c].balance + x
    /\ \A a \in Accounts : a # s /\ a # c => e.acct[a].balance = d.acct[a].balance

\* The rows behind the two lines of a transfer.
LEMMA LinesPosted ==
    ASSUME NEW d \in Database, NEW e \in Database, MovedBetween(d, e)
    PROVE  \E s, c \in Accounts, x \in Int : \E n, m : Carried(d, e, s, c, x, n, m)
  <1>1. PICK s, c \in Accounts, x \in Int :
             /\ s # c
             /\ Balance(e) = [Balance(d) EXCEPT ![s] = @ - x, ![c] = @ + x]
             /\ Journal(e) = Journal(d) \o <<L!Line(s, "move", -x, 0), L!Line(c, "move", x, 0)>>
    BY DEF MovedBetween
  <1> DEFINE E == [account : Accounts, kind : Kinds, change : Int, corrects : Nat]
             l == L!Line(s, "move", -x, 0)
             k == L!Line(c, "move", x, 0)
             z == Len(d.txn)
             j == Journal(d)
             i == Journal(e)
  <1>2. /\ j \in Seq(E) /\ Len(j) = z /\ DOMAIN j = DOMAIN d.txn
        /\ i \in Seq(E) /\ DOMAIN i = DOMAIN e.txn
        /\ \A t \in DOMAIN d.txn :
              j[t] = LineOf(d.txn[t])
        /\ \A t \in DOMAIN e.txn :
              i[t] = LineOf(e.txn[t])
    BY JournalType
  <1>3. l \in E /\ k \in E /\ l.account = s /\ l.change = -x /\ k.account = c /\ k.change = x
    BY DEF Kinds, L!Line
  <1>4. i = j \o <<l, k>>
    BY <1>1
  <1>5. z \in Nat /\ DOMAIN d.txn = 1 .. z
    BY DEF Database
  <1>6. \A a \in Accounts :
           /\ a = s => e.acct[a].balance = d.acct[a].balance - x
           /\ a = c => e.acct[a].balance = d.acct[a].balance + x
           /\ a # s /\ a # c => e.acct[a].balance = d.acct[a].balance
    <2>1. \A a \in Accounts :
             /\ a = s => Balance(e)[a] = Balance(d)[a] - x
             /\ a = c => Balance(e)[a] = Balance(d)[a] + x
             /\ a # s /\ a # c => Balance(e)[a] = Balance(d)[a]
      BY <1>1 DEF Balance
    <2>2. \A a \in Accounts : Balance(e)[a] = e.acct[a].balance /\ Balance(d)[a] = d.acct[a].balance
      BY DEF Balance
    <2>3. QED BY <2>1, <2>2
  <1> HIDE DEF E, l, k, z, j, i
  <1>7. /\ DOMAIN (j \o <<l, k>>) = 1 .. z + 2
        /\ \A t \in 1 .. z : (j \o <<l, k>>)[t] = j[t]
        /\ (j \o <<l, k>>)[z + 1] = l /\ (j \o <<l, k>>)[z + 2] = k
    BY <1>2, <1>3, TwoAppended
  <1> DEFINE n == z + 1
             m == z + 2
  <1>8. /\ DOMAIN i = 1 .. z + 2
        /\ \A t \in 1 .. z : i[t] = j[t]
        /\ i[n] = l /\ i[m] = k
    BY <1>4, <1>7
  <1>9. n # m /\ 1 .. z + 2 = 1 .. z \cup {n, m} /\ n \notin 1 .. z /\ m \notin 1 .. z
    BY <1>5, TwoMore
  <1> HIDE DEF n, m
  <1>10. DOMAIN e.txn = DOMAIN d.txn \cup {n, m} /\ n \notin DOMAIN d.txn /\ m \notin DOMAIN d.txn
    BY <1>2, <1>5, <1>8, <1>9
  <1>11. ASSUME NEW t \in DOMAIN d.txn
         PROVE  e.txn[t].account = d.txn[t].account /\ e.txn[t].change = d.txn[t].change
    <2>1. LineOf(e.txn[t]) = LineOf(d.txn[t])
      BY <1>2, <1>5, <1>8, <1>10
    <2>2. QED BY <2>1 DEF LineOf, L!Line
  <1>12. /\ l = LineOf(e.txn[n])
         /\ k = LineOf(e.txn[m])
    BY <1>2, <1>8, <1>10
  <1>13. /\ e.txn[n].account = s /\ e.txn[n].change = -x
         /\ e.txn[m].account = c /\ e.txn[m].change = x
    BY <1>3, <1>12 DEF LineOf, L!Line
  <1>14. /\ e.acct[s].balance = d.acct[s].balance - x
         /\ e.acct[c].balance = d.acct[c].balance + x
         /\ \A a \in Accounts : a # s /\ a # c => e.acct[a].balance = d.acct[a].balance
    BY <1>6
  <1>15. s # c
    BY <1>1
  <1>16. Carried(d, e, s, c, x, n, m)
    BY <1>9, <1>10, <1>11, <1>13, <1>14, <1>15 DEF Carried
  <1>17. QED BY <1>16

\* One more line keeps the sums equal to the balances.
LEMMA BalancedLine ==
    ASSUME NEW d \in Database, NEW e \in Database, Balanced(d), NEW b \in Accounts,
           NEW f, NEW x \in Int, NEW c,
           Journal(e) = Append(Journal(d), L!Line(b, f, x, c)),
           Balance(e) = [Balance(d) EXCEPT ![b] = @ + x]
    PROVE  Balanced(e)
  <1> DEFINE n == Len(d.txn) + 1
             w == ChangeOf(e)
  <1>1. /\ DOMAIN e.txn = DOMAIN d.txn \cup {n} /\ n \notin DOMAIN d.txn
        /\ \A t \in DOMAIN d.txn : /\ e.txn[t].account = d.txn[t].account
                                   /\ e.txn[t].change = d.txn[t].change
        /\ e.txn[n].account = b /\ e.txn[n].change = x
    BY LineAppended
  <1>2. w[n] = x /\ w[n] \in Int
    BY <1>1 DEF ChangeOf
  <1>4. ASSUME NEW a \in Accounts
        PROVE  e.acct[a].balance = Total(w, RowsOf(e, a))
    <2> DEFINE own == RowsOf(e, a) \ DOMAIN d.txn
    <2>1. /\ a = b => own = {n} /\ e.acct[a].balance = d.acct[a].balance + x
          /\ a # b => own = {} /\ e.acct[a].balance = d.acct[a].balance
      <3>1. (a = b => own = {n}) /\ (a # b => own = {})
        BY <1>1 DEF RowsOf
      <3>2. /\ a = b => Balance(e)[a] = Balance(d)[a] + x
            /\ a # b => Balance(e)[a] = Balance(d)[a]
        BY DEF Balance
      <3>3. Balance(e)[a] = e.acct[a].balance /\ Balance(d)[a] = d.acct[a].balance
        BY DEF Balance
      <3> HIDE DEF own
      <3>4. QED BY <3>1, <3>2, <3>3
    <2>2. \A t \in DOMAIN d.txn : /\ t \in DOMAIN e.txn
                                  /\ e.txn[t].account = d.txn[t].account
                                  /\ e.txn[t].change = d.txn[t].change
      BY <1>1
    <2>3. Total(w, RowsOf(e, a)) = Total(ChangeOf(d), RowsOf(d, a)) + Total(w, own)
      BY <2>2, SumGrown
    <2>4. d.acct[a].balance = Total(ChangeOf(d), RowsOf(d, a)) /\ d.acct[a].balance \in Int
      BY DEF Balanced, Database, Account
    <2>5. Total(w, {n}) = x /\ Total(w, {}) = 0
      BY <1>2, TotalSingle
    <2> HIDE DEF own, w, n
    <2>6. CASE a = b
      <3>1. Total(w, own) = x
        BY <2>1, <2>5, <2>6
      <3>2. QED BY <2>1, <2>3, <2>4, <2>6, <3>1
    <2>7. CASE a # b
      <3>1. Total(w, own) = 0
        BY <2>1, <2>5, <2>7
      <3>2. QED BY <2>1, <2>3, <2>4, <2>7, <3>1
    <2>8. QED BY <2>6, <2>7
  <1>5. QED BY <1>4 DEF Balanced

\* The two lines of a transfer keep the sums equal to the balances.
LEMMA BalancedLines ==
    ASSUME NEW d \in Database, NEW e \in Database, Balanced(d), NEW s \in Accounts,
           NEW c \in Accounts, s # c, NEW x \in Int, NEW y \in Int, y = -x,
           NEW n, NEW m, DOMAIN e.txn = DOMAIN d.txn \cup {n, m},
           n # m, n \notin DOMAIN d.txn, m \notin DOMAIN d.txn,
           \A t \in DOMAIN d.txn : /\ e.txn[t].account = d.txn[t].account
                                   /\ e.txn[t].change = d.txn[t].change,
           e.txn[n].account = s, e.txn[n].change = y,
           e.txn[m].account = c, e.txn[m].change = x,
           e.acct[s].balance = d.acct[s].balance + y,
           e.acct[c].balance = d.acct[c].balance + x,
           \A a \in Accounts : a # s /\ a # c => e.acct[a].balance = d.acct[a].balance
    PROVE  Balanced(e)
  <1> DEFINE w == ChangeOf(e)
  <1>2. w[n] = y /\ w[n] \in Int /\ w[m] = x /\ w[m] \in Int
    BY DEF ChangeOf
  <1>4. ASSUME NEW a \in Accounts
        PROVE  e.acct[a].balance = Total(w, RowsOf(e, a))
    <2> DEFINE own == RowsOf(e, a) \ DOMAIN d.txn
    <2>1. /\ a = s => own = {n} /\ e.acct[a].balance = d.acct[a].balance + y
          /\ a = c => own = {m} /\ e.acct[a].balance = d.acct[a].balance + x
          /\ a # s /\ a # c => own = {} /\ e.acct[a].balance = d.acct[a].balance
      <3>1. /\ a = s => own = {n}
            /\ a = c => own = {m}
            /\ a # s /\ a # c => own = {}
        BY DEF RowsOf
      <3> HIDE DEF own
      <3>2. QED BY <3>1
    <2>2. \A t \in DOMAIN d.txn : /\ t \in DOMAIN e.txn
                                  /\ e.txn[t].account = d.txn[t].account
                                  /\ e.txn[t].change = d.txn[t].change
      OBVIOUS
    <2>3. Total(w, RowsOf(e, a)) = Total(ChangeOf(d), RowsOf(d, a)) + Total(w, own)
      BY <2>2, SumGrown
    <2>4. d.acct[a].balance = Total(ChangeOf(d), RowsOf(d, a)) /\ d.acct[a].balance \in Int
      BY DEF Balanced, Database, Account
    <2>5. Total(w, {n}) = y /\ Total(w, {m}) = x /\ Total(w, {}) = 0
      <3> HIDE DEF w
      <3>1. Total(w, {n}) = w[n] /\ Total(w, {m}) = w[m] /\ Total(w, {}) = 0
        BY <1>2, TotalSingle
      <3>2. QED BY <1>2, <3>1
    <2> HIDE DEF own, w
    <2>6. CASE a = s
      <3>1. Total(w, own) = y
        BY <2>1, <2>5, <2>6
      <3>2. QED BY <2>1, <2>3, <2>4, <2>6, <3>1
    <2>7. CASE a = c
      <3>1. Total(w, own) = x
        BY <2>1, <2>5, <2>7
      <3>2. QED BY <2>1, <2>3, <2>4, <2>7, <3>1
    <2>8. CASE a # s /\ a # c
      <3>1. Total(w, own) = 0
        BY <2>1, <2>5, <2>8
      <3>2. QED BY <2>1, <2>3, <2>4, <2>8, <3>1
    <2>9. QED BY <2>6, <2>7, <2>8
  <1>5. QED BY <1>4 DEF Balanced

\* An operation of the ledger keeps the sums equal to the balances.
LEMMA EffectBalanced ==
    ASSUME NEW d \in Database, NEW e \in Database, Balanced(d), Effect(d, e)
    PROVE  Balanced(e)
  <1>1. CASE SameBooks(d, e)
    <2>1. DOMAIN e.txn = DOMAIN d.txn
      BY <1>1, JournalType DEF SameBooks
    <2>2. ASSUME NEW t \in DOMAIN d.txn
          PROVE  e.txn[t].account = d.txn[t].account /\ e.txn[t].change = d.txn[t].change
      <3>1. LineOf(e.txn[t]) = LineOf(d.txn[t])
        BY <1>1, <2>1, JournalType DEF SameBooks
      <3>2. QED BY <3>1 DEF LineOf, L!Line
    <2>3. \A a \in Accounts : e.acct[a].balance = d.acct[a].balance
      <3>1. \A a \in Accounts : Balance(e)[a] = e.acct[a].balance /\ Balance(d)[a] = d.acct[a].balance
        BY DEF Balance
      <3>2. QED BY <1>1, <3>1 DEF SameBooks
    <2>4. ChangeOf(e) = ChangeOf(d) /\ \A a : RowsOf(e, a) = RowsOf(d, a)
      BY <2>1, <2>2 DEF ChangeOf, RowsOf
    <2>5. QED BY <2>3, <2>4 DEF Balanced
  <1>2. CASE Posted(d, e)
    <2>1. PICK a \in Accounts, x \in Int \ {0} :
             /\ Balance(e) = [Balance(d) EXCEPT ![a] = @ + x]
             /\ Journal(e) = Append(Journal(d), L!Line(a, "post", x, 0))
      BY <1>2 DEF Posted
    <2>2. QED BY <2>1, BalancedLine
  <1>3. CASE MovedBetween(d, e)
    <2>1. PICK s, c \in Accounts, x \in Int : \E n, m : Carried(d, e, s, c, x, n, m)
      BY <1>3, LinesPosted
    <2>2. PICK n, m : Carried(d, e, s, c, x, n, m)
      BY <2>1
    <2>3. PICK y \in Int : y = -x
      OBVIOUS
    <2>4. d.acct[s].balance \in Int
      BY DEF Database, Account
    <2>5. e.acct[s].balance = d.acct[s].balance + y /\ e.txn[n].change = y
      BY <2>2, <2>3, <2>4 DEF Carried
    <2>6. QED BY <2>2, <2>3, <2>5, BalancedLines DEF Carried
  <1>4. CASE CorrectedEntry(d, e)
    <2>1. PICK i \in DOMAIN Journal(d), x \in Int :
             /\ Balance(e) = [Balance(d) EXCEPT ![Journal(d)[i].account] = @ + x]
             /\ Journal(e) = Append(Journal(d), L!Line(Journal(d)[i].account, "correction", x, i))
      BY <1>4 DEF CorrectedEntry
    <2>2. Journal(d)[i].account \in Accounts
      <3>1. i \in DOMAIN d.txn
        BY JournalType
      <3>2. Journal(d)[i] = LineOf(d.txn[i])
        BY <3>1, JournalType
      <3>3. Journal(d)[i].account = d.txn[i].account
        BY <3>2 DEF LineOf, L!Line
      <3>4. QED BY <3>1, <3>3, RowColumns
    <2>3. QED BY <2>1, <2>2, BalancedLine
  <1>5. QED BY <1>1, <1>2, <1>3, <1>4 DEF Effect

-----------------------------------------------------------------------------
(* The balance a page has loaded                                            *)

\* With one request at a time the balance of an account is the sum of its rows,
\* and the balance of a page the sum of those it counted.
SumsInv ==
    /\ Balanced(db)
    /\ page # NoPage => page.balance = Total(ChangeOf(db), RowsUntil(db, page.account, page.rows))

\* Nothing has been posted at first.
LEMMA InitSums == SInit => SumsInv
  <1> SUFFICES ASSUME SInit PROVE SumsInv
    OBVIOUS
  <1>1. page = NoPage /\ \A a \in Accounts : RowsOf(db, a) = {} /\ db.acct[a].balance = 0
    BY DEF SInit, Init, Fresh, RowsOf
  <1>2. Total(ChangeOf(db), {}) = 0
    BY FS_EmptySet, TotalPicked
  <1>3. QED BY <1>1, <1>2 DEF SumsInv, Balanced

\* What commits is recorded first.
LEMMA RecordedCommits ==
    ASSUME [Next]_vars
    PROVE  db' = db \/ (db' = work /\ \E r \in Requests : req[r].pc = "recorded")
  <1>1. ASSUME NEW r \in Requests, Start(r) \/ Step(r) \/ Fail(r)
        PROVE  db' = db \/ (db' = work /\ req[r].pc = "recorded")
    BY <1>1 DEF Start, Step, StartOpen, StartSingle, StartTransfer, StartReverse,
                LoadDestination, LoadReversed, RejectReversed, Reject, Busy, Open, Deposit,
                Withdraw, PostSingle, Transfer, Reverse, Flush, RecordOpen, RecordSingle,
                RecordTransfer, RecordReverse, Record, Commit, Fail
  <1>2. QED BY <1>1 DEF Next, Rest, vars

\* Rows that commit later change no sum over the rows until then.
LEMMA SumsStay ==
    ASSUME NEW d \in Database, NEW e \in Database, Grows(d, e), NEW a, NEW n \in Nat,
           n <= Len(d.txn)
    PROVE  Total(ChangeOf(e), RowsUntil(e, a, n)) = Total(ChangeOf(d), RowsUntil(d, a, n))
  <1> DEFINE rows == RowsUntil(d, a, n)
             more == RowsUntil(e, a, n)
             u    == ChangeOf(d)
             w    == ChangeOf(e)
  <1>2. \A t \in DOMAIN d.txn : t \in DOMAIN e.txn /\ e.txn[t].change = d.txn[t].change
    BY ColumnsStay
  <1>4. more = rows
    BY UntilStays
  <1>5. rows \in SUBSET DOMAIN d.txn
    BY DEF RowsUntil, RowsOf
  <1>6. \A t \in rows : w[t] = u[t]
    BY <1>2, <1>5 DEF ChangeOf
  <1> HIDE DEF rows, more, u, w
  <1>7. IsFiniteSet(rows) /\ \A t \in rows : u[t] \in Int
    BY <1>5, RowsOfDatabase DEF u
  <1>8. Total(w, rows) = Total(u, rows)
    BY <1>6, <1>7, TotalSame
  <1>9. QED BY <1>4, <1>8 DEF rows, more, u, w

\* Every step keeps the sums.
LEMMA NextSums ==
    ASSUME IInv, IInv', SerialInv, PageInv, SumsInv, [SNext]_svars
    PROVE  SumsInv'
  <1>1. db \in Database /\ db' \in Database /\ work \in Database /\ Grows(db, work)
    BY DEF IInv, TypeOK
  <1>2. [Next]_vars
    BY DEF SNext, svars, OpenPage, ClosePage
  <1>3. Balanced(db')
    <2>1. CASE db' = db
      BY <2>1 DEF SumsInv
    <2>2. CASE db' = work /\ \E r \in Requests : req[r].pc = "recorded"
      <3>1. Effect(db, work)
        BY <2>2 DEF SerialInv, Holding
      <3>2. QED BY <1>1, <2>2, <3>1, EffectBalanced DEF SumsInv
    <2>3. QED BY <1>2, <2>1, <2>2, RecordedCommits
  <1>4. CASE UNCHANGED page /\ page # NoPage
    <2>1. page \in Page /\ page.rows <= Len(db.txn) /\ page.rows \in Nat
      BY <1>4 DEF PageInv, Page
    <2>2. page.balance = Total(ChangeOf(db), RowsUntil(db, page.account, page.rows))
      BY <1>4 DEF SumsInv
    <2>3. CASE db' = db
      BY <1>3, <1>4, <2>2, <2>3 DEF SumsInv
    <2>4. CASE db' = work
      <3>1. Total(ChangeOf(work), RowsUntil(work, page.account, page.rows))
              = Total(ChangeOf(db), RowsUntil(db, page.account, page.rows))
        BY <1>1, <2>1, SumsStay
      <3>2. /\ page' = page
            /\ page.balance = Total(ChangeOf(work), RowsUntil(work, page.account, page.rows))
        BY <1>4, <2>2, <3>1
      <3>3. QED BY <1>3, <2>4, <3>2 DEF SumsInv
    <2>5. QED BY <1>2, <2>3, <2>4, CommitsOnly
  <1>5. CASE page' = NoPage
    BY <1>3, <1>5 DEF SumsInv
  <1>6. CASE OpenPage
    <2>1. PICK u \in Users, asked \in Accounts : \E a \in Selected(u, asked) :
             page' = [account |-> a, balance |-> db.acct[a].balance, rows |-> Len(db.txn)]
      BY <1>6 DEF OpenPage
    <2>2. PICK a \in db.opened :
             page' = [account |-> a, balance |-> db.acct[a].balance, rows |-> Len(db.txn)]
      BY <2>1 DEF Selected, OwnedBy
    <2>3. db' = db /\ a \in Accounts
      BY <1>1, <1>6 DEF OpenPage, vars, Database
    <2>4. page'.account = a /\ page'.balance = db.acct[a].balance /\ page'.rows = Len(db.txn)
      BY <2>2
    <2>5. RowsUntil(db, a, Len(db.txn)) = RowsOf(db, a)
      BY <1>1, UntilAll
    <2>6. page'.balance = Total(ChangeOf(db), RowsUntil(db, a, Len(db.txn)))
      BY <2>3, <2>4, <2>5 DEF SumsInv, Balanced
    <2>7. QED BY <1>3, <2>3, <2>4, <2>6 DEF SumsInv
  <1>7. QED BY <1>4, <1>5, <1>6 DEF SNext, svars, ClosePage

\* With one request at a time every reachable state satisfies all the
\* invariants.
THEOREM StatementSums ==
    ASSUME OneAtATime
    PROVE  StatementSpec => [](IInv /\ ShapeInv /\ PageInv /\ SumsInv)
  <1>1. IInv /\ IInv' /\ SerialInv /\ PageInv /\ SumsInv /\ [SNext]_svars => SumsInv'
    BY NextSums
  <1>2. QED BY <1>1, InitSums, StatementInvariant, StatementsRunBanking, SerialInvariant, PTL
            DEF StatementSpec

-----------------------------------------------------------------------------
(* How far the analytics and the opening balance are off                    *)

\* The sum over a set in two parts.
LEMMA TotalOfParts ==
    ASSUME NEW w, NEW S, IsFiniteSet(S), \A x \in S : w[x] \in Int,
           NEW A, NEW B, \A x : x \in S <=> x \in A \/ x \in B, \A x \in A : x \notin B
    PROVE  Total(w, S) = Total(w, A) + Total(w, B)
  <1> DEFINE both == A \cup B
  <1>1. S = both /\ A \cap B = {} /\ A \in SUBSET S /\ B \in SUBSET S
    OBVIOUS
  <1>2. IsFiniteSet(A) /\ IsFiniteSet(B)
    BY <1>1, FS_Subset
  <1>3. \A x \in A \cup B : w[x] \in Int
    BY <1>1
  <1>4. Total(w, A \cup B) = Total(w, A) + Total(w, B)
    BY <1>1, <1>2, <1>3, TotalUnion
  <1> HIDE DEF both
  <1>5. Total(w, both) = Total(w, A) + Total(w, B)
    BY <1>4 DEF both
  <1>6. QED BY <1>1, <1>5

\* Rows that credit their account by their amount.
LEMMA CreditRows ==
    ASSUME NEW d \in Database, NEW rows \in SUBSET DOMAIN d.txn,
           \A t \in rows : d.txn[t].change = d.txn[t].amount
    PROVE  Total(ChangeOf(d), rows) = Total(AmountOf(d), rows)
  <1>1. IsFiniteSet(rows) /\ \A t \in rows : ChangeOf(d)[t] = AmountOf(d)[t] /\ AmountOf(d)[t] \in Int
    BY RowsOfDatabase
  <1>2. QED BY <1>1, TotalSame

\* Rows that debit it.
LEMMA DebitRows ==
    ASSUME NEW d \in Database, NEW rows \in SUBSET DOMAIN d.txn,
           \A t \in rows : d.txn[t].change = -d.txn[t].amount
    PROVE  Total(ChangeOf(d), rows) = -Total(AmountOf(d), rows)
  <1>1. IsFiniteSet(rows) /\ \A t \in rows : ChangeOf(d)[t] = -AmountOf(d)[t] /\ AmountOf(d)[t] \in Int
    BY RowsOfDatabase
  <1>2. QED BY <1>1, TotalOpposite

\* The sums over rows are integers.
LEMMA RowSums ==
    ASSUME NEW d \in Database, NEW rows \in SUBSET DOMAIN d.txn
    PROVE  Total(ChangeOf(d), rows) \in Int /\ Total(AmountOf(d), rows) \in Int
  BY RowsOfDatabase, TotalInt

\* The balances of some accounts sum to the changes of all their rows.
LEMMA BalancesOfRows ==
    ASSUME IInv, Balanced(db), NEW mine \in SUBSET Accounts
    PROVE  MapThenSumSet(LAMBDA a : db.acct[a].balance, mine) = Total(ChangeOf(db), RowsOn(mine))
  <1>1. db \in Database /\ IsFiniteSet(mine)
    BY ConstantsAssumption, FS_Subset DEF IInv, TypeOK
  <1> DEFINE F    == [a \in mine |-> RowsOf(db, a)]
             sums == [a \in mine |-> db.acct[a].balance]
             w    == ChangeOf(db)
             rows == RowsOn(mine)
  <1>2. MapThenSumSet(LAMBDA a : db.acct[a].balance, mine) = Total(sums, mine)
    <2>1. \A a \in mine : sums[a] = db.acct[a].balance
      OBVIOUS
    <2> HIDE DEF sums
    <2>2. QED BY <1>1, <2>1, BalanceTotal
  <1>3. \A a \in mine : sums[a] = Total(w, F[a])
    BY DEF Balanced
  <1>4. \A a \in mine : \A t : t \in F[a] <=> t \in DOMAIN db.txn /\ db.txn[t].account = a
    BY DEF RowsOf
  <1>5. \A t : t \in rows <=> t \in DOMAIN db.txn /\ db.txn[t].account \in mine
    BY DEF RowsOn
  <1> HIDE DEF F, sums, w, rows
  <1>6. ASSUME NEW a \in mine
        PROVE  IsFiniteSet(F[a]) /\ sums[a] = Total(w, F[a]) /\ \A t \in F[a] : w[t] \in Int
    <2>1. F[a] \in SUBSET DOMAIN db.txn
      BY <1>4
    <2>2. QED BY <1>1, <1>3, <2>1, RowsOfDatabase DEF w
  <1>7. \A a, b \in mine : a # b => F[a] \cap F[b] = {}
    BY <1>4
  <1>8. Total(sums, mine) = Total(w, UNION {F[a] : a \in mine})
    BY <1>1, <1>6, <1>7, TotalOfTotals
  <1>9. rows = UNION {F[a] : a \in mine}
    BY <1>4, <1>5
  <1>10. QED BY <1>2, <1>8, <1>9 DEF rows, w

\* As long as nothing was reversed the net change misses the transfers that
\* came in twice.
LEMMA NetChangeOff ==
    ASSUME IInv, ShapeInv, Balanced(db), NEW mine \in SUBSET Accounts, Settled(mine, 1),
           NEW incoming,
           incoming = {t \in OfType(RowsOn(mine), "TRANSFER") : db.txn[t].change > 0}
    PROVE  NetBalanceChange(mine)
             = MapThenSumSet(LAMBDA a : db.acct[a].balance, mine) - 2 * Amount(incoming)
  <1>1. db \in Database /\ Shaped(db)
    BY DEF IInv, TypeOK, ShapeInv
  <1> DEFINE rows == RowsOn(mine)
             D    == OfType(Completed(rows), "DEPOSIT")
             R    == OfType(Completed(rows), "REVERSAL")
             W    == OfType(Completed(rows), "WITHDRAWAL")
             T    == OfType(Completed(rows), "TRANSFER")
             sent == {t \in T : t \notin incoming}
             P    == D \cup W
             c    == ChangeOf(db)
             m    == AmountOf(db)
  <1>2. \A t : t \in rows <=> t \in DOMAIN db.txn /\ db.txn[t].account \in mine
    BY DEF RowsOn
  <1>3. \A t \in rows : db.txn[t].status = "COMPLETED" /\ db.txn[t].type # "REVERSAL"
    <2>1. \A t \in DOMAIN db.txn : t >= 1
      BY <1>1 DEF Database
    <2>2. QED BY <1>2, <2>1 DEF Settled, Naming
  <1>4. /\ \A t : t \in D <=> t \in rows /\ db.txn[t].type = "DEPOSIT"
        /\ \A t : t \in R <=> t \in rows /\ db.txn[t].type = "REVERSAL"
        /\ \A t : t \in W <=> t \in rows /\ db.txn[t].type = "WITHDRAWAL"
        /\ \A t : t \in T <=> t \in rows /\ db.txn[t].type = "TRANSFER"
    BY <1>3 DEF OfType, Completed
  <1>5. /\ \A t : t \in incoming <=> t \in rows /\ db.txn[t].type = "TRANSFER" /\ db.txn[t].change > 0
        /\ \A t : t \in sent <=> t \in T /\ t \notin incoming
        /\ \A t : t \in P <=> t \in D \/ t \in W
    BY DEF OfType
  <1>6. NetBalanceChange(mine) = (Amount(D) + Amount(R)) - (Amount(W) + Amount(T))
    BY DEF NetBalanceChange, Income, Expenses
  <1>7. \A t \in rows : db.txn[t].type \in {"DEPOSIT", "WITHDRAWAL", "TRANSFER", "REVERSAL"}
    BY <1>1, <1>2, RowTypes
  <1>8. MapThenSumSet(LAMBDA a : db.acct[a].balance, mine) = Total(c, rows)
    BY BalancesOfRows
  <1> HIDE DEF rows, D, R, W, T, sent, P, c, m
  <1>9. /\ rows \in SUBSET DOMAIN db.txn /\ D \in SUBSET DOMAIN db.txn /\ R \in SUBSET DOMAIN db.txn
        /\ W \in SUBSET DOMAIN db.txn /\ T \in SUBSET DOMAIN db.txn /\ P \in SUBSET DOMAIN db.txn
        /\ incoming \in SUBSET DOMAIN db.txn /\ sent \in SUBSET DOMAIN db.txn
    BY <1>2, <1>4, <1>5
  <1>10. /\ Amount(D) = Total(m, D) /\ Amount(R) = Total(m, R) /\ Amount(W) = Total(m, W)
         /\ Amount(T) = Total(m, T) /\ Amount(incoming) = Total(m, incoming)
    BY <1>1, <1>9, AmountTotal DEF m
  <1>11. Total(m, R) = 0
    <2>1. R = {}
      BY <1>3, <1>4
    <2>2. QED BY <2>1, FS_EmptySet, TotalPicked
  <1>12. \A t \in D : db.txn[t].change = db.txn[t].amount
    BY <1>1, <1>2, <1>4, SingleRow DEF SingleEntry
  <1>13. \A t \in W : db.txn[t].change = -db.txn[t].amount
    BY <1>1, <1>2, <1>4, SingleRow DEF SingleEntry
  <1>14. ASSUME NEW t \in T
         PROVE  /\ t \in incoming => db.txn[t].change = db.txn[t].amount
                /\ t \notin incoming => db.txn[t].change = -db.txn[t].amount
    <2>1. t \in rows /\ t \in DOMAIN db.txn /\ db.txn[t].type = "TRANSFER"
      BY <1>2, <1>4
    <2>2. db.txn[t].amount > 0 /\ db.txn[t].change \in {db.txn[t].amount, -db.txn[t].amount}
      BY <1>1, <2>1, MateRow
    <2>3. db.txn[t].amount \in Int /\ (t \in incoming <=> db.txn[t].change > 0)
      BY <1>1, <1>5, <2>1, RowColumns
    <2>4. QED BY <2>2, <2>3
  <1>15. incoming \in SUBSET T /\ sent \in SUBSET T
    BY <1>4, <1>5
  <1>16. /\ Total(c, D) = Total(m, D) /\ Total(c, W) = -Total(m, W)
         /\ Total(c, incoming) = Total(m, incoming) /\ Total(c, sent) = -Total(m, sent)
    <2>1. \A t \in incoming : db.txn[t].change = db.txn[t].amount
      BY <1>14, <1>15
    <2>2. \A t \in sent : db.txn[t].change = -db.txn[t].amount
      BY <1>5, <1>14
    <2>3. QED BY <1>1, <1>9, <1>12, <1>13, <2>1, <2>2, CreditRows, DebitRows DEF c, m
  <1>17. /\ Total(m, T) = Total(m, incoming) + Total(m, sent)
         /\ Total(c, T) = Total(c, incoming) + Total(c, sent)
    <2>1. IsFiniteSet(T) /\ \A t \in T : m[t] \in Int /\ c[t] \in Int
      BY <1>1, <1>9, RowsOfDatabase DEF m, c
    <2>2. /\ \A t : t \in T <=> t \in incoming \/ t \in sent
          /\ \A t \in incoming : t \notin sent
      BY <1>5, <1>15
    <2>3. QED BY <2>1, <2>2, TotalOfParts
  <1>18. Total(c, P) = Total(c, D) + Total(c, W)
    <2>1. IsFiniteSet(P) /\ \A t \in P : c[t] \in Int
      BY <1>1, <1>9, RowsOfDatabase DEF c
    <2>2. \A t \in D : t \notin W
      BY <1>4
    <2>3. QED BY <1>5, <2>1, <2>2, TotalOfParts
  <1>19. Total(c, rows) = Total(c, P) + Total(c, T)
    <2>1. IsFiniteSet(rows) /\ \A t \in rows : c[t] \in Int
      BY <1>1, <1>9, RowsOfDatabase DEF c
    <2>2. \A t : t \in rows <=> t \in P \/ t \in T
      BY <1>3, <1>4, <1>5, <1>7
    <2>3. \A t \in P : t \notin T
      BY <1>4, <1>5
    <2>4. QED BY <2>1, <2>2, <2>3, TotalOfParts
  <1>20. /\ Total(m, D) \in Int /\ Total(m, W) \in Int /\ Total(m, T) \in Int
         /\ Total(m, incoming) \in Int /\ Total(m, sent) \in Int
    BY <1>1, <1>9, RowSums DEF m
  <1>21. NetBalanceChange(mine) = Total(m, D) - (Total(m, W) + Total(m, incoming) + Total(m, sent))
    BY <1>6, <1>10, <1>11, <1>17, <1>20
  <1>22. Total(c, rows) = Total(m, D) - Total(m, W) + Total(m, incoming) - Total(m, sent)
    BY <1>16, <1>17, <1>18, <1>19, <1>20
  <1>23. Total(c, rows) - 2 * Amount(incoming)
           = Total(m, D) - (Total(m, W) + Total(m, incoming) + Total(m, sent))
    BY <1>10, <1>20, <1>22
  <1>24. QED BY <1>8, <1>21, <1>23

\* When no two requests overlap, the net change of the analytics misses the
\* balances of a user without reversals by exactly twice the transfers that
\* came in (get_analytics).
THEOREM AnalyticsOffByIncoming == ASSUME OneAtATime PROVE StatementSpec => []AnalyticsOff
  <1>1. ASSUME IInv, ShapeInv, SumsInv
        PROVE  AnalyticsOff
    <2>1. \A u \in Users : OwnedBy(u) \in SUBSET Accounts
      BY <1>1 DEF IInv, TypeOK, Database, OwnedBy
    <2>2. QED BY <1>1, <2>1, NetChangeOff DEF AnalyticsOff, SumsInv
  <1>2. QED BY <1>1, StatementSums, PTL

\* The own rows that a statement shows, by what they do and what they count as.
LEMMA ShownRows ==
    ASSUME NEW d \in Database, Shaped(d), NEW a, NEW X \in SUBSET RowsOf(d, a), NEW misread,
           \A t : t \in misread <=> /\ t \in X /\ d.txn[t].type \in {"TRANSFER", "REVERSAL"}
                                    /\ d.txn[t].change > 0,
           NEW in, \A t : t \in in <=> t \in X /\ d.txn[t].type = "DEPOSIT",
           NEW out, \A t : t \in out <=> t \in X /\ t \notin in
    PROVE  Total(ChangeOf(d), X) - Total(AmountOf(d), in) + Total(AmountOf(d), out)
             = 2 * Total(ChangeOf(d), misread)
  <1> DEFINE rest == {t \in out : t \notin misread}
             c    == ChangeOf(d)
             m    == AmountOf(d)
  <1>1. \A t : t \in rest <=> t \in out /\ t \notin misread
    OBVIOUS
  <1> HIDE DEF rest, c, m
  <1>2. X \in SUBSET DOMAIN d.txn
    BY DEF RowsOf
  <1>3. /\ misread \in SUBSET DOMAIN d.txn /\ in \in SUBSET DOMAIN d.txn
        /\ out \in SUBSET DOMAIN d.txn /\ rest \in SUBSET DOMAIN d.txn
    <2>1. misread \in SUBSET X /\ in \in SUBSET X /\ out \in SUBSET X /\ rest \in SUBSET X
      BY <1>1
    <2>2. QED BY <1>2, <2>1
  <1>4. ASSUME NEW rows \in SUBSET DOMAIN d.txn
        PROVE  /\ IsFiniteSet(rows) /\ \A t \in rows : c[t] \in Int /\ m[t] \in Int
               /\ Total(c, rows) \in Int /\ Total(m, rows) \in Int
    BY RowsOfDatabase, RowSums DEF c, m
  <1>5. \A t \in in : d.txn[t].change = d.txn[t].amount
    BY <1>3, SingleRow DEF SingleEntry
  <1>6. ASSUME NEW t \in out
        PROVE  /\ t \in misread => d.txn[t].change = d.txn[t].amount
               /\ t \notin misread => d.txn[t].change = -d.txn[t].amount
    <2>1. t \in DOMAIN d.txn /\ t \in X /\ d.txn[t].type # "DEPOSIT"
      BY <1>3
    <2>2. d.txn[t].type \in {"DEPOSIT", "WITHDRAWAL", "TRANSFER", "REVERSAL"}
      BY <2>1, RowTypes
    <2>3. d.txn[t].amount > 0 /\ d.txn[t].change \in {d.txn[t].amount, -d.txn[t].amount}
      BY <2>1, SingleRow, MateRow DEF SingleEntry
    <2>4. d.txn[t].type = "WITHDRAWAL" => d.txn[t].change = -d.txn[t].amount
      BY <2>1, SingleRow DEF SingleEntry
    <2>5. d.txn[t].amount \in Int /\ d.txn[t].change \in Int
      BY <2>1, RowColumns
    <2>6. QED BY <2>1, <2>2, <2>3, <2>4, <2>5
  <1>7. \A t \in misread : t \in out
    <2>1. \A t \in misread : t \in X /\ d.txn[t].type # "DEPOSIT"
      OBVIOUS
    <2>2. QED BY <2>1
  <1>8. /\ Total(c, in) = Total(m, in) /\ Total(c, misread) = Total(m, misread)
        /\ Total(c, rest) = -Total(m, rest)
    <2>1. \A t \in misread : d.txn[t].change = d.txn[t].amount
      BY <1>6, <1>7
    <2>2. \A t \in rest : d.txn[t].change = -d.txn[t].amount
      BY <1>1, <1>6
    <2>3. QED BY <1>3, <1>5, <2>1, <2>2, CreditRows, DebitRows DEF c, m
  <1>9. Total(c, X) = Total(c, in) + Total(c, out)
    <2>1. \A t : t \in X <=> t \in in \/ t \in out
      OBVIOUS
    <2>2. \A t \in in : t \notin out
      OBVIOUS
    <2>3. IsFiniteSet(X) /\ \A t \in X : c[t] \in Int
      BY <1>2, <1>4
    <2>4. QED BY ONLY <2>1, <2>2, <2>3, TotalOfParts
  <1>10. /\ Total(c, out) = Total(c, misread) + Total(c, rest)
         /\ Total(m, out) = Total(m, misread) + Total(m, rest)
    <2>1. /\ \A t : t \in out <=> t \in misread \/ t \in rest
          /\ \A t \in misread : t \notin rest
      BY <1>1, <1>7
    <2>2. IsFiniteSet(out) /\ \A t \in out : c[t] \in Int
      BY <1>3, <1>4
    <2>3. \A t \in out : m[t] \in Int
      BY <1>3, <1>4
    <2>4. Total(c, out) = Total(c, misread) + Total(c, rest)
      BY ONLY <2>1, <2>2, TotalOfParts
    <2>5. Total(m, out) = Total(m, misread) + Total(m, rest)
      BY ONLY <2>1, <2>2, <2>3, TotalOfParts
    <2>6. QED BY <2>4, <2>5
  <1>11. Total(m, in) \in Int /\ Total(m, misread) \in Int /\ Total(m, rest) \in Int
    BY <1>3, <1>4
  <1>12. QED BY <1>8, <1>9, <1>10, <1>11 DEF c, m

\* When no two requests overlap, the opening balance of a statement, whatever
\* dates, search and kind it is asked for, is the balance before its first row,
\* up to the own rows it leaves out, the money it shows as debits, the rows of
\* the other parties and the rows that committed after the account was loaded,
\* each with the factor OpeningOff gives (_calculate_statement_data).
THEOREM OpeningOffByMirrors == ASSUME OneAtATime PROVE StatementSpec => []OpeningOff
  <1>1. ASSUME IInv, ShapeInv, PageInv, SumsInv
        PROVE  OpeningOff
    <2> SUFFICES ASSUME page # NoPage, NEW f \in Filters
                 PROVE  LET a       == page.account
                            shown   == Records(a, f)
                            late    == {t \in shown : t > page.rows}
                            own     == {t \in RowsOn({a}) : t <= page.rows}
                            before  == {t \in own : t < f.first}
                            left    == {t \in own : t >= f.first} \ shown
                            misread == {t \in own \cap shown :
                                          /\ db.txn[t].type \in {"TRANSFER", "REVERSAL"}
                                          /\ db.txn[t].change > 0}
                            mirrors == shown \ (own \cup late)
                        IN  OpeningBalance(page, shown)
                              = Change(before) + Change(left) + 2 * Change(misread)
                                  - Amount(mirrors) - Credits(a, late) + Debits(a, late)
      BY DEF OpeningOff
    <2> DEFINE a       == page.account
               n       == page.rows
               shown   == Records(a, f)
               late    == {t \in shown : t > page.rows}
               own     == {t \in RowsOn({a}) : t <= page.rows}
               before  == {t \in own : t < f.first}
               left    == {t \in own : t >= f.first} \ shown
               misread == {t \in own \cap shown : /\ db.txn[t].type \in {"TRANSFER", "REVERSAL"}
                                                  /\ db.txn[t].change > 0}
               mirrors == shown \ (own \cup late)
               X       == own \cap shown
               Y       == own \ shown
               in      == {t \in X : db.txn[t].type = "DEPOSIT"}
               out     == {t \in X : t \notin in}
               credits == {t \in shown : IsCredit(t, a)}
               debits  == {t \in shown : ~IsCredit(t, a)}
               early   == {t \in credits : t \notin late}
               paid    == {t \in late : IsCredit(t, a)}
               drawn   == {t \in late : ~IsCredit(t, a)}
               c       == ChangeOf(db)
               m       == AmountOf(db)
    <2>1. /\ db \in Database /\ Shaped(db) /\ a \in Accounts /\ page.balance \in Int /\ n \in Nat
          /\ f.first \in Nat
      BY <1>1, FiltersAssumption DEF IInv, TypeOK, ShapeInv, PageInv, Page
    <2>2. \A t : t \in own <=> t \in DOMAIN db.txn /\ db.txn[t].account = a /\ t <= n
      BY DEF RowsOn
    <2>3. \A t : t \in shown => /\ t \in DOMAIN db.txn /\ t >= f.first
                                /\ db.txn[t].account = a \/ db.txn[t].counterparty = a
      BY DEF Records, Naming
    <2>4. /\ \A t : t \in late <=> t \in shown /\ t > n
          /\ \A t : t \in before <=> t \in own /\ t < f.first
          /\ \A t : t \in left <=> t \in own /\ t >= f.first /\ t \notin shown
          /\ \A t : t \in misread <=> /\ t \in X /\ db.txn[t].type \in {"TRANSFER", "REVERSAL"}
                                      /\ db.txn[t].change > 0
          /\ \A t : t \in mirrors <=> t \in shown /\ t \notin own /\ t \notin late
          /\ \A t : t \in X <=> t \in own /\ t \in shown
          /\ \A t : t \in Y <=> t \in own /\ t \notin shown
          /\ \A t : t \in in <=> t \in X /\ db.txn[t].type = "DEPOSIT"
          /\ \A t : t \in out <=> t \in X /\ t \notin in
          /\ \A t : t \in credits <=> t \in shown /\ IsCredit(t, a)
          /\ \A t : t \in debits <=> t \in shown /\ ~IsCredit(t, a)
          /\ \A t : t \in early <=> t \in credits /\ t \notin late
          /\ \A t : t \in paid <=> t \in late /\ IsCredit(t, a)
          /\ \A t : t \in drawn <=> t \in late /\ ~IsCredit(t, a)
      OBVIOUS
    <2>5. own = RowsUntil(db, a, n)
      BY <2>2 DEF RowsUntil, RowsOf
    <2>6. page.balance = Total(c, own)
      BY <1>1, <2>5 DEF SumsInv
    <2>7. /\ OpeningBalance(page, shown) = page.balance - Amount(credits) + Amount(debits)
          /\ Credits(a, late) = Amount(paid) /\ Debits(a, late) = Amount(drawn)
      BY DEF OpeningBalance, Credits, Debits
    <2>8. \A t \in DOMAIN db.txn :
             /\ t \in Nat
             /\ db.txn[t].counterparty = a => db.txn[t].type = "TRANSFER" /\ db.txn[t].account # a
             /\ IsCredit(t, a) <=> \/ db.txn[t].type = "DEPOSIT"
                                   \/ db.txn[t].type = "TRANSFER" /\ db.txn[t].counterparty = a
      BY <2>1, RowColumns, PartnersTransfer DEF IsCredit
    <2> HIDE DEF a, n, shown, late, own, before, left, misread, mirrors, X, Y, in, out,
                 credits, debits, early, paid, drawn, c, m
    <2>9. \A t \in own : t \in X => (IsCredit(t, a) <=> t \in in)
      BY ONLY <2>2, <2>4, <2>8
    <2>10. \A t \in mirrors : IsCredit(t, a)
      <3>1. \A t \in mirrors : t \in DOMAIN db.txn /\ db.txn[t].counterparty = a
        BY ONLY <2>1, <2>2, <2>3, <2>4, <2>8
      <3>2. QED BY ONLY <2>8, <3>1
    <2>11. /\ own \in SUBSET DOMAIN db.txn /\ shown \in SUBSET DOMAIN db.txn
           /\ X \in SUBSET DOMAIN db.txn /\ Y \in SUBSET DOMAIN db.txn
           /\ before \in SUBSET DOMAIN db.txn /\ left \in SUBSET DOMAIN db.txn
           /\ misread \in SUBSET DOMAIN db.txn /\ mirrors \in SUBSET DOMAIN db.txn
           /\ in \in SUBSET DOMAIN db.txn /\ out \in SUBSET DOMAIN db.txn
           /\ credits \in SUBSET DOMAIN db.txn /\ debits \in SUBSET DOMAIN db.txn
           /\ early \in SUBSET DOMAIN db.txn
           /\ paid \in SUBSET DOMAIN db.txn /\ drawn \in SUBSET DOMAIN db.txn
      <3>1. own \in SUBSET DOMAIN db.txn /\ shown \in SUBSET DOMAIN db.txn
        BY ONLY <2>2, <2>3
      <3>2. /\ X \in SUBSET own /\ Y \in SUBSET own /\ before \in SUBSET own /\ left \in SUBSET own
            /\ mirrors \in SUBSET shown /\ credits \in SUBSET shown /\ debits \in SUBSET shown
            /\ late \in SUBSET shown
        BY ONLY <2>4
      <3>3. /\ misread \in SUBSET X /\ in \in SUBSET X /\ out \in SUBSET X
            /\ early \in SUBSET credits /\ paid \in SUBSET late /\ drawn \in SUBSET late
        BY ONLY <2>4
      <3>4. QED BY ONLY <3>1, <3>2, <3>3
    <2>12. ASSUME NEW S \in SUBSET DOMAIN db.txn
           PROVE  /\ IsFiniteSet(S) /\ \A t \in S : c[t] \in Int /\ m[t] \in Int
                  /\ Total(c, S) \in Int /\ Total(m, S) \in Int
                  /\ Change(S) = Total(c, S) /\ Amount(S) = Total(m, S)
      BY <2>1, RowsOfDatabase, RowSums, AmountTotal, ChangeTotal DEF c, m
    <2>13. Total(c, own) = Total(c, X) + Total(c, Y)
      <3>1. (\A t : t \in own <=> t \in X \/ t \in Y) /\ \A t \in X : t \notin Y
        BY ONLY <2>4
      <3>2. IsFiniteSet(own) /\ \A t \in own : c[t] \in Int
        BY <2>11, <2>12
      <3>3. QED BY ONLY <3>1, <3>2, TotalOfParts
    <2>14. Total(c, Y) = Total(c, before) + Total(c, left)
      <3>1. \A t : t \in Y <=> t \in before \/ t \in left
        <4>1. \A t \in own : t \in Nat
          BY ONLY <2>8, <2>11
        <4>2. QED BY ONLY <2>1, <2>3, <2>4, <4>1
      <3>2. \A t \in before : t \notin left
        <4>1. \A t \in own : t \in Nat
          BY ONLY <2>8, <2>11
        <4>2. QED BY ONLY <2>1, <2>4, <4>1
      <3>3. IsFiniteSet(Y) /\ \A t \in Y : c[t] \in Int
        BY <2>11, <2>12
      <3>4. QED BY ONLY <3>1, <3>2, <3>3, TotalOfParts
    <2>15. Total(m, credits) = Total(m, early) + Total(m, paid)
      <3>1. (\A t : t \in credits <=> t \in early \/ t \in paid) /\ \A t \in early : t \notin paid
        BY ONLY <2>4
      <3>2. IsFiniteSet(credits) /\ \A t \in credits : m[t] \in Int
        BY <2>11, <2>12
      <3>3. QED BY ONLY <3>1, <3>2, TotalOfParts
    <2>16. Total(m, early) = Total(m, in) + Total(m, mirrors)
      <3>1. \A t \in own : t \notin late
        <4>1. \A t \in own : t \in Nat /\ t <= n
          BY ONLY <2>2, <2>8
        <4>2. QED BY ONLY <2>1, <2>4, <4>1
      <3>2. \A t : t \in early <=> t \in in \/ t \in mirrors
        BY ONLY <2>4, <2>9, <2>10, <3>1
      <3>3. \A t \in in : t \notin mirrors
        BY ONLY <2>4
      <3>4. IsFiniteSet(early) /\ \A t \in early : m[t] \in Int
        BY <2>11, <2>12
      <3>5. QED BY ONLY <3>2, <3>3, <3>4, TotalOfParts
    <2>17. Total(m, debits) = Total(m, out) + Total(m, drawn)
      <3>1. \A t \in own : t \notin late
        <4>1. \A t \in own : t \in Nat /\ t <= n
          BY ONLY <2>2, <2>8
        <4>2. QED BY ONLY <2>1, <2>4, <4>1
      <3>2. \A t : t \in debits <=> t \in out \/ t \in drawn
        BY ONLY <2>4, <2>9, <2>10, <3>1
      <3>3. \A t \in out : t \notin drawn
        BY ONLY <2>4, <3>1
      <3>4. IsFiniteSet(debits) /\ \A t \in debits : m[t] \in Int
        BY <2>11, <2>12
      <3>5. QED BY ONLY <3>2, <3>3, <3>4, TotalOfParts
    <2>18. Total(c, X) - Total(m, in) + Total(m, out) = 2 * Total(c, misread)
      <3>1. X \in SUBSET RowsOf(db, a)
        BY ONLY <2>2, <2>4 DEF RowsOf
      <3>2. Total(ChangeOf(db), X) - Total(AmountOf(db), in) + Total(AmountOf(db), out)
              = 2 * Total(ChangeOf(db), misread)
        BY ONLY <2>1, <2>4, <3>1, ShownRows
      <3>3. QED BY <3>2 DEF c, m
    <2>19. /\ Change(before) = Total(c, before) /\ Change(left) = Total(c, left)
           /\ Change(misread) = Total(c, misread) /\ Amount(mirrors) = Total(m, mirrors)
           /\ Amount(credits) = Total(m, credits) /\ Amount(debits) = Total(m, debits)
           /\ Amount(paid) = Total(m, paid) /\ Amount(drawn) = Total(m, drawn)
      BY <2>11, <2>12
    <2>20. /\ Total(c, X) \in Int /\ Total(c, before) \in Int /\ Total(c, left) \in Int
           /\ Total(c, misread) \in Int /\ Total(m, in) \in Int /\ Total(m, out) \in Int
           /\ Total(m, mirrors) \in Int /\ Total(m, paid) \in Int /\ Total(m, drawn) \in Int
      BY <2>11, <2>12
    <2>21. OpeningBalance(page, shown)
             = Total(c, X) + Total(c, before) + Total(c, left) - Total(m, in) - Total(m, mirrors)
                 - Total(m, paid) + Total(m, out) + Total(m, drawn)
      BY ONLY <2>6, <2>7, <2>13, <2>14, <2>15, <2>16, <2>17, <2>19, <2>20
    <2>22. OpeningBalance(page, shown)
             = Change(before) + Change(left) + 2 * Change(misread) - Amount(mirrors)
                 - Credits(a, late) + Debits(a, late)
      BY ONLY <2>7, <2>18, <2>19, <2>20, <2>21
    <2>23. QED BY <2>22 DEF a, shown, late, own, before, left, misread, mirrors
  <1>2. QED BY <1>1, StatementSums, PTL
================================================================================
