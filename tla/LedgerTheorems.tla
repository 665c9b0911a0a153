---------------------------- MODULE LedgerTheorems ----------------------------
(***************************************************************************)
(* Lemmas about the operators of Ledger, for any finite set of entries:    *)
(* what sums over a set do when an element, or a set of them, is added,    *)
(* and that a mutation the wallet accepts keeps a ledger sound.            *)
(*                                                                         *)
(* The sums of the community modules are folds, defined by recursion over  *)
(* the subsets of a set.  What they compute is proved here by induction    *)
(* over finite sets, in the form that needs no operator parameter: a set   *)
(* of bad subsets that is not empty has a smallest member.                 *)
(***************************************************************************)
EXTENDS Ledger, FiniteSetTheorems, WellFoundedInduction, TLAPS

\* The sum of w over S, as the community modules define it.
Sum(w, S) == SumFunctionOnSet(w, S)

Pick(s) == CHOOSE x \in s : TRUE

\* g is the function the definition of the sum chooses.
Adds(g, w, S) ==
    g = [s \in SUBSET S |-> IF s = {} THEN 0 ELSE w[Pick(s)] + g[s \ {Pick(s)}]]

\* Induction over finite sets: among the subsets of a finite set that are bad, one
\* has no bad strict subset.
LEMMA MinimalSubset ==
    ASSUME NEW S, IsFiniteSet(S), NEW Bad \in SUBSET SUBSET S, Bad # {}
    PROVE  \E T \in Bad : \A U \in SUBSET T : U # T => U \notin Bad
<1>1. FiniteSubsetsOf(S) = SUBSET S
  BY FS_FiniteSubsetsOfFinite
<1>2. \E T \in Bad : \A U \in Bad : ~ (<<U, T>> \in StrictSubsetOrdering(S))
  BY <1>1, FS_StrictSubsetOrderingWellFounded, WFMin
<1>3. PICK T \in Bad : \A U \in Bad : ~ (<<U, T>> \in StrictSubsetOrdering(S))
  BY <1>2
<1>4. ASSUME NEW U \in SUBSET T, U # T, U \in Bad
      PROVE  FALSE
  BY <1>3, <1>4 DEF StrictSubsetOrdering
<1>. QED BY <1>4

\* Induction by one element at a time.
LEMMA SetInduction ==
    ASSUME NEW S, IsFiniteSet(S), NEW Good, {} \in Good,
           \A T \in SUBSET S : \A x \in S \ T : T \in Good => T \cup {x} \in Good
    PROVE  S \in Good
<1> DEFINE Bad == {T \in SUBSET S : T \notin Good}
<1>1. SUFFICES ASSUME Bad # {} PROVE FALSE
  OBVIOUS
<1>2. Bad \in SUBSET SUBSET S
  OBVIOUS
<1>3. \E T \in Bad : \A U \in SUBSET T : U # T => U \notin Bad
  <2> HIDE DEF Bad
  <2>. QED BY <1>1, <1>2, MinimalSubset
<1>4. PICK T \in Bad : \A U \in SUBSET T : U # T => U \notin Bad
  BY <1>3
<1>5. PICK x \in T : TRUE
  OBVIOUS
<1>6. T \ {x} \in Good /\ (T \ {x}) \cup {x} = T
  BY <1>4
<1>. QED BY <1>6

LEMMA PickIn == ASSUME NEW s, s # {} PROVE Pick(s) \in s
  BY DEF Pick

\* Two functions that add up agree where both are defined.
LEMMA AddsAgree ==
    ASSUME NEW w, NEW A, NEW B, IsFiniteSet(A), NEW g, NEW h, Adds(g, w, A), Adds(h, w, B),
           NEW S \in SUBSET A, S \in SUBSET B
    PROVE  g[S] = h[S]
<1> DEFINE Bad == {T \in SUBSET A : T \in SUBSET B /\ g[T] # h[T]}
<1>1. SUFFICES ASSUME Bad # {} PROVE FALSE
  OBVIOUS
<1>2. Bad \in SUBSET SUBSET A
  OBVIOUS
<1>3. \E T \in Bad : \A U \in SUBSET T : U # T => U \notin Bad
  <2> HIDE DEF Bad
  <2>. QED BY <1>1, <1>2, MinimalSubset
<1>4. PICK T \in Bad : \A U \in SUBSET T : U # T => U \notin Bad
  BY <1>3
<1>5. T \in SUBSET A /\ T \in SUBSET B /\ g[T] # h[T]
  OBVIOUS
<1>6. /\ g[T] = IF T = {} THEN 0 ELSE w[Pick(T)] + g[T \ {Pick(T)}]
      /\ h[T] = IF T = {} THEN 0 ELSE w[Pick(T)] + h[T \ {Pick(T)}]
  BY <1>5 DEF Adds
<1>7. T # {}
  BY <1>5, <1>6
<1>8. g[T \ {Pick(T)}] = h[T \ {Pick(T)}]
  BY <1>4, <1>5, <1>7, PickIn
<1>. QED BY <1>5, <1>6, <1>8

\* What the definition chooses.
LEMMA SumUnfolds ==
    ASSUME NEW w, NEW S
    PROVE  Sum(w, S) = (CHOOSE g : Adds(g, w, S))[S]
  BY DEF Sum, SumFunctionOnSet, FoldFunctionOnSet, MapThenFoldSet, Adds, Pick

\* There is such a function for every finite set.
LEMMA AddsExists ==
    ASSUME NEW w, NEW S, IsFiniteSet(S)
    PROVE  \E g : Adds(g, w, S)
<1> DEFINE Bad == {T \in SUBSET S : ~ \E g : Adds(g, w, T)}
<1>1. SUFFICES ASSUME Bad # {} PROVE FALSE
  OBVIOUS
<1>2. Bad \in SUBSET SUBSET S
  OBVIOUS
<1>3. \E T \in Bad : \A U \in SUBSET T : U # T => U \notin Bad
  <2> HIDE DEF Bad
  <2>. QED BY <1>1, <1>2, MinimalSubset
<1>4. PICK T \in Bad : \A U \in SUBSET T : U # T => U \notin Bad
  BY <1>3
<1>5. \A U \in SUBSET T : U # T => \E g : Adds(g, w, U)
  BY <1>4
<1> DEFINE G(U) == CHOOSE g : Adds(g, w, U)
           f == [s \in SUBSET T |-> IF s = T THEN IF T = {} THEN 0
                                                  ELSE w[Pick(T)] + G(T \ {Pick(T)})[T \ {Pick(T)}]
                                    ELSE G(s)[s]]
<1>6. \A U \in SUBSET T : U # T => Adds(G(U), w, U)
  BY <1>5
<1>7. ASSUME NEW s \in SUBSET T
      PROVE  f[s] = IF s = {} THEN 0 ELSE w[Pick(s)] + f[s \ {Pick(s)}]
  <2> HIDE DEF G
  <2>1. CASE s = T
    BY <2>1, PickIn
  <2>2. CASE s # T
    <3>1. f[s] = G(s)[s] /\ Adds(G(s), w, s)
      BY <2>2, <1>6
    <3>2. G(s)[s] = IF s = {} THEN 0 ELSE w[Pick(s)] + G(s)[s \ {Pick(s)}]
      BY <3>1 DEF Adds
    <3>3. CASE s = {}
      BY <3>1, <3>2, <3>3
    <3>4. CASE s # {}
      <4> DEFINE r == s \ {Pick(s)}
      <4>1. r \in SUBSET T /\ r # T /\ r \in SUBSET s
        BY <2>2, <3>4, PickIn
      <4>2. Adds(G(r), w, r) /\ f[r] = G(r)[r]
        BY <4>1, <1>6
      <4>3. IsFiniteSet(r)
        BY <4>1, FS_Subset, <1>4
      <4>4. G(r)[r] = G(s)[r]
        BY <4>1, <4>2, <4>3, <3>1, AddsAgree
      <4>. QED BY <3>1, <3>2, <3>4, <4>2, <4>4
    <3>. QED BY <3>3, <3>4
  <2>. QED BY <2>1, <2>2
<1>8. Adds(f, w, T)
  <2> HIDE DEF G
  <2>1. f = [s \in SUBSET T |-> f[s]]
    OBVIOUS
  <2>. QED BY <1>7, <2>1 DEF Adds
<1>. QED BY <1>4, <1>8

\* A sum takes out the element its definition picks.
LEMMA SumPicks ==
    ASSUME NEW w, NEW S, IsFiniteSet(S)
    PROVE  Sum(w, S) = IF S = {} THEN 0 ELSE w[Pick(S)] + Sum(w, S \ {Pick(S)})
<1> DEFINE G(U) == CHOOSE g : Adds(g, w, U)
           R == S \ {Pick(S)}
<1>1. IsFiniteSet(R)
  BY FS_Subset
<1>2. Adds(G(S), w, S) /\ Adds(G(R), w, R)
  BY <1>1, AddsExists
<1>3. Sum(w, S) = G(S)[S] /\ Sum(w, R) = G(R)[R]
  BY SumUnfolds
<1> HIDE DEF G
<1>4. G(S)[S] = IF S = {} THEN 0 ELSE w[Pick(S)] + G(S)[R]
  BY <1>2 DEF Adds
<1>5. G(R)[R] = G(S)[R]
  BY <1>1, <1>2, AddsAgree
<1>. QED BY <1>3, <1>4, <1>5

-----------------------------------------------------------------------------
LEMMA SumEmpty == ASSUME NEW w PROVE Sum(w, {}) = 0
  BY SumPicks, FS_EmptySet

\* Integers add up to an integer, naturals to a natural.
LEMMA SumType ==
    ASSUME NEW w, NEW S, IsFiniteSet(S)
    PROVE  /\ (\A x \in S : w[x] \in Int) => Sum(w, S) \in Int
           /\ (\A x \in S : w[x] \in Nat) => Sum(w, S) \in Nat
<1>1. ASSUME NEW R \in {Int, Nat}, \A x \in S : w[x] \in R
      PROVE  Sum(w, S) \in R
  <2> DEFINE Bad == {T \in SUBSET S : Sum(w, T) \notin R}
  <2>1. SUFFICES ASSUME Bad # {} PROVE FALSE
    OBVIOUS
  <2>2. Bad \in SUBSET SUBSET S
    OBVIOUS
  <2>3. \E T \in Bad : \A U \in SUBSET T : U # T => U \notin Bad
    <3> HIDE DEF Bad
    <3>. QED BY <2>1, <2>2, MinimalSubset
  <2>4. PICK T \in Bad : \A U \in SUBSET T : U # T => U \notin Bad
    BY <2>3
  <2>5. IsFiniteSet(T) /\ Sum(w, T) \notin R /\ 0 \in R
    BY FS_Subset
  <2>6. T # {}
    BY <2>5, SumEmpty
  <2>7. Pick(T) \in T
    BY <2>6, PickIn
  <2>8. Sum(w, T \ {Pick(T)}) \in R /\ w[Pick(T)] \in R
    BY <1>1, <2>4, <2>7
  <2>9. w[Pick(T)] + Sum(w, T \ {Pick(T)}) \in R
    BY <2>8
  <2>. QED BY <2>5, <2>6, <2>9, SumPicks
<1>. QED BY <1>1

\* Any element may be taken out first.
LEMMA SumRemove ==
    ASSUME NEW w, NEW S, IsFiniteSet(S), \A x \in S : w[x] \in Int, NEW x \in S
    PROVE  Sum(w, S) = w[x] + Sum(w, S \ {x})
<1> DEFINE Bad == {T \in SUBSET S : \E y \in T : Sum(w, T) # w[y] + Sum(w, T \ {y})}
<1>1. SUFFICES ASSUME Bad # {} PROVE FALSE
  OBVIOUS
<1>2. Bad \in SUBSET SUBSET S
  OBVIOUS
<1>3. \E T \in Bad : \A U \in SUBSET T : U # T => U \notin Bad
  <2> HIDE DEF Bad
  <2>. QED BY <1>1, <1>2, MinimalSubset
<1>4. PICK T \in Bad : \A U \in SUBSET T : U # T => U \notin Bad
  BY <1>3
<1>5. PICK y \in T : Sum(w, T) # w[y] + Sum(w, T \ {y})
  OBVIOUS
<1> DEFINE p == Pick(T)
           r == (T \ {p}) \ {y}
<1>6. p \in T /\ IsFiniteSet(T)
  BY PickIn, FS_Subset
<1>7. Sum(w, T) = w[p] + Sum(w, T \ {p})
  BY <1>6, SumPicks
<1> HIDE DEF p
<1>8. CASE p # y
  <2>1. Sum(w, T \ {p}) = w[y] + Sum(w, (T \ {p}) \ {y})
    BY <1>4, <1>6, <1>8
  <2>2. Sum(w, T \ {y}) = w[p] + Sum(w, (T \ {y}) \ {p})
    BY <1>4, <1>6, <1>8
  <2>3. (T \ {y}) \ {p} = (T \ {p}) \ {y}
    OBVIOUS
  <2>4. Sum(w, r) \in Int /\ w[p] \in Int /\ w[y] \in Int
    <3>1. IsFiniteSet(r) /\ r \subseteq S
      BY <1>6, FS_Subset
    <3>. QED BY <3>1, <1>6, SumType
  <2>5. Sum(w, T) = w[p] + (w[y] + Sum(w, r)) /\ Sum(w, T \ {y}) = w[p] + Sum(w, r)
    BY <1>7, <2>1, <2>2, <2>3
  <2> HIDE DEF r
  <2>. QED BY <1>5, <2>4, <2>5
<1>. QED BY <1>5, <1>7, <1>8

\* One element more.
LEMMA SumAdd ==
    ASSUME NEW w, NEW S, IsFiniteSet(S), NEW x, x \notin S, w[x] \in Int,
           \A y \in S : w[y] \in Int
    PROVE  Sum(w, S \cup {x}) = Sum(w, S) + w[x]
<1>1. IsFiniteSet(S \cup {x}) /\ (S \cup {x}) \ {x} = S
  BY FS_AddElement
<1>2. Sum(w, S \cup {x}) = w[x] + Sum(w, S)
  BY <1>1, SumRemove
<1>. QED BY <1>2, SumType

\* The sum depends on nothing but the values in the set.
LEMMA SumSame ==
    ASSUME NEW w, NEW v, NEW S, IsFiniteSet(S), \A x \in S : w[x] = v[x],
           \A x \in S : w[x] \in Int
    PROVE  Sum(w, S) = Sum(v, S)
<1> DEFINE Good == {T \in SUBSET S : Sum(w, T) = Sum(v, T)}
<1>1. {} \in Good
  BY SumEmpty
<1>2. ASSUME NEW T \in SUBSET S, NEW x \in S \ T, T \in Good
      PROVE  T \cup {x} \in Good
  <2>1. IsFiniteSet(T)
    BY FS_Subset
  <2>2. Sum(w, T \cup {x}) = Sum(w, T) + w[x] /\ Sum(v, T \cup {x}) = Sum(v, T) + v[x]
    BY <2>1, SumAdd
  <2>. QED BY <1>2, <2>2
<1>3. S \in Good
  <2> HIDE DEF Good
  <2>. QED BY <1>1, <1>2, SetInduction
<1>. QED BY <1>3

\* Sets without a common element add up.
LEMMA SumUnion ==
    ASSUME NEW w, NEW A, NEW B, IsFiniteSet(A), IsFiniteSet(B), A \cap B = {},
           \A x \in A \cup B : w[x] \in Int
    PROVE  Sum(w, A \cup B) = Sum(w, A) + Sum(w, B)
<1> DEFINE Good == {T \in SUBSET B : Sum(w, A \cup T) = Sum(w, A) + Sum(w, T)}
<1>1. {} \in Good
  BY SumEmpty, SumType
<1>2. ASSUME NEW T \in SUBSET B, NEW x \in B \ T, T \in Good
      PROVE  T \cup {x} \in Good
  <2>1. IsFiniteSet(T) /\ IsFiniteSet(A \cup T)
    BY FS_Subset, FS_Union
  <2>2. Sum(w, T \cup {x}) = Sum(w, T) + w[x]
    BY <2>1, SumAdd
  <2>3. Sum(w, (A \cup T) \cup {x}) = Sum(w, A \cup T) + w[x]
    BY <2>1, SumAdd
  <2>4. (A \cup T) \cup {x} = A \cup (T \cup {x})
    OBVIOUS
  <2>5. Sum(w, A) \in Int /\ Sum(w, T) \in Int /\ w[x] \in Int
    BY <2>1, SumType
  <2>6. Sum(w, A \cup T) = Sum(w, A) + Sum(w, T)
    BY <1>2
  <2>7. Sum(w, A \cup (T \cup {x})) = Sum(w, A \cup T) + w[x]
    BY <2>3, <2>4, Zenon
  <2>8. Sum(w, A \cup (T \cup {x})) = Sum(w, A) + Sum(w, T \cup {x})
    <3> DEFINE a == Sum(w, A)
               t == Sum(w, T)
               n == Sum(w, T \cup {x})
               m == Sum(w, A \cup T)
               l == Sum(w, A \cup (T \cup {x}))
    <3>1. a \in Int /\ t \in Int /\ n = t + w[x] /\ m = a + t /\ l = m + w[x]
      BY <2>2, <2>5, <2>6, <2>7
    <3> HIDE DEF a, t, n, m, l
    <3>2. l = a + n
      BY <2>5, <3>1
    <3>. QED BY <3>2 DEF a, n, l
  <2>. QED BY <2>8
<1>3. B \in Good
  <2> HIDE DEF Good
  <2>. QED BY <1>1, <1>2, SetInduction
<1>. QED BY <1>3

\* One value more by d adds d.
LEMMA SumBump ==
    ASSUME NEW w, NEW v, NEW S, IsFiniteSet(S), NEW x \in S, NEW d \in Int,
           \A y \in S : w[y] \in Int, v[x] = w[x] + d, \A y \in S \ {x} : v[y] = w[y]
    PROVE  Sum(v, S) = Sum(w, S) + d
<1>1. IsFiniteSet(S \ {x}) /\ \A y \in S : v[y] \in Int
  BY FS_Subset
<1>2. Sum(v, S \ {x}) = Sum(w, S \ {x}) /\ Sum(w, S \ {x}) \in Int
  BY <1>1, SumSame, SumType
<1>3. Sum(v, S) = v[x] + Sum(v, S \ {x}) /\ Sum(w, S) = w[x] + Sum(w, S \ {x})
  BY <1>1, SumRemove
<1>. QED BY <1>2, <1>3

\* Counted element by element or through a one-to-one function.
LEMMA SumImage ==
    ASSUME NEW w, NEW S, IsFiniteSet(S), NEW f,
           \A x, y \in S : f[x] = f[y] => x = y, \A x \in S : w[f[x]] \in Int
    PROVE  Sum(w, {f[x] : x \in S}) = Sum([x \in S |-> w[f[x]]], S)
<1> DEFINE v == [x \in S |-> w[f[x]]]
           I(T) == {f[x] : x \in T}
           Good == {T \in SUBSET S : Sum(w, I(T)) = Sum(v, T)}
<1>1. {} \in Good
  <2>1. I({}) = {}
    OBVIOUS
  <2>. QED BY <2>1, SumEmpty
<1>2. ASSUME NEW T \in SUBSET S, NEW x \in S \ T, T \in Good
      PROVE  T \cup {x} \in Good
  <2>1. IsFiniteSet(T)
    BY FS_Subset
  <2>2. IsFiniteSet(I(T))
    <3> DEFINE h == [y \in T |-> f[y]]
    <3>1. h \in Surjection(T, I(T))
      BY DEF Surjection
    <3> HIDE DEF h, I
    <3>. QED BY <2>1, <3>1, FS_Surjection
  <2>3. \A y \in S : v[y] \in Int /\ v[y] = w[f[y]]
    OBVIOUS
  <2>4. I(T \cup {x}) = I(T) \cup {f[x]} /\ f[x] \notin I(T) /\ \A y \in I(T) : w[y] \in Int
    OBVIOUS
  <2>5. Sum(w, I(T)) = Sum(v, T)
    BY <1>2
  <2> HIDE DEF I, v
  <2>6. Sum(v, T \cup {x}) = Sum(v, T) + v[x]
    BY <2>1, <2>3, SumAdd
  <2>7. Sum(w, I(T \cup {x})) = Sum(w, I(T)) + w[f[x]]
    BY <2>2, <2>4, SumAdd
  <2>. QED BY <2>3, <2>5, <2>6, <2>7
<1>3. S \in Good
  <2> HIDE DEF Good
  <2>. QED BY <1>1, <1>2, SetInduction
<1>. QED BY <1>3

\* The sum of sums.
LEMMA SumPlus ==
    ASSUME NEW w, NEW v, NEW z, NEW S, IsFiniteSet(S),
           \A x \in S : w[x] \in Int /\ v[x] \in Int /\ z[x] = w[x] + v[x]
    PROVE  Sum(z, S) = Sum(w, S) + Sum(v, S)
<1> DEFINE Good == {T \in SUBSET S : Sum(z, T) = Sum(w, T) + Sum(v, T)}
<1>1. {} \in Good
  BY SumEmpty
<1>2. ASSUME NEW T \in SUBSET S, NEW x \in S \ T, T \in Good
      PROVE  T \cup {x} \in Good
  <2> DEFINE A == T \cup {x}
  <2>1. IsFiniteSet(T)
    BY FS_Subset
  <2>2. \A y \in S : z[y] \in Int
    OBVIOUS
  <2>3. Sum(w, A) = Sum(w, T) + w[x] /\ Sum(v, A) = Sum(v, T) + v[x] /\ Sum(z, A) = Sum(z, T) + z[x]
    BY <2>1, <2>2, SumAdd
  <2>4. Sum(w, T) \in Int /\ Sum(v, T) \in Int
    BY <2>1, SumType
  <2>5. Sum(z, T) = Sum(w, T) + Sum(v, T) /\ w[x] \in Int /\ v[x] \in Int /\ z[x] = w[x] + v[x]
    BY <1>2
  <2> HIDE DEF A
  <2>6. Sum(z, A) = Sum(w, A) + Sum(v, A)
    BY <2>3, <2>4, <2>5
  <2>. QED BY <2>6 DEF A
<1>3. S \in Good
  <2> HIDE DEF Good
  <2>. QED BY <1>1, <1>2, SetInduction
<1>. QED BY <1>3

\* Zeros add up to zero.
LEMMA SumZero ==
    ASSUME NEW w, NEW S, IsFiniteSet(S), \A x \in S : w[x] = 0
    PROVE  Sum(w, S) = 0
<1> DEFINE Good == {T \in SUBSET S : Sum(w, T) = 0}
<1>1. {} \in Good
  BY SumEmpty
<1>2. ASSUME NEW T \in SUBSET S, NEW x \in S \ T, T \in Good
      PROVE  T \cup {x} \in Good
  BY <1>2, SumAdd, FS_Subset
<1>3. S \in Good
  <2> HIDE DEF Good
  <2>. QED BY <1>1, <1>2, SetInduction
<1>. QED BY <1>3

-----------------------------------------------------------------------------
(* Cents and balances.                                                     *)

\* A finite set of entries with amounts and types that make sense.
Countable(E) ==
    IsFiniteSet(E) /\ \A e \in E : e.amount \in Int /\ e.type \in EntryTypes

LEMMA CountableUnion ==
    ASSUME NEW E, NEW F, Countable(E), Countable(F)
    PROVE  Countable(E \cup F)
  BY FS_Union DEF Countable

LEMMA CountableAdd ==
    ASSUME NEW E, Countable(E), NEW e, e.amount \in Int, e.type \in EntryTypes
    PROVE  Countable(E \cup {e})
  BY FS_AddElement DEF Countable

\* The cents of a part of a set of entries.
LEMMA CentsIsSum ==
    ASSUME NEW B, NEW E \in SUBSET B, IsFiniteSet(E), \A e \in E : e.amount \in Int
    PROVE  Cents(E) = Sum([e \in B |-> e.amount], E)
<1>1. Cents(E) = Sum([e \in E |-> e.amount], E)
  BY DEF Cents, Sum, SumFunction
<1>2. Sum([e \in E |-> e.amount], E) = Sum([e \in B |-> e.amount], E)
  BY SumSame
<1>. QED BY <1>1, <1>2

LEMMA CentsType ==
    ASSUME NEW E, IsFiniteSet(E), \A e \in E : e.amount \in Int
    PROVE  Cents(E) \in Int
  BY CentsIsSum, SumType

LEMMA CentsEmpty == Cents({}) = 0
  BY CentsIsSum, SumEmpty, FS_EmptySet

\* Two sets without a common entry.
LEMMA CentsUnion ==
    ASSUME NEW E, NEW F, IsFiniteSet(E), IsFiniteSet(F), E \cap F = {},
           \A e \in E \cup F : e.amount \in Int
    PROVE  Cents(E \cup F) = Cents(E) + Cents(F)
<1> DEFINE w == [e \in E \cup F |-> e.amount]
<1>1. Cents(E) = Sum(w, E) /\ Cents(F) = Sum(w, F) /\ Cents(E \cup F) = Sum(w, E \cup F)
  BY CentsIsSum, FS_Union
<1>2. \A e \in E \cup F : w[e] \in Int
  OBVIOUS
<1> HIDE DEF w
<1>. QED BY <1>1, <1>2, SumUnion

\* One entry more.
LEMMA CentsAdd ==
    ASSUME NEW E, IsFiniteSet(E), NEW e, e \notin E, \A x \in E \cup {e} : x.amount \in Int
    PROVE  Cents(E \cup {e}) = Cents(E) + e.amount
<1> DEFINE w == [x \in E \cup {e} |-> x.amount]
<1>1. IsFiniteSet(E \cup {e})
  BY FS_AddElement
<1>2. Cents(E) = Sum(w, E) /\ Cents(E \cup {e}) = Sum(w, E \cup {e})
  BY <1>1, CentsIsSum
<1>3. \A x \in E \cup {e} : w[x] \in Int /\ w[x] = x.amount
  OBVIOUS
<1> HIDE DEF w
<1>. QED BY <1>2, <1>3, SumAdd

\* A single entry weighs its amount.
LEMMA CentsOfOne ==
    ASSUME NEW e, e.amount \in Int
    PROVE  Cents({e}) = e.amount
<1>1. Cents({} \cup {e}) = Cents({}) + e.amount
  BY CentsAdd, FS_EmptySet
<1>. QED BY <1>1, CentsEmpty

\* A new entry counts for its user and its type.
LEMMA TotalAdd ==
    ASSUME NEW E, Countable(E), NEW e, e \notin E, e.amount \in Int, NEW u, NEW types
    PROVE  /\ Total(E, u, types) \in Int
           /\ Total(E \cup {e}, u, types) =
                 Total(E, u, types) + IF e.user = u /\ e.type \in types THEN e.amount ELSE 0
<1> DEFINE P(X) == {x \in X : x.user = u /\ x.type \in types}
<1>1. IsFiniteSet(P(E)) /\ \A x \in P(E) \cup {e} : x.amount \in Int
  BY FS_Subset DEF Countable
<1>2. e \notin P(E)
  OBVIOUS
<1>3. Cents(P(E)) \in Int
  BY <1>1, CentsType
<1>4. CASE e.user = u /\ e.type \in types
  <2>1. P(E \cup {e}) = P(E) \cup {e}
    BY <1>4
  <2> HIDE DEF P
  <2>2. Cents(P(E \cup {e})) = Cents(P(E)) + e.amount
    BY <1>1, <1>2, <2>1, CentsAdd
  <2>. QED BY <1>3, <1>4, <2>2 DEF Total, P
<1>5. CASE ~(e.user = u /\ e.type \in types)
  <2>1. P(E \cup {e}) = P(E)
    BY <1>5
  <2>2. Total(E, u, types) = Cents(P(E)) /\ Total(E \cup {e}, u, types) = Cents(P(E \cup {e}))
    BY DEF Total
  <2> HIDE DEF P
  <2>. QED BY <1>3, <1>5, <2>1, <2>2
<1>. QED BY <1>4, <1>5

\* A new entry changes the balances of its user's wallet by what it applies.
LEMMA BalanceAdd ==
    ASSUME NEW E, Countable(E), NEW e, e \notin E, e.amount \in Int, e.type \in EntryTypes,
           NEW u
    PROVE  Balance(E \cup {e}, u) =
               IF e.user = u THEN Applied(Balance(E, u), e.type, e.amount) ELSE Balance(E, u)
<1> DEFINE T(X, types) == Total(X, u, types)
           N == E \cup {e}
           In  == {"DEPOSIT", "RELEASE", "SETTLE_CREDIT"}
           Out == {"WITHDRAW", "RESERVE"}
           Res == {"RESERVE"}
           Fin == {"RELEASE", "SETTLE_DEBIT"}
<1>1. \A types : /\ T(E, types) \in Int
                 /\ T(N, types) = T(E, types)
                       + IF e.user = u /\ e.type \in types THEN e.amount ELSE 0
  BY TotalAdd
<1>2. /\ Balance(E, u) = [available |-> T(E, In) - T(E, Out), reserved |-> T(E, Res) - T(E, Fin)]
      /\ Balance(N, u) = [available |-> T(N, In) - T(N, Out), reserved |-> T(N, Res) - T(N, Fin)]
  BY DEF Balance
<1> HIDE DEF T, N
<1>3. CASE e.user # u
  <2>1. \A types : T(N, types) = T(E, types)
    BY <1>1, <1>3
  <2>2. Balance(N, u) = Balance(E, u)
    BY <1>2, <2>1
  <2>. QED BY <1>3, <2>2 DEF N
<1>4. CASE e.user = u
  <2>1. /\ T(E, In) \in Int /\ T(E, Out) \in Int /\ T(E, Res) \in Int /\ T(E, Fin) \in Int
        /\ T(N, In)  = T(E, In)  + IF e.type \in In  THEN e.amount ELSE 0
        /\ T(N, Out) = T(E, Out) + IF e.type \in Out THEN e.amount ELSE 0
        /\ T(N, Res) = T(E, Res) + IF e.type \in Res THEN e.amount ELSE 0
        /\ T(N, Fin) = T(E, Fin) + IF e.type \in Fin THEN e.amount ELSE 0
    BY <1>1, <1>4
  <2>2. Balance(N, u) = Applied(Balance(E, u), e.type, e.amount)
    <3>1. CASE e.type = "DEPOSIT"
      BY <3>1, <1>2, <2>1 DEF Applied
    <3>2. CASE e.type = "WITHDRAW"
      BY <3>2, <1>2, <2>1 DEF Applied
    <3>3. CASE e.type = "RESERVE"
      BY <3>3, <1>2, <2>1 DEF Applied
    <3>4. CASE e.type = "RELEASE"
      BY <3>4, <1>2, <2>1 DEF Applied
    <3>5. CASE e.type = "SETTLE_DEBIT"
      BY <3>5, <1>2, <2>1 DEF Applied
    <3>6. CASE e.type = "SETTLE_CREDIT"
      BY <3>6, <1>2, <2>1 DEF Applied
    <3>. QED BY <3>1, <3>2, <3>3, <3>4, <3>5, <3>6 DEF EntryTypes
  <2>. QED BY <1>4, <2>2 DEF N
<1>. QED BY <1>3, <1>4

\* Balances are integers.
LEMMA BalanceType ==
    ASSUME NEW E, Countable(E), NEW u
    PROVE  Balance(E, u).available \in Int /\ Balance(E, u).reserved \in Int
<1>1. ASSUME NEW types
      PROVE  Total(E, u, types) \in Int
  BY FS_Subset, CentsType DEF Countable, Total
<1>. QED BY <1>1 DEF Balance

\* No entries, no balance.
LEMMA BalanceEmpty == ASSUME NEW u PROVE Balance({}, u) = EmptyWallet
<1>1. \A types : Total({}, u, types) = 0
  BY CentsEmpty DEF Total
<1>. QED BY <1>1 DEF Balance, EmptyWallet

\* The balances of a user depend on the entries of that user alone.
LEMMA BalanceOfUser ==
    ASSUME NEW E, NEW F, NEW u, {e \in E : e.user = u} = {e \in F : e.user = u}
    PROVE  Balance(E, u) = Balance(F, u)
<1>1. ASSUME NEW types
      PROVE  Total(E, u, types) = Total(F, u, types)
  <2>1. {e \in E : e.user = u /\ e.type \in types} = {e \in F : e.user = u /\ e.type \in types}
    OBVIOUS
  <2>. QED BY <2>1 DEF Total
<1>. QED BY <1>1 DEF Balance

\* A mutation the wallet accepts keeps the ledger sound and its entries countable,
\* whether it is applied or taken for a replay.
LEMMA PostedSound ==
    ASSUME NEW L, Sound(L), Countable(L.entries),
           NEW e, e.type \in EntryTypes, Accepted(L, e)
    PROVE  LET M == Posted(L, e)
           IN  /\ Sound(M) /\ Countable(M.entries)
               /\ DOMAIN M.wallet = DOMAIN L.wallet
               /\ L.entries \subseteq M.entries
<1> DEFINE M == Posted(L, e)
<1>1. CASE Replayed(L, e)
  BY <1>1 DEF Posted
<1>2. CASE ~Replayed(L, e)
  <2> DEFINE w == Applied(L.wallet[e.user], e.type, e.amount)
  <2>1. /\ M.wallet = [L.wallet EXCEPT ![e.user] = w]
        /\ M.entries = L.entries \cup {e}
        /\ e \notin L.entries /\ e.amount \in Int
    BY <1>2 DEF Posted, Replayed, Accepted
  <2>2. /\ e.user \in DOMAIN L.wallet /\ e.amount \in Nat \ {0} /\ Fits(w)
        /\ \A x \in L.entries : ~(x.user = e.user /\ x.key = e.key)
    BY <1>2 DEF Accepted, Replayed
  <2>3. Countable(M.entries)
    BY <2>1, <2>2, FS_AddElement DEF Countable
  <2>4. OneEntryPerKey(M.entries)
    BY <2>1, <2>2 DEF Sound, OneEntryPerKey
  <2>5. ASSUME NEW u \in DOMAIN L.wallet
        PROVE  M.wallet[u] = Balance(M.entries, u) /\ Fits(M.wallet[u])
    <3>1. L.wallet[u] = Balance(L.entries, u) /\ Fits(L.wallet[u])
      BY DEF Sound
    <3>2. Balance(M.entries, u) = IF e.user = u THEN Applied(Balance(L.entries, u), e.type, e.amount)
                                  ELSE Balance(L.entries, u)
      BY <2>1, BalanceAdd
    <3>3. M.wallet[u] = IF e.user = u THEN w ELSE L.wallet[u]
      BY <2>1, <2>2
    <3> HIDE DEF M
    <3>. QED BY <2>2, <3>1, <3>2, <3>3
  <2>6. DOMAIN M.wallet = DOMAIN L.wallet
    BY <2>1
  <2>7. \A x \in M.entries : x.user \in DOMAIN M.wallet /\ x.amount \in Nat \ {0}
    BY <2>1, <2>2, <2>6 DEF Sound
  <2>. QED BY <2>1, <2>3, <2>4, <2>5, <2>6, <2>7 DEF Sound
<1>. QED BY <1>1, <1>2

\* Two mutations in one transaction.
LEMMA BothPostedSound ==
    ASSUME NEW L, Sound(L), Countable(L.entries),
           NEW e, NEW f, e.type \in EntryTypes, f.type \in EntryTypes, BothAccepted(L, e, f)
    PROVE  LET M == BothPosted(L, e, f)
           IN  /\ Sound(M) /\ Countable(M.entries)
               /\ DOMAIN M.wallet = DOMAIN L.wallet
               /\ L.entries \subseteq M.entries
<1> DEFINE K == Posted(L, e)
<1>1. Accepted(L, e) /\ Accepted(K, f)
  BY DEF BothAccepted
<1>2. /\ Sound(K) /\ Countable(K.entries)
      /\ DOMAIN K.wallet = DOMAIN L.wallet /\ L.entries \subseteq K.entries
  BY <1>1, PostedSound
<1> HIDE DEF K
<1>3. LET M == Posted(K, f)
      IN  /\ Sound(M) /\ Countable(M.entries)
          /\ DOMAIN M.wallet = DOMAIN K.wallet
          /\ K.entries \subseteq M.entries
  BY <1>1, <1>2, PostedSound
<1>. QED BY <1>2, <1>3 DEF BothPosted, K

\* A set of new credits raises what is available by their cents.
LEMMA BalanceCredit ==
    ASSUME NEW E, NEW F, Countable(E), Countable(F), E \cap F = {},
           \A f \in F : f.type = "SETTLE_CREDIT", NEW u
    PROVE  Balance(E \cup F, u) =
               [available |-> Balance(E, u).available + Cents({f \in F : f.user = u}),
                reserved  |-> Balance(E, u).reserved]
<1> DEFINE P(X, types) == {x \in X : x.user = u /\ x.type \in types}
<1>1. ASSUME NEW types
      PROVE  /\ Total(E, u, types) \in Int
             /\ Total(E \cup F, u, types) = Total(E, u, types) + Cents(P(F, types))
  <2>1. P(E \cup F, types) = P(E, types) \cup P(F, types)
    OBVIOUS
  <2>2. /\ IsFiniteSet(P(E, types)) /\ IsFiniteSet(P(F, types))
        /\ P(E, types) \cap P(F, types) = {}
        /\ \A x \in P(E, types) \cup P(F, types) : x.amount \in Int
    BY FS_Subset DEF Countable
  <2>3. /\ Total(E, u, types) = Cents(P(E, types))
        /\ Total(E \cup F, u, types) = Cents(P(E \cup F, types))
    BY DEF Total
  <2> HIDE DEF P
  <2>. QED BY <2>1, <2>2, <2>3, CentsUnion, CentsType
<1>2. ASSUME NEW types, "SETTLE_CREDIT" \notin types
      PROVE  Total(E \cup F, u, types) = Total(E, u, types)
  <2>1. P(F, types) = {}
    BY <1>2
  <2>2. Cents(P(F, types)) = 0
    BY <2>1, CentsEmpty
  <2>3. /\ Total(E, u, types) \in Int
        /\ Total(E \cup F, u, types) = Total(E, u, types) + Cents(P(F, types))
    BY <1>1
  <2> HIDE DEF P
  <2>. QED BY <2>2, <2>3
<1>3. ASSUME NEW types, "SETTLE_CREDIT" \in types
      PROVE  P(F, types) = {f \in F : f.user = u}
  BY <1>3
<1>4. Cents({f \in F : f.user = u}) \in Int
  BY FS_Subset, CentsType DEF Countable
<1> DEFINE In  == {"DEPOSIT", "RELEASE", "SETTLE_CREDIT"}
           Out == {"WITHDRAW", "RESERVE"}
           Res == {"RESERVE"}
           Fin == {"RELEASE", "SETTLE_DEBIT"}
           c == Cents({f \in F : f.user = u})
           N == E \cup F
<1>5. /\ Total(N, u, In) = Total(E, u, In) + c
      /\ Total(N, u, Out) = Total(E, u, Out) /\ Total(N, u, Res) = Total(E, u, Res)
      /\ Total(N, u, Fin) = Total(E, u, Fin)
      /\ Total(E, u, In) \in Int /\ Total(E, u, Out) \in Int
      /\ Total(E, u, Res) \in Int /\ Total(E, u, Fin) \in Int
  <2> HIDE DEF P
  <2>1. Total(N, u, In) = Total(E, u, In) + Cents(P(F, In)) /\ P(F, In) = {f \in F : f.user = u}
    BY <1>1, <1>3
  <2>. QED BY <1>1, <1>2, <2>1
<1> HIDE DEF N, c
<1>6. Balance(N, u) = [available |-> Balance(E, u).available + c, reserved |-> Balance(E, u).reserved]
  BY <1>4, <1>5 DEF Balance, c
<1>. QED BY <1>6 DEF N, c

\* The cents of the entries of a type.
OfType(E, type) == Cents({e \in E : e.type = type})

LEMMA OfTypeAdd ==
    ASSUME NEW E, Countable(E), NEW e, e \notin E, e.amount \in Int, NEW type
    PROVE  /\ OfType(E, type) \in Int
           /\ OfType(E \cup {e}, type) = OfType(E, type) + IF e.type = type THEN e.amount ELSE 0
<1> DEFINE P(X) == {x \in X : x.type = type}
<1>1. IsFiniteSet(P(E)) /\ e \notin P(E) /\ \A x \in P(E) \cup {e} : x.amount \in Int
  BY FS_Subset DEF Countable
<1>2. Cents(P(E)) \in Int
  BY <1>1, CentsType
<1>3. OfType(E, type) = Cents(P(E)) /\ OfType(E \cup {e}, type) = Cents(P(E \cup {e}))
  BY DEF OfType
<1>4. P(E \cup {e}) = IF e.type = type THEN P(E) \cup {e} ELSE P(E)
  OBVIOUS
<1> HIDE DEF P
<1>5. CASE e.type = type
  <2>1. Cents(P(E) \cup {e}) = Cents(P(E)) + e.amount
    BY <1>1, CentsAdd
  <2>. QED BY <1>2, <1>3, <1>4, <1>5, <2>1
<1>6. CASE e.type # type
  BY <1>2, <1>3, <1>4, <1>6
<1>. QED BY <1>5, <1>6

\* All balances together are what came in and was credited, less what went out and
\* was debited: reservations and releases move cents within a wallet.
LEMMA BalancesAddUp ==
    ASSUME IsFiniteSet(Users), NEW E, Countable(E), \A e \in E : e.user \in Users
    PROVE  Sum([u \in Users |-> Balance(E, u).available + Balance(E, u).reserved], Users) =
               OfType(E, "DEPOSIT") + OfType(E, "SETTLE_CREDIT")
               - OfType(E, "WITHDRAW") - OfType(E, "SETTLE_DEBIT")
<1> DEFINE b(F) == [u \in Users |-> Balance(F, u).available + Balance(F, u).reserved]
           d(F) == OfType(F, "DEPOSIT") + OfType(F, "SETTLE_CREDIT")
                   - OfType(F, "WITHDRAW") - OfType(F, "SETTLE_DEBIT")
           Good == {F \in SUBSET E : Sum(b(F), Users) = d(F)}
<1>1. {} \in Good
  <2>1. \A u \in Users : b({})[u] = 0
    BY BalanceEmpty DEF EmptyWallet
  <2>2. \A type : OfType({}, type) = 0
    BY CentsEmpty DEF OfType
  <2>3. d({}) = 0
    BY <2>2
  <2> HIDE DEF b, d
  <2>. QED BY <2>1, <2>3, SumZero
<1>2. ASSUME NEW F \in SUBSET E, NEW e \in E \ F, F \in Good
      PROVE  F \cup {e} \in Good
  <2> DEFINE N == F \cup {e}
             c == CASE e.type \in {"DEPOSIT", "SETTLE_CREDIT"} -> e.amount
                    [] e.type \in {"WITHDRAW", "SETTLE_DEBIT"} -> -e.amount
                    [] e.type \in {"RESERVE", "RELEASE"} -> 0
  <2>1. Countable(F) /\ e.amount \in Int /\ e.type \in EntryTypes /\ e.user \in Users
    BY FS_Subset DEF Countable
  <2>2. \A u \in Users : /\ Balance(F, u).available \in Int /\ Balance(F, u).reserved \in Int
                         /\ b(F)[u] = Balance(F, u).available + Balance(F, u).reserved
                         /\ b(N)[u] = Balance(N, u).available + Balance(N, u).reserved
    BY <2>1, BalanceType
  <2>3. \A u \in Users : Balance(N, u) = IF e.user = u THEN Applied(Balance(F, u), e.type, e.amount)
                                         ELSE Balance(F, u)
    BY <2>1, BalanceAdd
  <2>4. \A type : /\ OfType(F, type) \in Int
                  /\ OfType(N, type) = OfType(F, type) + IF e.type = type THEN e.amount ELSE 0
    BY <2>1, OfTypeAdd
  <2>5. Sum(b(F), Users) = d(F)
    BY <1>2
  <2>6. c \in Int /\ d(N) = d(F) + c
    <3> HIDE DEF N
    <3>1. CASE e.type = "DEPOSIT"
      BY <2>1, <2>4, <3>1
    <3>2. CASE e.type = "WITHDRAW"
      BY <2>1, <2>4, <3>2
    <3>3. CASE e.type = "RESERVE"
      BY <2>1, <2>4, <3>3
    <3>4. CASE e.type = "RELEASE"
      BY <2>1, <2>4, <3>4
    <3>5. CASE e.type = "SETTLE_DEBIT"
      BY <2>1, <2>4, <3>5
    <3>6. CASE e.type = "SETTLE_CREDIT"
      BY <2>1, <2>4, <3>6
    <3>. QED BY <2>1, <3>1, <3>2, <3>3, <3>4, <3>5, <3>6 DEF EntryTypes
  <2>7. b(N)[e.user] = b(F)[e.user] + c
    <3> DEFINE w == Balance(F, e.user)
               v == Balance(N, e.user)
    <3>1. /\ w.available \in Int /\ w.reserved \in Int
          /\ b(F)[e.user] = w.available + w.reserved
          /\ b(N)[e.user] = v.available + v.reserved
          /\ v = Applied(w, e.type, e.amount)
      BY <2>1, <2>2, <2>3
    <3> HIDE DEF b, N, w, v
    <3>2. CASE e.type = "DEPOSIT"
      BY <2>1, <3>1, <3>2 DEF Applied
    <3>3. CASE e.type = "WITHDRAW"
      BY <2>1, <3>1, <3>3 DEF Applied
    <3>4. CASE e.type = "RESERVE"
      BY <2>1, <3>1, <3>4 DEF Applied
    <3>5. CASE e.type = "RELEASE"
      BY <2>1, <3>1, <3>5 DEF Applied
    <3>6. CASE e.type = "SETTLE_DEBIT"
      BY <2>1, <3>1, <3>6 DEF Applied
    <3>7. CASE e.type = "SETTLE_CREDIT"
      BY <2>1, <3>1, <3>7 DEF Applied
    <3>. QED BY <2>1, <3>2, <3>3, <3>4, <3>5, <3>6, <3>7 DEF EntryTypes
  <2>8. \A u \in Users \ {e.user} : b(N)[u] = b(F)[u]
    BY <2>2, <2>3
  <2>9. \A u \in Users : b(F)[u] \in Int
    BY <2>2
  <2> DEFINE bF == b(F)
             bN == b(N)
  <2>10. Sum(bN, Users) = Sum(bF, Users) + c
    <3>1. /\ bN[e.user] = bF[e.user] + c /\ \A u \in Users \ {e.user} : bN[u] = bF[u]
          /\ \A u \in Users : bF[u] \in Int
      BY <2>7, <2>8, <2>9
    <3> HIDE DEF bF, bN, c
    <3>. QED BY <2>1, <2>6, <3>1, SumBump
  <2>11. Sum(b(N), Users) = d(N)
    <3>1. Sum(b(N), Users) = Sum(b(F), Users) + c
      BY <2>10
    <3> HIDE DEF b, d, c, N
    <3>. QED BY <2>5, <2>6, <3>1
  <2>. QED BY <2>11
<1>3. E \in Good
  <2> HIDE DEF Good
  <2>1. IsFiniteSet(E)
    BY DEF Countable
  <2>. QED BY <1>1, <1>2, <2>1, SetInduction
<1>. QED BY <1>3
=============================================================================
