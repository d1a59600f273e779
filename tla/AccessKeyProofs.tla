---------------------------- MODULE AccessKeyProofs ----------------------------
(***************************************************************************)
(* What a wallet gets from a picture of a data page, for pages with fields *)
(* of any length and pictures with any misreads: from a good picture the   *)
(* page's own key, and from one with look-alikes at worst a wrong number.  *)
(*                                                                         *)
(* That a good picture gives the page's key depends on no check digit: a   *)
(* page satisfies its own, corrections go from the picture to the page when *)
(* look-alikes are all that is wrong, and no other text comes before one    *)
(* that needs no correction.  What a bad one can give does: sums over the   *)
(* characters are folds, which are shown to have solutions, and two texts   *)
(* that differ in one character have sums that differ by what it weighs.    *)
(* That there is a best reading at all is shown from the ranks: rows of     *)
(* numbers, of one length and all different, so that one is the first.      *)
(***************************************************************************)
EXTENDS AccessKey, TLAPS, FiniteSetTheorems, SequenceTheorems, WellFoundedInduction

Dates == {"birth", "expiry"}

-----------------------------------------------------------------------------
(* Numbers, and folds over finite sets.                                    *)

\* A set of natural numbers has a least one.
LEMMA LeastNumber ==
    ASSUME NEW S \in SUBSET Nat, S # {}
    PROVE  \E n \in S : \A m \in S : n <= m
<1>1. \E n \in S : \A m \in S : ~(<<m, n>> \in OpToRel(<, Nat))
  BY NatLessThanWellFounded, WFMin
<1>2. \A m, n \in Nat : m < n => <<m, n>> \in OpToRel(<, Nat)
  BY DEF OpToRel
<1>3. \E n \in S : \A m \in S : ~(m < n)
  BY <1>1, <1>2
<1> QED BY <1>3

\* A set that has zero, and with every number the next, has them all.
LEMMA CountingUp ==
    ASSUME NEW G, 0 \in G, \A n \in Nat : n \in G => n + 1 \in G
    PROVE  Nat \subseteq G
<1> SUFFICES ASSUME Nat \ G # {}
             PROVE  FALSE
  OBVIOUS
<1>1. PICK n \in Nat \ G : \A m \in Nat \ G : n <= m
  BY LeastNumber
<1>2. n # 0 /\ n - 1 \in Nat
  BY <1>1
<1>3. n - 1 \in G
  BY <1>1, <1>2
<1> QED BY <1>1, <1>2, <1>3

\* A set of numbers that is finite has a greatest one.
LEMMA GreatestNumber ==
    ASSUME NEW n \in Nat, NEW S \in SUBSET (1 .. n), S # {}
    PROVE  Max(S) \in S
<1> DEFINE T == {n - k : k \in S}
<1>1. \E t \in T : \A u \in T : t <= u
  <2>1. \A k \in S : n - k \in Nat
    OBVIOUS
  <2>2. T \in SUBSET Nat /\ T # {}
    BY <2>1
  <2> QED BY <2>2, LeastNumber
<1>2. PICK k \in S : \A l \in S : n - k <= n - l
  BY <1>1
<1>3. \A l \in S : k >= l
  BY <1>2
<1> QED BY <1>3 DEF Max

\* A set without one of its members has one member fewer.
LEMMA OneFewer ==
    ASSUME NEW s, IsFiniteSet(s), NEW x \in s
    PROVE  /\ Cardinality(s) \in Nat \ {0}
           /\ Cardinality(s \ {x}) = Cardinality(s) - 1
<1>1. Cardinality(s) \in Nat /\ Cardinality(s) # 0
  BY FS_CardinalityType, FS_EmptySet
<1>2. Cardinality(s \ {x}) = Cardinality(s) - 1
  BY FS_RemoveElement
<1> QED BY <1>1, <1>2

Folds(g, S, base, pick, step) ==
    \A s \in SUBSET S : g[s] = IF s = {} THEN base ELSE step[<<pick[s], g[s \ {pick[s]}]>>]

\* A recursion that takes one member after the other out of a finite set has a solution.
LEMMA FoldExists ==
    ASSUME NEW S, IsFiniteSet(S), NEW V, NEW base \in V,
           NEW pick, \A s \in SUBSET S : s # {} => pick[s] \in s,
           NEW step \in [S \X V -> V]
    PROVE  \E g \in [SUBSET S -> V] : Folds(g, S, base, pick, step)
<1> DEFINE Small(n) == {s \in SUBSET S : Cardinality(s) <= n}
           Solves(g, n) ==
               \A s \in Small(n) :
                   g[s] = IF s = {} THEN base ELSE step[<<pick[s], g[s \ {pick[s]}]>>]
           G == {n \in Nat : \E g \in [Small(n) -> V] : Solves(g, n)}
<1>1. \A s \in SUBSET S : IsFiniteSet(s) /\ Cardinality(s) \in Nat
  BY FS_Subset, FS_CardinalityType
<1>2. 0 \in G
  <2>1. \A s \in Small(0) : s = {}
    BY <1>1, FS_EmptySet
  <2> DEFINE g == [s \in Small(0) |-> base]
  <2>2. g \in [Small(0) -> V] /\ Solves(g, 0)
    BY <2>1
  <2> QED BY <2>2
<1>3. ASSUME NEW n \in Nat, n \in G
      PROVE  n + 1 \in G
  <2>1. PICK g \in [Small(n) -> V] : Solves(g, n)
    BY <1>3
  <2> DEFINE h == [s \in Small(n + 1) |->
                      IF s = {} THEN base ELSE step[<<pick[s], g[s \ {pick[s]}]>>]]
  <2>2. ASSUME NEW s \in Small(n + 1), s # {}
        PROVE  pick[s] \in s /\ s \ {pick[s]} \in Small(n)
    <3>1. pick[s] \in s
      BY <2>2
    <3>2. Cardinality(s \ {pick[s]}) = Cardinality(s) - 1
      BY <1>1, <3>1, OneFewer
    <3>3. Cardinality(s) \in Nat /\ Cardinality(s) <= n + 1
      BY <1>1
    <3>4. Cardinality(s \ {pick[s]}) <= n
      BY <3>2, <3>3
    <3> QED BY <3>1, <3>4
  <2>3. h \in [Small(n + 1) -> V]
    <3> SUFFICES ASSUME NEW s \in Small(n + 1), s # {}
                 PROVE  step[<<pick[s], g[s \ {pick[s]}]>>] \in V
      OBVIOUS
    <3>1. pick[s] \in S /\ g[s \ {pick[s]}] \in V
      BY <2>2
    <3> QED BY <3>1
  <2>4. \A s \in Small(n) : s \in Small(n + 1) /\ h[s] = g[s]
    <3>1. \A s \in Small(n) : s \in Small(n + 1)
      BY <1>1
    <3> QED BY <2>1, <3>1
  <2>5. Solves(h, n + 1)
    <3> SUFFICES ASSUME NEW s \in Small(n + 1)
                 PROVE  h[s] = IF s = {} THEN base ELSE step[<<pick[s], h[s \ {pick[s]}]>>]
      OBVIOUS
    <3>1. CASE s = {}
      BY <3>1
    <3>2. CASE s # {}
      <4>1. h[s \ {pick[s]}] = g[s \ {pick[s]}]
        BY <2>2, <2>4, <3>2
      <4>2. h[s] = step[<<pick[s], g[s \ {pick[s]}]>>]
        BY <3>2
      <4> QED BY <3>2, <4>1, <4>2
    <3> QED BY <3>1, <3>2
  <2> HIDE DEF Small, Solves, h
  <2>6. n + 1 \in Nat
    OBVIOUS
  <2> QED BY <2>3, <2>5, <2>6
<1>4. Cardinality(S) \in G
  <2> HIDE DEF G
  <2>1. Nat \subseteq G
    BY <1>2, <1>3, CountingUp
  <2> QED BY <1>1, <2>1
<1>5. Small(Cardinality(S)) = SUBSET S
  <2>1. \A s \in SUBSET S : Cardinality(s) <= Cardinality(S)
    BY FS_Subset
  <2> QED BY <2>1
<1>6. PICK g \in [Small(Cardinality(S)) -> V] : Solves(g, Cardinality(S))
  BY <1>4
<1>7. g \in [SUBSET S -> V] /\ Folds(g, S, base, pick, step)
  BY <1>5, <1>6 DEF Folds
<1> QED BY <1>7

\* What holds of the empty set's value and is kept by every member put in holds of the whole.
LEMMA FoldKeeps ==
    ASSUME NEW S, IsFiniteSet(S), NEW V, NEW g, g[{}] \in V,
           \A s \in SUBSET S : s # {} => \E x \in s : g[s \ {x}] \in V => g[s] \in V
    PROVE  \A s \in SUBSET S : g[s] \in V
<1> DEFINE G == {n \in Nat : \A s \in SUBSET S : Cardinality(s) = n => g[s] \in V}
<1>1. \A s \in SUBSET S : IsFiniteSet(s) /\ Cardinality(s) \in Nat
  BY FS_Subset, FS_CardinalityType
<1>2. 0 \in G
  BY <1>1, FS_EmptySet
<1>3. ASSUME NEW n \in Nat, n \in G
      PROVE  n + 1 \in G
  <2> SUFFICES ASSUME NEW s \in SUBSET S, Cardinality(s) = n + 1
               PROVE  g[s] \in V
    OBVIOUS
  <2>1. s # {}
    <3>1. Cardinality({}) = 0 /\ n + 1 # 0
      BY FS_EmptySet
    <3> QED BY <3>1
  <2>2. PICK x \in s : g[s \ {x}] \in V => g[s] \in V
    BY <2>1
  <2>3. Cardinality(s \ {x}) = n
    <3>1. Cardinality(s \ {x}) = Cardinality(s) - 1
      BY <1>1, OneFewer
    <3> QED BY <3>1
  <2>4. g[s \ {x}] \in V
    BY <1>3, <2>3
  <2> QED BY <2>2, <2>4
<1>4. Nat \subseteq G
  <2> HIDE DEF G
  <2> QED BY <1>2, <1>3, CountingUp
<1> QED BY <1>1, <1>4

\* The recursion that SumFunction is defined by, over the subsets of the domain.
IsSum(sum, S, fun) ==
    /\ sum \in [SUBSET S -> Nat]
    /\ sum[{}] = 0
    /\ \A s \in SUBSET S : s # {} =>
           sum[s] = fun[CHOOSE x \in s : TRUE] + sum[s \ {CHOOSE x \in s : TRUE}]

LEMMA SumSolves ==
    ASSUME NEW S, IsFiniteSet(S), NEW fun \in [S -> Nat]
    PROVE  \E sum : IsSum(sum, S, fun) /\ SumFunction(fun) = sum[S]
<1> DEFINE pick == [s \in SUBSET S |-> CHOOSE x \in s : TRUE]
           step == [p \in S \X Nat |-> fun[p[1]] + p[2]]
           Equation(g) == g = [s \in SUBSET S |->
               IF s = {} THEN 0
               ELSE fun[CHOOSE x \in s : TRUE] + g[s \ {CHOOSE x \in s : TRUE}]]
           sum == CHOOSE g : Equation(g)
<1>1. SumFunction(fun) = sum[S]
  BY DEF SumFunction, SumFunctionOnSet, FoldFunctionOnSet, MapThenFoldSet
<1>2. \A s \in SUBSET S : s # {} => pick[s] \in s
  OBVIOUS
<1>3. step \in [S \X Nat -> Nat]
  OBVIOUS
<1>4. \E g : Equation(g)
  <2> HIDE DEF step, pick
  <2>1. PICK g \in [SUBSET S -> Nat] : Folds(g, S, 0, pick, step)
    <3>1. 0 \in Nat
      OBVIOUS
    <3> QED BY <1>2, <1>3, <3>1, FoldExists, Zenon
  <2>2. ASSUME NEW s \in SUBSET S, s # {}
        PROVE  g[s] = fun[CHOOSE x \in s : TRUE] + g[s \ {CHOOSE x \in s : TRUE}]
    <3>1. pick[s] \in S /\ g[s \ {pick[s]}] \in Nat
      BY <1>2, <2>2
    <3>2. step[<<pick[s], g[s \ {pick[s]}]>>] = fun[pick[s]] + g[s \ {pick[s]}]
      BY <3>1 DEF step
    <3>3. pick[s] = CHOOSE x \in s : TRUE
      BY DEF pick
    <3> QED BY <2>1, <2>2, <3>2, <3>3 DEF Folds
  <2>3. g = [s \in SUBSET S |-> g[s]] /\ g[{}] = 0
    BY <2>1 DEF Folds
  <2>4. Equation(g)
    BY <2>2, <2>3
  <2> QED BY <2>4
<1>5. Equation(sum)
  BY <1>4
<1> HIDE DEF sum
<1>6. sum[{}] = 0 /\ DOMAIN sum = SUBSET S /\ sum = [s \in SUBSET S |-> sum[s]]
  BY <1>5
<1>7. ASSUME NEW s \in SUBSET S, s # {}
      PROVE  sum[s] = fun[CHOOSE x \in s : TRUE] + sum[s \ {CHOOSE x \in s : TRUE}]
  BY <1>5, <1>7
<1>8. \A s \in SUBSET S : sum[s] \in Nat
  <2>1. ASSUME NEW s \in SUBSET S, s # {}
        PROVE  \E x \in s : sum[s \ {x}] \in Nat => sum[s] \in Nat
    <3>1. pick[s] \in s /\ pick[s] = CHOOSE x \in s : TRUE
      BY <1>2, <2>1
    <3>2. sum[s] = fun[pick[s]] + sum[s \ {pick[s]}]
      BY <1>7, <2>1, <3>1
    <3>3. fun[pick[s]] \in Nat
      BY <3>1
    <3> HIDE DEF pick
    <3>4. sum[s \ {pick[s]}] \in Nat => sum[s] \in Nat
      BY <3>2, <3>3
    <3> QED BY <3>1, <3>4
  <2>2. sum[{}] \in Nat
    BY <1>6
  <2> QED BY <2>1, <2>2, FoldKeeps, Zenon
<1>9. IsSum(sum, S, fun)
  BY <1>6, <1>7, <1>8 DEF IsSum
<1> QED BY <1>1, <1>9

\* A sum of natural numbers is one.
LEMMA SumIsNat ==
    ASSUME NEW S, IsFiniteSet(S), NEW fun \in [S -> Nat]
    PROVE  SumFunction(fun) \in Nat
<1>1. PICK sum : IsSum(sum, S, fun) /\ SumFunction(fun) = sum[S]
  BY SumSolves
<1> QED BY <1>1 DEF IsSum

\* Sums whose terms are equal but for one differ by as much as that one.
LEMMA SumOfOneChange ==
    ASSUME NEW S, IsFiniteSet(S), NEW fun \in [S -> Nat], NEW other \in [S -> Nat],
           NEW i \in S, \A j \in S \ {i} : fun[j] = other[j]
    PROVE  SumFunction(fun) - SumFunction(other) = fun[i] - other[i]
<1>1. PICK sum : IsSum(sum, S, fun) /\ SumFunction(fun) = sum[S]
  BY SumSolves
<1>2. PICK rest : IsSum(rest, S, other) /\ SumFunction(other) = rest[S]
  BY SumSolves
<1> DEFINE change(s) == IF i \in s THEN fun[i] - other[i] ELSE 0
           gap == [s \in SUBSET S |-> sum[s] - rest[s] - change(s)]
           Zero == {0}
<1>3. gap[{}] = 0
  <2>1. {} \in SUBSET S /\ sum[{}] = 0 /\ rest[{}] = 0 /\ change({}) = 0
    BY <1>1, <1>2 DEF IsSum
  <2> HIDE DEF change
  <2> QED BY <2>1
<1>4. ASSUME NEW s \in SUBSET S, s # {}
      PROVE  \E x \in s : gap[s \ {x}] \in Zero => gap[s] \in Zero
  <2> DEFINE x == CHOOSE x \in s : TRUE
  <2>1. x \in s /\ x \in S
    BY <1>4
  <2>2. sum[s] = fun[x] + sum[s \ {x}] /\ rest[s] = other[x] + rest[s \ {x}]
    BY <1>1, <1>2, <1>4 DEF IsSum
  <2> HIDE DEF x
  <2>3. /\ sum[s \ {x}] \in Nat /\ rest[s \ {x}] \in Nat /\ fun[x] \in Nat /\ other[x] \in Nat
        /\ fun[i] \in Nat /\ other[i] \in Nat
    BY <1>1, <1>2, <2>1 DEF IsSum
  <2>4. ASSUME sum[s \ {x}] - rest[s \ {x}] = change(s \ {x})
        PROVE  sum[s] - rest[s] = change(s)
    <3>1. CASE x = i
      <4>1. i \notin s \ {x} /\ i \in s
        BY <2>1, <3>1
      <4>2. sum[s \ {x}] - rest[s \ {x}] = 0
        BY <2>4, <4>1
      <4>3. sum[s] - rest[s] = fun[i] - other[i]
        BY <2>2, <2>3, <3>1, <4>2
      <4> QED BY <4>1, <4>3
    <3>2. CASE x # i
      <4>1. fun[x] = other[x] /\ (i \in s \ {x} <=> i \in s)
        BY <2>1, <3>2
      <4>2. sum[s] - rest[s] = sum[s \ {x}] - rest[s \ {x}]
        BY <2>2, <2>3, <4>1
      <4> QED BY <2>4, <4>1, <4>2
    <3> QED BY <3>1, <3>2
  <2>5. sum[s] \in Nat /\ rest[s] \in Nat /\ change(s) \in Int /\ change(s \ {x}) \in Int
    BY <1>1, <1>2, <2>3 DEF IsSum
  <2>6. gap[s \ {x}] = sum[s \ {x}] - rest[s \ {x}] - change(s \ {x})
        /\ gap[s] = sum[s] - rest[s] - change(s)
    BY <2>1
  <2> HIDE DEF change, gap
  <2>7. gap[s \ {x}] \in Zero => gap[s] \in Zero
    BY <2>3, <2>4, <2>5, <2>6
  <2> QED BY <2>1, <2>7
<1>5. gap[S] \in Zero
  <2>1. gap[{}] \in Zero
    BY <1>3
  <2> HIDE DEF gap, Zero
  <2>2. \A s \in SUBSET S : gap[s] \in Zero
    BY <1>4, <2>1, FoldKeeps, Zenon
  <2> QED BY <2>2
<1>6. sum[S] - rest[S] = fun[i] - other[i]
  <2>1. sum[S] \in Nat /\ rest[S] \in Nat /\ fun[i] \in Nat /\ other[i] \in Nat
    BY <1>1, <1>2 DEF IsSum
  <2>2. sum[S] - rest[S] - (fun[i] - other[i]) = 0
    BY <1>5
  <2> QED BY <2>1, <2>2
<1> QED BY <1>1, <1>2, <1>6

\* What is left of a text without its fillers is made of its other characters.
LEMMA UnfilledLeaves ==
    ASSUME NEW chars, NEW text \in Seq(chars)
    PROVE  Unfilled(text) \in Seq(chars \ {"<"})
<1> DEFINE S == DOMAIN text
           V == Seq(chars \ {"<"})
           pick == [s \in SUBSET S |-> Max(s)]
           step == [p \in S \X V |-> IF text[p[1]] = "<" THEN p[2] ELSE Append(p[2], text[p[1]])]
           IsRest(g) == g = [s \in SUBSET S |->
               IF s = {} THEN <<>>
               ELSE IF text[Max(s)] = "<" THEN g[s \ {Max(s)}]
                    ELSE Append(g[s \ {Max(s)}], text[Max(s)])]
           rest == CHOOSE g : IsRest(g)
<1>1. Unfilled(text) = rest[S]
  BY DEF Unfilled, FoldLeft, MapThenFoldSet
<1>2. S = 1 .. Len(text) /\ Len(text) \in Nat /\ IsFiniteSet(S)
  BY FS_Interval
<1>3. \A s \in SUBSET S : s # {} => Max(s) \in s
  BY <1>2, GreatestNumber
<1>4. ASSUME NEW x \in S, NEW v \in V
      PROVE  (IF text[x] = "<" THEN v ELSE Append(v, text[x])) \in V
  OBVIOUS
<1>5. <<>> \in V
  OBVIOUS
<1> HIDE DEF S, V
<1>6. step \in [S \X V -> V]
  BY <1>4
<1>7. \E g : IsRest(g)
  <2>1. \A s \in SUBSET S : s # {} => pick[s] \in s
    BY <1>3
  <2> HIDE DEF step, pick
  <2>2. PICK g \in [SUBSET S -> V] : Folds(g, S, <<>>, pick, step)
    BY <1>2, <1>5, <1>6, <2>1, FoldExists, Zenon
  <2>3. ASSUME NEW s \in SUBSET S, s # {}
        PROVE  g[s] = IF text[Max(s)] = "<" THEN g[s \ {Max(s)}]
                      ELSE Append(g[s \ {Max(s)}], text[Max(s)])
    <3>1. pick[s] \in S /\ g[s \ {pick[s]}] \in V
      BY <2>1, <2>3
    <3>2. step[<<pick[s], g[s \ {pick[s]}]>>] =
              IF text[pick[s]] = "<" THEN g[s \ {pick[s]}]
              ELSE Append(g[s \ {pick[s]}], text[pick[s]])
      BY <3>1 DEF step
    <3>3. pick[s] = Max(s)
      BY DEF pick
    <3> QED BY <2>2, <2>3, <3>2, <3>3 DEF Folds
  <2>4. g = [s \in SUBSET S |-> g[s]] /\ g[{}] = <<>>
    BY <2>2 DEF Folds
  <2>5. IsRest(g)
    BY <2>3, <2>4
  <2> QED BY <2>5
<1>8. IsRest(rest)
  BY <1>7
<1> HIDE DEF rest
<1>9. rest[S] \in V
  <2>1. rest[{}] \in V
    BY <1>5, <1>8
  <2>2. ASSUME NEW s \in SUBSET S, s # {}
        PROVE  \E x \in s : rest[s \ {x}] \in V => rest[s] \in V
    <3>1. Max(s) \in s
      BY <1>3, <2>2
    <3>2. rest[s] = IF text[Max(s)] = "<" THEN rest[s \ {Max(s)}]
                    ELSE Append(rest[s \ {Max(s)}], text[Max(s)])
      BY <1>8, <2>2
    <3>3. rest[s \ {Max(s)}] \in V => rest[s] \in V
      BY <1>4, <3>1, <3>2
    <3> QED BY <3>1, <3>3
  <2>3. \A s \in SUBSET S : rest[s] \in V
    BY <1>2, <2>1, <2>2, FoldKeeps, Zenon
  <2> QED BY <2>3
<1> QED BY <1>1, <1>9 DEF V

\* Two rankings agree in their first k places.
Agree(r, s, k) == \A j \in 1 .. k : r[j] = s[j]

\* Among rankings of one length, no two of them the same, one comes before all others.
LEMMA FirstOfAll ==
    ASSUME NEW C, C # {}, NEW L \in Nat, NEW r \in [C -> [1 .. L -> Nat]],
           \A a, b \in C : r[a] = r[b] => a = b
    PROVE  \E a \in C : \A b \in C \ {a} : Before(r[a], r[b])
<1> DEFINE Leads(a, k) == \A b \in C : Agree(r[a], r[b], k) \/ Before(r[a], r[b])
           G == {k \in Nat : k <= L => \E a \in C : Leads(a, k)}
<1>1. 0 \in G
  BY DEF Agree
<1>2. ASSUME NEW k \in Nat, k \in G
      PROVE  k + 1 \in G
  <2> SUFFICES ASSUME k + 1 <= L
               PROVE  \E a \in C : Leads(a, k + 1)
    OBVIOUS
  <2>1. PICK a \in C : Leads(a, k)
    BY <1>2
  <2> DEFINE even == {b \in C : Agree(r[a], r[b], k)}
  <2>2. \A b \in C : r[b][k + 1] \in Nat
    OBVIOUS
  <2>3. PICK c \in even : \A b \in even : r[c][k + 1] <= r[b][k + 1]
    <3> DEFINE places == {r[b][k + 1] : b \in even}
    <3>1. a \in even /\ even \subseteq C
      BY DEF Agree
    <3> HIDE DEF even
    <3>2. places \in SUBSET Nat /\ places # {}
      BY <2>2, <3>1
    <3>3. PICK n \in places : \A m \in places : n <= m
      BY <3>2, LeastNumber
    <3>4. PICK c \in even : r[c][k + 1] = n
      BY <3>3
    <3>5. \A b \in even : n <= r[b][k + 1]
      BY <3>3
    <3> QED BY <3>4, <3>5
  <2>4. ASSUME NEW b \in C
        PROVE  Agree(r[c], r[b], k + 1) \/ Before(r[c], r[b])
    <3>1. k + 1 \in DOMAIN r[c] /\ DOMAIN r[a] = DOMAIN r[c] /\ DOMAIN r[a] = 1 .. L
      OBVIOUS
    <3>2. \A j \in 1 .. k : r[c][j] = r[a][j]
      BY DEF Agree
    <3>3. CASE b \in even
      <4>1. \A j \in 1 .. k : r[c][j] = r[b][j]
        BY <3>2, <3>3 DEF Agree
      <4>2. CASE r[c][k + 1] = r[b][k + 1]
        BY <4>1, <4>2 DEF Agree
      <4>3. CASE r[c][k + 1] # r[b][k + 1]
        <5>1. r[c][k + 1] < r[b][k + 1]
          BY <2>2, <2>3, <3>3, <4>3
        <5>2. \A j \in 1 .. (k + 1) - 1 : r[c][j] = r[b][j]
          BY <4>1
        <5> QED BY <3>1, <5>1, <5>2 DEF Before
      <4> QED BY <4>2, <4>3
    <3>4. CASE b \notin even
      <4>1. Before(r[a], r[b]) /\ ~Agree(r[a], r[b], k)
        BY <2>1, <3>4
      <4>2. PICK i \in 1 .. L : r[a][i] < r[b][i] /\ \A j \in 1 .. i - 1 : r[a][j] = r[b][j]
        BY <3>1, <4>1 DEF Before
      <4>3. i <= k
        BY <4>1, <4>2 DEF Agree
      <4>4. r[c][i] < r[b][i] /\ \A j \in 1 .. i - 1 : r[c][j] = r[b][j]
        BY <3>2, <4>2, <4>3
      <4> QED BY <3>1, <4>2, <4>4 DEF Before
    <3> QED BY <3>3, <3>4
  <2> QED BY <2>4
<1>3. L \in G
  <2> HIDE DEF G
  <2> QED BY <1>1, <1>2, CountingUp
<1>4. PICK a \in C : Leads(a, L)
  BY <1>3
<1>5. ASSUME NEW b \in C \ {a}
      PROVE  Before(r[a], r[b])
  <2>1. r[a] # r[b]
    BY <1>5
  <2>2. ~Agree(r[a], r[b], L)
    BY <2>1 DEF Agree
  <2> QED BY <1>4, <2>2
<1> QED BY <1>5

-----------------------------------------------------------------------------
(* The alphabet.                                                           *)

\* A character's code is its place in the alphabet.
LEMMA CodeIsPlace ==
    ASSUME NEW c \in Letters
    PROVE  Code[c] \in DOMAIN Alphabet /\ Code[c] \in Nat \ {0} /\ Alphabet[Code[c]] = c
<1> DEFINE place == CHOOSE i \in DOMAIN Alphabet : c \in Letters => Alphabet[i] = c
<1>1. Code[c] = place
  BY DEF Code, AntiFunction, Inverse, Letters
<1>2. \E i \in DOMAIN Alphabet : Alphabet[i] = c
  BY DEF Letters, Range
<1>3. place \in DOMAIN Alphabet /\ Alphabet[place] = c
  BY <1>2
<1>4. DOMAIN Alphabet \subseteq Nat \ {0}
  BY DEF Alphabet
<1> HIDE DEF place
<1> QED BY <1>1, <1>3, <1>4

LEMMA DigitsAre == Digits = {"0", "1", "2", "3", "4", "5", "6", "7", "8", "9"}
<1>1. \A i \in 1 .. 10 : i = 1 \/ i = 2 \/ i = 3 \/ i = 4 \/ i = 5 \/ i = 6 \/ i = 7 \/ i = 8
                         \/ i = 9 \/ i = 10
  OBVIOUS
<1> QED BY <1>1 DEF Digits, Alphabet

LEMMA DigitsAreLetters == Digits \subseteq Letters \ {"<"}
<1>1. \A i \in 1 .. 10 : i \in DOMAIN Alphabet
  BY DEF Alphabet
<1>2. Digits \subseteq Letters
  BY <1>1 DEF Digits, Letters, Range
<1> QED BY <1>2, DigitsAre

\* Every character has a value.
LEMMA ValueIsNat ==
    ASSUME NEW c \in Letters
    PROVE  CharValue(c) \in Nat
<1>1. Code[c] \in Nat \ {0} /\ Alphabet[Code[c]] = c
  BY CodeIsPlace
<1>2. ASSUME c \notin Digits
      PROVE  Code[c] # 1
  <2>1. Alphabet[1] \in Digits
    BY DEF Digits
  <2> QED BY <1>1, <1>2, <2>1
<1> QED BY <1>1, <1>2 DEF CharValue

\* No character comes twice in the alphabet.
LEMMA PlaceIsCode ==
    ASSUME NEW i \in DOMAIN Alphabet
    PROVE  Alphabet[i] \in Letters /\ Code[Alphabet[i]] = i
<1>1. \A j, k \in DOMAIN Alphabet : Alphabet[j] = Alphabet[k] => j = k
  BY DEF Alphabet
<1>2. Alphabet[i] \in Letters
  BY DEF Letters, Range
<1>3. Code[Alphabet[i]] \in DOMAIN Alphabet /\ Alphabet[Code[Alphabet[i]]] = Alphabet[i]
  BY <1>2, CodeIsPlace
<1> QED BY <1>1, <1>2, <1>3

\* The values of the characters that look like others.
LEMMA ValuesOfLookAlikes ==
    /\ CharValue("0") = 0 /\ CharValue("1") = 1 /\ CharValue("2") = 2
    /\ CharValue("5") = 5 /\ CharValue("6") = 6 /\ CharValue("8") = 8
    /\ CharValue("O") = 24 /\ CharValue("I") = 18 /\ CharValue("Z") = 35
    /\ CharValue("S") = 28 /\ CharValue("G") = 16 /\ CharValue("B") = 11
<1>1. /\ Alphabet[1] = "0" /\ Alphabet[2] = "1" /\ Alphabet[3] = "2" /\ Alphabet[6] = "5"
      /\ Alphabet[7] = "6" /\ Alphabet[9] = "8" /\ Alphabet[13] = "B" /\ Alphabet[18] = "G"
      /\ Alphabet[20] = "I" /\ Alphabet[26] = "O" /\ Alphabet[30] = "S" /\ Alphabet[37] = "Z"
  BY DEF Alphabet
<1>2. DOMAIN Alphabet = 1 .. 37
  BY DEF Alphabet
<1>3. /\ Code["0"] = 1 /\ Code["1"] = 2 /\ Code["2"] = 3 /\ Code["5"] = 6
      /\ Code["6"] = 7 /\ Code["8"] = 9 /\ Code["B"] = 13 /\ Code["G"] = 18
      /\ Code["I"] = 20 /\ Code["O"] = 26 /\ Code["S"] = 30 /\ Code["Z"] = 37
  <2>1. \A i \in 1 .. 37 : Code[Alphabet[i]] = i
    BY <1>2, PlaceIsCode
  <2> QED BY <1>1, <2>1
<1> QED BY <1>3, DigitsAre DEF CharValue

\* The terms of the check digit's sum, and their weights.
LEMMA TermsAreNat ==
    ASSUME NEW text \in Seq(Letters)
    PROVE  /\ IsFiniteSet(DOMAIN text)
           /\ Weighted(text) \in [DOMAIN text -> Nat]
           /\ \A i \in DOMAIN text : <<7, 3, 1>>[1 + ((i - 1) % 3)] \in {7, 3, 1}
<1>1. DOMAIN text = 1 .. Len(text) /\ IsFiniteSet(DOMAIN text)
  BY FS_Interval
<1>2. ASSUME NEW i \in DOMAIN text
      PROVE  <<7, 3, 1>>[1 + ((i - 1) % 3)] \in {7, 3, 1}
  <2>1. 1 + ((i - 1) % 3) \in 1 .. 3
    BY <1>1, <1>2
  <2>2. \A j \in 1 .. 3 : <<7, 3, 1>>[j] \in {7, 3, 1}
    OBVIOUS
  <2> QED BY <2>1, <2>2
<1>3. ASSUME NEW i \in DOMAIN text
      PROVE  CharValue(text[i]) * <<7, 3, 1>>[1 + ((i - 1) % 3)] \in Nat
  <2>1. CharValue(text[i]) \in Nat
    BY <1>3, ValueIsNat
  <2> HIDE DEF CharValue
  <2>2. \A m \in Nat, n \in {7, 3, 1} : m * n \in Nat
    OBVIOUS
  <2> QED BY <1>2, <1>3, <2>1, <2>2
<1>4. Weighted(text) \in [DOMAIN text -> Nat]
  BY <1>3 DEF Weighted
<1> QED BY <1>1, <1>2, <1>4

\* A check digit is a character.
LEMMA CheckIsLetter ==
    ASSUME NEW text \in Seq(Letters)
    PROVE  CheckDigit(text) \in Letters
<1>1. SumFunction(Weighted(text)) \in Nat
  BY TermsAreNat, SumIsNat
<1>2. 1 + (SumFunction(Weighted(text)) % 10) \in 1 .. 10
  BY <1>1
<1>3. \A i \in 1 .. 10 : Alphabet[i] \in Digits
  BY DEF Digits
<1> QED BY <1>2, <1>3, DigitsAreLetters DEF CheckDigit

\* Two texts that differ in one character have one check digit if that character's
\* values, weighted, are equal modulo ten.
LEMMA CheckOfOneChange ==
    ASSUME NEW text \in Seq(Letters), NEW other \in Seq(Letters), DOMAIN text = DOMAIN other,
           NEW i \in DOMAIN text, \A j \in DOMAIN text \ {i} : text[j] = other[j]
    PROVE  \E w \in {7, 3, 1} :
               CheckDigit(text) = CheckDigit(other)
                   <=> ((CharValue(text[i]) - CharValue(other[i])) * w) % 10 = 0
<1> DEFINE w == <<7, 3, 1>>[1 + ((i - 1) % 3)]
           a == SumFunction(Weighted(text))
           b == SumFunction(Weighted(other))
           u == CharValue(text[i])
           v == CharValue(other[i])
<1>1. w \in {7, 3, 1}
  BY TermsAreNat
<1>2. a \in Nat /\ b \in Nat
  BY TermsAreNat, SumIsNat
<1>3. u \in Nat /\ v \in Nat
  BY ValueIsNat
<1>4. Weighted(text)[i] = u * w /\ Weighted(other)[i] = v * w
  BY DEF Weighted
<1>5. \A j \in DOMAIN text \ {i} : Weighted(text)[j] = Weighted(other)[j]
  BY DEF Weighted
<1>6. a - b = Weighted(text)[i] - Weighted(other)[i]
  <2>1. /\ IsFiniteSet(DOMAIN text)
        /\ Weighted(text) \in [DOMAIN text -> Nat] /\ Weighted(other) \in [DOMAIN text -> Nat]
    BY TermsAreNat
  <2> QED BY <1>5, <2>1, SumOfOneChange
<1>7. CheckDigit(text) = CheckDigit(other) <=> a % 10 = b % 10
  <2>1. 1 + (a % 10) \in 1 .. 10 /\ 1 + (b % 10) \in 1 .. 10
    BY <1>2
  <2>2. \A m \in 1 .. 10 : m \in DOMAIN Alphabet
    BY DEF Alphabet
  <2>3. CheckDigit(text) = Alphabet[1 + (a % 10)] /\ CheckDigit(other) = Alphabet[1 + (b % 10)]
    BY DEF CheckDigit
  <2>4. a % 10 \in Int /\ b % 10 \in Int
    BY <1>2
  <2> HIDE DEF a, b
  <2>5. /\ Code[Alphabet[1 + (a % 10)]] = 1 + (a % 10)
        /\ Code[Alphabet[1 + (b % 10)]] = 1 + (b % 10)
    BY <2>1, <2>2, PlaceIsCode
  <2> QED BY <2>3, <2>4, <2>5
<1> HIDE DEF w, a, b, u, v
<1>8. a - b = (u - v) * w
  <2>1. a - b = u * w - v * w
    BY <1>4, <1>6
  <2> QED BY <1>1, <1>3, <2>1
<1>9. a % 10 = b % 10 <=> (a - b) % 10 = 0
  BY <1>2
<1>10. CheckDigit(text) = CheckDigit(other) <=> ((u - v) * w) % 10 = 0
  BY <1>7, <1>8, <1>9
<1> QED BY <1>1, <1>10 DEF u, v

-----------------------------------------------------------------------------
(* Look-alikes.                                                            *)

\* A character has at most one look-alike, so the correction of a misread is known.
LEMMA OneLookAlike ==
    ASSUME NEW f, NEW c, NEW d \in Letters, <<c, d>> \in Confuse(f)
    PROVE  LookAlike(f, c) = d
<1>1. \A e : <<c, e>> \in Confuse(f) => e = d
  BY DEF Confuse, ConfuseAlnum, ConfuseNum, Pair
<1> QED BY <1>1 DEF LookAlike

\* In a date only what is neither a digit nor a filler is corrected.
LEMMA DigitsStay ==
    ASSUME NEW f \in Dates, NEW c, NEW d, <<c, d>> \in Confuse(f)
    PROVE  c \notin Digits \cup {"<"}
<1>1. c \in {"O", "I", "S", "B", "Z", "G", "Q", "D", "L", "A", "T"}
  BY DEF Dates, Confuse, ConfuseNum, Pair
<1> QED BY <1>1, DigitsAre

\* With nothing to correct, the text stays.
LEMMA NothingSwapped ==
    ASSUME NEW f, NEW text \in Seq(Letters)
    PROVE  Swapped(f, text, {}) = text
BY DEF Swapped

\* What differs by look-alikes is corrected to what was printed.
LEMMA MisreadsSwapped ==
    ASSUME NEW f, NEW printed \in Seq(Letters), NEW text \in Seq(Letters), DOMAIN text = DOMAIN printed,
           \A i \in Differ(text, printed) : <<text[i], printed[i]>> \in Confuse(f)
    PROVE  Swapped(f, text, Differ(text, printed)) = printed
<1>1. \A i \in DOMAIN printed : printed[i] \in Letters
  OBVIOUS
<1>2. ASSUME NEW i \in DOMAIN text
      PROVE  Swapped(f, text, Differ(text, printed))[i] = printed[i]
  <2>1. CASE i \in Differ(text, printed)
    BY <1>1, <1>2, <2>1, OneLookAlike DEF Swapped
  <2>2. CASE i \notin Differ(text, printed)
    BY <1>2, <2>2 DEF Swapped, Differ
  <2> QED BY <2>1, <2>2
<1>3. Swapped(f, text, Differ(text, printed)) = [i \in DOMAIN printed |-> printed[i]]
  BY <1>2 DEF Swapped
<1> QED BY <1>3

-----------------------------------------------------------------------------
(* The ranking of the corrections.                                         *)

\* A ranking begins with the number of swaps.
LEMMA RankStarts ==
    ASSUME NEW f, NEW text \in Seq(Letters), NEW at
    PROVE  /\ Rank(f, text, at)[1] = Cardinality(at)
           /\ \A i \in DOMAIN Rank(f, text, at) : i \in Nat \ {0}
           /\ 1 \in DOMAIN Rank(f, text, at)
<1> DEFINE new  == Swapped(f, text, at)
           head == <<Cardinality(at), SwapCost(f, text, at), Transitions(new)>>
           tail == [i \in DOMAIN new |-> Code[new[i]]]
           S    == {head[1], head[2], head[3]} \cup {tail[i] : i \in DOMAIN new}
<1>1. DOMAIN new = 1 .. Len(text) /\ Len(text) \in Nat
  BY DEF Swapped
<1>2. tail \in Seq(S)
  <2>1. tail \in [1 .. Len(text) -> S]
    BY <1>1
  <2> QED BY <2>1, <1>1
<1>3. head \in Seq(S) /\ Len(head) = 3 /\ head[1] = Cardinality(at)
  <2>1. head[1] \in S /\ head[2] \in S /\ head[3] \in S
    OBVIOUS
  <2> HIDE DEF S
  <2>2. <<head[1], head[2], head[3]>> \in Seq(S)
    BY <2>1
  <2> QED BY <2>2
<1>4. Rank(f, text, at) = head \o tail
  BY DEF Rank
<1> HIDE DEF head, tail, S
<1>5. /\ head \o tail \in Seq(S)
      /\ Len(head \o tail) = 3 + Len(tail) /\ Len(tail) \in Nat
      /\ (head \o tail)[1] = head[1]
  <2> SUFFICES ASSUME NEW h \in Seq(S), NEW t \in Seq(S), Len(h) = 3
               PROVE  /\ h \o t \in Seq(S)
                      /\ Len(h \o t) = 3 + Len(t) /\ Len(t) \in Nat
                      /\ (h \o t)[1] = h[1]
    BY <1>2, <1>3, Zenon
  <2>1. h \o t \in Seq(S) /\ Len(h \o t) = Len(h) + Len(t)
    BY ConcatProperties
  <2>2. Len(t) \in Nat
    BY LenProperties
  <2>3. (h \o t)[1] = h[1]
    <3>1. 1 \in 1 .. Len(h) + Len(t)
      BY <2>2
    <3>2. (h \o t)[1] = IF 1 <= Len(h) THEN h[1] ELSE t[1 - Len(h)]
      BY <3>1, ConcatProperties
    <3> QED BY <3>2
  <2> QED BY <2>1, <2>2, <2>3
<1>6. DOMAIN (head \o tail) = 1 .. Len(head \o tail)
  BY <1>5
<1> QED BY <1>3, <1>4, <1>5, <1>6

\* No correction is one of the corrections _candidates tries.
LEMMA NoSwapTried ==
    ASSUME NEW f, NEW text \in Seq(Letters)
    PROVE  {} \in Swaps(f, text)
<1> DEFINE idxs == {i \in DOMAIN text : \E d \in Letters : <<text[i], d>> \in Confuse(f)}
<1>1. {} \in kSubset(0, idxs)
  BY FS_EmptySet DEF kSubset
<1> QED BY <1>1 DEF Swaps

\* A correction is a finite set of positions.
LEMMA SwapsFinite ==
    ASSUME NEW f, NEW text \in Seq(Letters), NEW at \in Swaps(f, text)
    PROVE  IsFiniteSet(at) /\ at \subseteq DOMAIN text
<1> DEFINE idxs == {i \in DOMAIN text : \E d \in Letters : <<text[i], d>> \in Confuse(f)}
<1>1. at \subseteq idxs
  BY DEF Swaps, kSubset
<1>2. IsFiniteSet(1 .. Len(text))
  BY FS_Interval
<1>3. at \subseteq 1 .. Len(text)
  BY <1>1
<1>4. at \subseteq DOMAIN text
  BY <1>1
<1>5. IsFiniteSet(at)
  BY <1>2, <1>3, FS_Subset
<1> QED BY <1>4, <1>5

\* A correction changes the positions it swaps, to other characters, and no more.
LEMMA SwapChanges ==
    ASSUME NEW f, NEW text \in Seq(Letters), NEW at \in Swaps(f, text)
    PROVE  /\ Swapped(f, text, at) \in Seq(Letters)
           /\ DOMAIN Swapped(f, text, at) = DOMAIN text
           /\ Differ(text, Swapped(f, text, at)) = at
<1> DEFINE new == Swapped(f, text, at)
<1>1. at \subseteq DOMAIN text /\ DOMAIN text = 1 .. Len(text) /\ Len(text) \in Nat
  BY SwapsFinite
<1>2. \A c, d : <<c, d>> \in Confuse(f) => c # d
  BY DEF Confuse, ConfuseAlnum, ConfuseNum, Pair
<1>3. ASSUME NEW i \in at
      PROVE  LookAlike(f, text[i]) \in Letters /\ LookAlike(f, text[i]) # text[i]
  <2>1. PICK d \in Letters : <<text[i], d>> \in Confuse(f)
    BY <1>3 DEF Swaps, kSubset
  <2>2. LookAlike(f, text[i]) = d
    BY <2>1, OneLookAlike
  <2> QED BY <1>2, <2>1, <2>2
<1>4. ASSUME NEW i \in DOMAIN text
      PROVE  new[i] \in Letters /\ (new[i] # text[i] <=> i \in at)
  <2>1. CASE i \in at
    BY <1>3, <2>1 DEF Swapped
  <2>2. CASE i \notin at
    BY <2>2 DEF Swapped
  <2> QED BY <2>1, <2>2
<1>5. DOMAIN new = DOMAIN text /\ new = [i \in DOMAIN text |-> new[i]]
  BY DEF Swapped
<1> HIDE DEF new
<1>6. new \in [1 .. Len(text) -> Letters]
  BY <1>1, <1>4, <1>5
<1>7. new \in Seq(Letters)
  BY <1>1, <1>6
<1>8. Differ(text, new) = at
  BY <1>1, <1>4 DEF Differ
<1> QED BY <1>5, <1>7, <1>8 DEF new

\* The number of digit-letter changes is one.
LEMMA TransitionsAreNat ==
    ASSUME NEW text \in Seq(Letters)
    PROVE  Transitions(text) \in Nat
<1> DEFINE run == Unfilled(text)
           changes == {i \in 2 .. Len(run) : (run[i] \in Digits) # (run[i - 1] \in Digits)}
<1>1. run \in Seq(Letters \ {"<"})
  BY UnfilledLeaves
<1>2. Len(run) \in Int
  BY <1>1
<1> HIDE DEF run
<1>3. IsFiniteSet(2 .. Len(run))
  BY <1>2, FS_Interval
<1>4. IsFiniteSet(changes)
  BY <1>3, FS_Subset
<1>5. Cardinality(changes) \in Nat
  BY <1>4, FS_CardinalityType
<1> QED BY <1>5 DEF Transitions, run

\* Three numbers in front of others.
LEMMA ThreeAndMore ==
    ASSUME NEW h \in Seq(Nat), Len(h) = 3, NEW t \in Seq(Nat)
    PROVE  /\ h \o t \in [1 .. 3 + Len(t) -> Nat]
           /\ \A i \in 1 .. Len(t) : (h \o t)[3 + i] = t[i]
<1>1. h \o t \in Seq(Nat) /\ Len(h \o t) = 3 + Len(t) /\ Len(t) \in Nat
  <2>1. h \o t \in Seq(Nat) /\ Len(h \o t) = Len(h) + Len(t)
    BY ConcatProperties
  <2> QED BY <2>1, LenProperties
<1>2. h \o t \in [1 .. 3 + Len(t) -> Nat]
  <2>1. \A s \in Seq(Nat) : s \in [1 .. Len(s) -> Nat]
    BY LenProperties
  <2>2. h \o t \in Seq(Nat)
    BY <1>1
  <2>3. h \o t \in [1 .. Len(h \o t) -> Nat]
    BY <2>1, <2>2, Zenon
  <2> QED BY <1>1, <2>3, Zenon
<1>3. ASSUME NEW i \in 1 .. Len(t)
      PROVE  (h \o t)[3 + i] = t[i]
  <2>1. 3 + i \in 1 .. Len(h) + Len(t)
    BY <1>1
  <2>2. \A j \in 1 .. Len(h) + Len(t) :
            (h \o t)[j] = IF j <= Len(h) THEN h[j] ELSE t[j - Len(h)]
    BY ConcatProperties, Zenon
  <2> DEFINE joined == h \o t
  <2>3. \A j \in 1 .. 3 + Len(t) : joined[j] = IF j <= 3 THEN h[j] ELSE t[j - 3]
    BY <2>2
  <2> HIDE DEF joined
  <2>4. joined[3 + i] = t[(3 + i) - 3]
    BY <1>1, <2>1, <2>3
  <2>5. joined[3 + i] = t[i]
    BY <1>1, <2>4
  <2> QED BY <2>5 DEF joined
<1> QED BY <1>2, <1>3

\* A ranking is a row of numbers: how many swaps, their cost, the digit-letter
\* changes, and the characters' codes.
LEMMA RankPlaces ==
    ASSUME NEW f, NEW text \in Seq(Letters), NEW at \in Swaps(f, text)
    PROVE  /\ Rank(f, text, at) \in [1 .. 3 + Len(text) -> Nat]
           /\ \A i \in 1 .. Len(text) : Rank(f, text, at)[3 + i] = Code[Swapped(f, text, at)[i]]
<1> DEFINE new  == Swapped(f, text, at)
           cost == SwapCost(f, text, at)
           head == <<Cardinality(at), cost, Transitions(new)>>
           tail == [i \in DOMAIN new |-> Code[new[i]]]
<1>1. /\ new \in Seq(Letters) /\ DOMAIN new = 1 .. Len(text) /\ Len(text) \in Nat
      /\ IsFiniteSet(at)
  BY SwapChanges, SwapsFinite
<1>2. Cardinality(at) \in Nat /\ Transitions(new) \in Nat
  BY <1>1, FS_CardinalityType, TransitionsAreNat
<1>3. cost \in Nat
  BY <1>1, SumIsNat DEF SwapCost
<1>4. ASSUME NEW i \in DOMAIN new
      PROVE  Code[new[i]] \in Nat
  BY <1>1, CodeIsPlace
<1>5. Rank(f, text, at) = head \o tail
  BY DEF Rank
<1> HIDE DEF new, cost
<1>6. tail \in Seq(Nat) /\ Len(tail) = Len(text)
  <2>1. tail \in [1 .. Len(text) -> Nat]
    BY <1>1, <1>4
  <2> QED BY <2>1, <1>1
<1>7. head \in Seq(Nat) /\ Len(head) = 3
  BY <1>2, <1>3
<1>8. \A i \in 1 .. Len(text) : tail[i] = Code[new[i]]
  BY <1>1
<1> HIDE DEF head, tail
<1>9. /\ head \o tail \in [1 .. 3 + Len(tail) -> Nat]
      /\ \A i \in 1 .. Len(tail) : (head \o tail)[3 + i] = tail[i]
  BY <1>6, <1>7, ThreeAndMore
<1> QED BY <1>5, <1>6, <1>8, <1>9 DEF new

\* Two corrections never rank the same, for their texts differ.
LEMMA RanksDiffer ==
    ASSUME NEW f, NEW text \in Seq(Letters), NEW a \in Swaps(f, text), NEW b \in Swaps(f, text),
           Rank(f, text, a) = Rank(f, text, b)
    PROVE  a = b
<1>1. /\ Swapped(f, text, a) \in Seq(Letters) /\ DOMAIN Swapped(f, text, a) = DOMAIN text
      /\ Swapped(f, text, b) \in Seq(Letters) /\ DOMAIN Swapped(f, text, b) = DOMAIN text
      /\ DOMAIN text = 1 .. Len(text)
  BY SwapChanges
<1>2. ASSUME NEW i \in DOMAIN text
      PROVE  Swapped(f, text, a)[i] = Swapped(f, text, b)[i]
  <2>1. Code[Swapped(f, text, a)[i]] = Code[Swapped(f, text, b)[i]]
    BY <1>1, <1>2, RankPlaces
  <2>2. Swapped(f, text, a)[i] \in Letters /\ Swapped(f, text, b)[i] \in Letters
    BY <1>1, <1>2
  <2> QED BY <2>1, <2>2, CodeIsPlace
<1>3. Differ(text, Swapped(f, text, a)) = Differ(text, Swapped(f, text, b))
  BY <1>2 DEF Differ
<1> QED BY <1>3, SwapChanges

\* Where there are candidates, the best reading is one of them and ranks before all
\* the others: the CHOOSE of BestReading has what it looks for.
LEMMA BestExists ==
    ASSUME NEW f, NEW text \in Seq(Letters), NEW check, Candidates(f, text, check) # {}
    PROVE  \E best \in Candidates(f, text, check) :
               /\ BestReading(f, text, check) = Swapped(f, text, best)
               /\ \A other \in Candidates(f, text, check) \ {best} :
                      Before(Rank(f, text, best), Rank(f, text, other))
<1> DEFINE cands == Candidates(f, text, check)
           r == [at \in cands |-> Rank(f, text, at)]
           best == CHOOSE at \in cands : \A other \in cands \ {at} :
                       Before(Rank(f, text, at), Rank(f, text, other))
<1>1. cands \subseteq Swaps(f, text)
  BY DEF Candidates
<1>2. BestReading(f, text, check) = Swapped(f, text, best)
  BY DEF BestReading
<1>3. 3 + Len(text) \in Nat
  BY LenProperties
<1> HIDE DEF cands
<1>4. r \in [cands -> [1 .. 3 + Len(text) -> Nat]]
  BY <1>1, RankPlaces
<1>5. \A a, b \in cands : r[a] = r[b] => a = b
  BY <1>1, RanksDiffer
<1>6. \E at \in cands : \A other \in cands \ {at} : Before(r[at], r[other])
  <2> HIDE DEF r
  <2> QED BY <1>3, <1>4, <1>5, FirstOfAll DEF cands
<1>7. \E at \in cands : \A other \in cands \ {at} :
          Before(Rank(f, text, at), Rank(f, text, other))
  BY <1>6
<1>8. best \in cands /\ \A other \in cands \ {best} :
          Before(Rank(f, text, best), Rank(f, text, other))
  BY <1>7
<1> HIDE DEF best
<1> QED BY <1>2, <1>8 DEF cands

\* No candidate is nearer to the picture than the best reading.
LEMMA BestIsNearest ==
    ASSUME NEW f, NEW text \in Seq(Letters), NEW check, NEW at \in Candidates(f, text, check)
    PROVE  Cardinality(Differ(text, BestReading(f, text, check))) <= Cardinality(at)
<1>1. PICK best \in Candidates(f, text, check) :
          /\ BestReading(f, text, check) = Swapped(f, text, best)
          /\ \A other \in Candidates(f, text, check) \ {best} :
                 Before(Rank(f, text, best), Rank(f, text, other))
  BY BestExists
<1>2. best \in Swaps(f, text) /\ at \in Swaps(f, text)
  BY DEF Candidates
<1>3. Differ(text, BestReading(f, text, check)) = best
  BY <1>1, <1>2, SwapChanges
<1>4. Cardinality(best) \in Nat /\ Cardinality(at) \in Nat
  BY <1>2, SwapsFinite, FS_CardinalityType
<1>5. ASSUME at # best
      PROVE  Cardinality(best) <= Cardinality(at)
  <2>1. PICK i \in DOMAIN Rank(f, text, best) :
            /\ Rank(f, text, best)[i] < Rank(f, text, at)[i]
            /\ \A j \in 1 .. i - 1 : Rank(f, text, best)[j] = Rank(f, text, at)[j]
    BY <1>1, <1>5 DEF Before
  <2>2. Rank(f, text, best)[1] = Cardinality(best) /\ Rank(f, text, at)[1] = Cardinality(at)
    BY RankStarts
  <2>3. i \in Nat \ {0}
    BY RankStarts
  <2>4. CASE i = 1
    BY <1>4, <2>1, <2>2, <2>4
  <2>5. CASE i # 1
    <3>1. 1 \in 1 .. i - 1
      BY <2>3, <2>5
    <3> QED BY <1>4, <2>1, <2>2, <3>1
  <2> QED BY <2>4, <2>5
<1> QED BY <1>3, <1>4, <1>5

\* A text that satisfies its check digit, and is all digits if it is a date, is its
\* own best reading: every correction of it ranks after it.
LEMMA ValidIsBest ==
    ASSUME NEW f, NEW text \in Seq(Letters),
           f # "number" => Range(text) \subseteq Digits
    PROVE  /\ Candidates(f, text, CheckDigit(text)) # {}
           /\ BestReading(f, text, CheckDigit(text)) = text
<1> DEFINE cands == Candidates(f, text, CheckDigit(text))
           First(at) == \A other \in cands \ {at} : Before(Rank(f, text, at), Rank(f, text, other))
<1>1. {} \in cands
  BY NothingSwapped, NoSwapTried DEF Candidates
<1>2. ASSUME NEW other \in cands, other # {}
      PROVE  Cardinality(other) \in Nat /\ 0 < Cardinality(other)
  <2>1. IsFiniteSet(other)
    BY <1>2, SwapsFinite DEF Candidates
  <2> QED BY <2>1, <1>2, FS_EmptySet, FS_CardinalityType
<1>3. First({})
  <2> SUFFICES ASSUME NEW other \in cands, other # {}
               PROVE  Before(Rank(f, text, {}), Rank(f, text, other))
    OBVIOUS
  <2>1. Rank(f, text, {})[1] = 0 /\ 1 \in DOMAIN Rank(f, text, {})
    BY RankStarts, FS_EmptySet
  <2>2. Rank(f, text, other)[1] = Cardinality(other)
    BY RankStarts
  <2> QED BY <2>1, <2>2, <1>2 DEF Before
<1>4. ASSUME NEW at \in cands, at # {}
      PROVE  ~Before(Rank(f, text, at), Rank(f, text, {}))
  <2> SUFFICES ASSUME NEW i \in DOMAIN Rank(f, text, at),
                      Rank(f, text, at)[i] < Rank(f, text, {})[i],
                      \A j \in 1 .. i - 1 : Rank(f, text, at)[j] = Rank(f, text, {})[j]
               PROVE  FALSE
    BY DEF Before
  <2>1. Rank(f, text, at)[1] = Cardinality(at) /\ i \in Nat \ {0}
    BY RankStarts
  <2>2. Rank(f, text, {})[1] = 0
    BY RankStarts, FS_EmptySet
  <2>3. i # 1
    BY <2>1, <2>2, <1>2, <1>4
  <2>4. 1 \in 1 .. i - 1
    BY <2>1, <2>3
  <2> QED BY <2>1, <2>2, <2>4, <1>2, <1>4
<1>5. (CHOOSE at \in cands : First(at)) = {}
  <2> DEFINE best == CHOOSE at \in cands : First(at)
  <2>1. best \in cands /\ First(best)
    BY <1>1, <1>3
  <2> HIDE DEF best
  <2>2. CASE best # {}
    BY <2>1, <2>2, <1>1, <1>4
  <2> QED BY <2>2 DEF best
<1>6. BestReading(f, text, CheckDigit(text)) = Swapped(f, text, {})
  BY <1>5 DEF BestReading
<1> QED BY <1>1, <1>6, NothingSwapped

\* Two look-alikes, with the page's own check character, are a candidate's swaps.
LEMMA MisreadsTried ==
    ASSUME NEW f, NEW printed \in Seq(Letters),
           NEW text \in Seq(Letters), DOMAIN text = DOMAIN printed,
           \A i \in Differ(text, printed) : <<text[i], printed[i]>> \in Confuse(f),
           Cardinality(Differ(text, printed)) <= 2,
           f # "number" => Range(printed) \subseteq Digits
    PROVE  Differ(text, printed) \in Candidates(f, text, CheckDigit(printed))
<1> DEFINE at   == Differ(text, printed)
           idxs == {i \in DOMAIN text : \E d \in Letters : <<text[i], d>> \in Confuse(f)}
<1>1. at \subseteq idxs
  BY DEF Differ
<1>2. IsFiniteSet(at)
  <2>1. IsFiniteSet(1 .. Len(text))
    BY FS_Interval
  <2>2. at \subseteq 1 .. Len(text)
    BY DEF Differ
  <2> QED BY <2>1, <2>2, FS_Subset
<1>3. Cardinality(at) \in 0 .. 2
  BY <1>2, FS_CardinalityType
<1>4. at \in kSubset(Cardinality(at), idxs)
  BY <1>1 DEF kSubset
<1>5. at \in Swaps(f, text)
  BY <1>3, <1>4 DEF Swaps
<1>6. Swapped(f, text, at) = printed
  BY MisreadsSwapped
<1> QED BY <1>5, <1>6 DEF Candidates

\* The only candidate for a date misread by look-alikes is the date as printed.
LEMMA DatesUnmistaken ==
    ASSUME NEW f \in Dates, NEW printed \in Seq(Letters),
           Range(printed) \subseteq Digits \cup {"<"},
           NEW text \in Seq(Letters), DOMAIN text = DOMAIN printed, NEW check,
           \A i \in Differ(text, printed) : <<text[i], printed[i]>> \in Confuse(f),
           Candidates(f, text, check) # {}
    PROVE  BestReading(f, text, check) = printed
<1> DEFINE cands == Candidates(f, text, check)
<1>1. ASSUME NEW at \in cands
      PROVE  at = Differ(text, printed)
  <2>1. at \subseteq DOMAIN text
    BY SwapsFinite DEF Candidates
  <2>2. \A i \in at : \E d : <<text[i], d>> \in Confuse(f)
    BY DEF Candidates, Swaps, kSubset
  <2>3. \A i \in at : text[i] \notin Digits \cup {"<"}
    BY <2>2, DigitsStay
  <2>4. \A i \in DOMAIN text \ Differ(text, printed) : text[i] \in Digits \cup {"<"}
    BY DEF Differ, Range
  <2>5. \A i \in Differ(text, printed) : text[i] \notin Digits
    BY DigitsStay
  <2>6. f # "number"
    BY DEF Dates
  <2>7. \A i \in DOMAIN text \ at : text[i] \in Digits
    <3>1. Range(Swapped(f, text, at)) \subseteq Digits
      BY <2>6 DEF Candidates
    <3>2. \A i \in DOMAIN text \ at : Swapped(f, text, at)[i] = text[i]
      BY DEF Swapped
    <3>3. DOMAIN Swapped(f, text, at) = DOMAIN text
      BY DEF Swapped
    <3> QED BY <3>1, <3>2, <3>3 DEF Range
  <2>8. Differ(text, printed) \subseteq DOMAIN text
    BY DEF Differ
  <2> QED BY <2>1, <2>3, <2>4, <2>5, <2>7, <2>8
<1>2. cands = {Differ(text, printed)}
  BY <1>1
<1>3. (CHOOSE at \in cands : \A other \in cands \ {at} :
           Before(Rank(f, text, at), Rank(f, text, other))) = Differ(text, printed)
  BY <1>2
<1>4. BestReading(f, text, check) = Swapped(f, text, Differ(text, printed))
  BY <1>3 DEF BestReading
<1> QED BY <1>4, MisreadsSwapped

\* A date with an unknown part has no candidate.
LEMMA FillersRefused ==
    ASSUME NEW f \in Dates, NEW text \in Seq(Letters), NEW check,
           Range(text) \subseteq Digits \cup {"<"}, ~(Range(text) \subseteq Digits)
    PROVE  Candidates(f, text, check) = {}
<1>1. PICK i \in DOMAIN text : text[i] = "<" /\ text[i] \notin Digits
  BY DEF Range
<1> SUFFICES ASSUME NEW at \in Candidates(f, text, check)
             PROVE  FALSE
  OBVIOUS
<1>2. i \notin at
  BY <1>1, DigitsStay DEF Candidates, Swaps, kSubset
<1>3. Swapped(f, text, at)[i] = "<" /\ i \in DOMAIN Swapped(f, text, at)
  BY <1>1, <1>2 DEF Swapped
<1>4. f # "number"
  BY DEF Dates
<1> QED BY <1>1, <1>3, <1>4 DEF Candidates, Range

-----------------------------------------------------------------------------
(* Pages and pictures.                                                     *)

LEMMA PageFields ==
    ASSUME page \in Pages, NEW f \in Fields
    PROVE  /\ page \in [Fields -> Seq(Letters)] /\ page[f] \in Seq(Letters)
           /\ f \in Dates => Range(page[f]) \subseteq Digits \cup {"<"}
BY AccessKeyAssumption DEF Fields, Dates

\* A picture has a text of the printed length for every field.
LEMMA PictureOfThePage ==
    ASSUME page \in Pages, photo \in Photos, NEW f \in Fields
    PROVE  /\ photo[f].text \in Seq(Letters)
           /\ DOMAIN photo[f].text = DOMAIN page[f]
<1>1. Exact \in [Fields -> [text : Seq(Letters), check : {CheckDigit(page[g]) : g \in Fields}]]
  BY PageFields DEF Exact
<1>2. \A g \in Fields : Exact[g].text = page[g]
  BY DEF Exact
<1>3. PICK g \in Fields : \E text, check :
          /\ photo = [Exact EXCEPT ![g] = [text |-> text, check |-> check]]
          /\ text \in [DOMAIN page[g] -> UNION {Misread(g, c) : c \in Range(page[g])}]
  BY DEF Photos
<1>4. PICK text, check :
          /\ photo = [Exact EXCEPT ![g] = [text |-> text, check |-> check]]
          /\ text \in [DOMAIN page[g] -> UNION {Misread(g, c) : c \in Range(page[g])}]
  BY <1>3
<1>5. CASE f = g
  <2>1. photo[f].text = text
    BY <1>1, <1>4, <1>5
  <2>2. Range(page[g]) \subseteq Letters
    BY PageFields DEF Range
  <2>3. "7" \in Letters
    <3>1. Alphabet[8] = "7" /\ 8 \in DOMAIN Alphabet
      BY DEF Alphabet
    <3> QED BY <3>1 DEF Letters, Range
  <2>4. \A c \in Range(page[g]) : Misread(g, c) \subseteq Letters
    BY <2>2, <2>3 DEF Misread
  <2>5. text \in [DOMAIN page[g] -> Letters]
    BY <1>4, <2>4
  <2>6. DOMAIN page[g] = 1 .. Len(page[g]) /\ Len(page[g]) \in Nat
    BY PageFields
  <2>7. text \in Seq(Letters)
    BY <2>5, <2>6
  <2> QED BY <1>5, <2>1, <2>5, <2>7
<1>6. CASE f # g
  <2>1. photo[f].text = page[f]
    BY <1>1, <1>2, <1>4, <1>6
  <2> QED BY <2>1, PageFields
<1> QED BY <1>5, <1>6

\* An exact picture of a page with full dates gives the page's key.
LEMMA ExactKey ==
    ASSUME page \in Pages, FullDates
    PROVE  Readable(Exact) /\ AccessFields(Exact) = KeyOf(page)
<1>1. ASSUME NEW f \in Fields
      PROVE  /\ Candidates(f, Exact[f].text, Exact[f].check) # {}
             /\ BestReading(f, Exact[f].text, Exact[f].check) = page[f]
  <2>1. Exact[f].text = page[f] /\ Exact[f].check = CheckDigit(page[f])
    BY DEF Exact
  <2>2. f # "number" => Range(page[f]) \subseteq Digits
    BY DEF Fields, FullDates
  <2> QED BY <2>1, <2>2, PageFields, ValidIsBest
<1>2. [f \in Fields |-> BestReading(f, Exact[f].text, Exact[f].check)] = page
  BY <1>1, AccessKeyAssumption
<1> QED BY <1>1, <1>2 DEF Readable, AccessFields

\* An exact picture of a page with an unknown part in a date has no key.
LEMMA ExactUnread ==
    ASSUME page \in Pages, ~FullDates
    PROVE  ~Readable(Exact)
<1>1. PICK f \in Dates : ~(Range(page[f]) \subseteq Digits)
  BY DEF FullDates, Dates
<1>2. f \in Fields
  BY DEF Fields, Dates
<1>3. Candidates(f, page[f], Exact[f].check) = {}
  BY <1>1, <1>2, PageFields, FillersRefused
<1> QED BY <1>2, <1>3 DEF Readable, Exact

\* What look-alikes got wrong can be read.
LEMMA RecoverableReadable ==
    ASSUME page \in Pages, photo \in Photos, FullDates, LookAlikesOnly
    PROVE  Readable(photo)
<1> SUFFICES ASSUME NEW f \in Fields
             PROVE  Candidates(f, photo[f].text, photo[f].check) # {}
  BY DEF Readable
<1>1. photo[f].check = CheckDigit(page[f])
  BY DEF LookAlikesOnly, Exact
<1>2. f # "number" => Range(page[f]) \subseteq Digits
  BY DEF Fields, FullDates
<1>3. Differ(photo[f].text, page[f]) \in Candidates(f, photo[f].text, CheckDigit(page[f]))
  BY <1>2, PageFields, PictureOfThePage, MisreadsTried DEF LookAlikesOnly
<1> QED BY <1>1, <1>3

\* The dates of such a reading are the page's.
LEMMA DatesRead ==
    ASSUME page \in Pages, photo \in Photos, LookAlikesOnly, Readable(photo)
    PROVE  AccessFields(photo).birth = page.birth /\ AccessFields(photo).expiry = page.expiry
<1>1. ASSUME NEW f \in Dates
      PROVE  BestReading(f, photo[f].text, photo[f].check) = page[f]
  <2>1. f \in Fields
    BY DEF Fields, Dates
  <2>2. page[f] \in Seq(Letters) /\ Range(page[f]) \subseteq Digits \cup {"<"}
    BY <2>1, PageFields
  <2>3. photo[f].text \in Seq(Letters) /\ DOMAIN photo[f].text = DOMAIN page[f]
    BY <2>1, PictureOfThePage
  <2>4. \A i \in Differ(photo[f].text, page[f]) : <<photo[f].text[i], page[f][i]>> \in Confuse(f)
    BY <2>1 DEF LookAlikesOnly
  <2>5. Candidates(f, photo[f].text, photo[f].check) # {}
    BY <2>1 DEF Readable
  <2> QED BY <2>2, <2>3, <2>4, <2>5, DatesUnmistaken
<1>2. \A f \in Dates : AccessFields(photo)[f] = BestReading(f, photo[f].text, photo[f].check)
  <2> DEFINE texts == [f \in Fields |-> BestReading(f, photo[f].text, photo[f].check)]
  <2>1. DOMAIN texts = Fields /\ Dates \subseteq Fields /\ "number" \notin Dates
    BY DEF Fields, Dates
  <2>2. \A f \in Dates : texts[f] = BestReading(f, photo[f].text, photo[f].check)
    BY <2>1
  <2>3. AccessFields(photo) = KeyOf(texts)
    BY DEF AccessFields
  <2> HIDE DEF texts
  <2>4. \A f \in Dates : KeyOf(texts)[f] = texts[f]
    BY <2>1 DEF KeyOf
  <2> QED BY <2>2, <2>3, <2>4
<1> QED BY <1>1, <1>2 DEF Dates

\* The best reading of a field is a text, all digits if the field is a date.
LEMMA ReadingIsText ==
    ASSUME NEW f, NEW text \in Seq(Letters), NEW check, Candidates(f, text, check) # {}
    PROVE  /\ BestReading(f, text, check) \in Seq(Letters)
           /\ f # "number" => Range(BestReading(f, text, check)) \subseteq Digits
<1>1. PICK best \in Candidates(f, text, check) :
          BestReading(f, text, check) = Swapped(f, text, best)
  BY BestExists
<1>2. best \in Swaps(f, text)
  BY DEF Candidates
<1>3. f # "number" => Range(Swapped(f, text, best)) \subseteq Digits
  BY DEF Candidates
<1> QED BY <1>1, <1>2, <1>3, SwapChanges

\* A key has no filler in it.
LEMMA KeyHasNoFiller ==
    ASSUME page \in Pages, photo \in Photos, Readable(photo), NEW f \in Fields
    PROVE  Range(AccessFields(photo)[f]) \subseteq Letters \ {"<"}
<1> DEFINE texts == [g \in Fields |-> BestReading(g, photo[g].text, photo[g].check)]
<1>1. photo[f].text \in Seq(Letters) /\ Candidates(f, photo[f].text, photo[f].check) # {}
  BY PictureOfThePage DEF Readable
<1>2. texts[f] \in Seq(Letters) /\ (f # "number" => Range(texts[f]) \subseteq Digits)
  BY <1>1, ReadingIsText
<1>3. AccessFields(photo) = KeyOf(texts) /\ DOMAIN texts = Fields
  BY DEF AccessFields
<1> HIDE DEF texts
<1>4. CASE f = "number"
  <2>1. KeyOf(texts)[f] = Unfilled(texts[f])
    BY <1>3, <1>4 DEF KeyOf
  <2>2. Unfilled(texts[f]) \in Seq(Letters \ {"<"})
    BY <1>2, UnfilledLeaves
  <2>3. Range(Unfilled(texts[f])) \subseteq Letters \ {"<"}
    BY <2>2 DEF Range
  <2> QED BY <1>3, <2>1, <2>3
<1>5. CASE f # "number"
  <2>1. KeyOf(texts)[f] = texts[f]
    BY <1>3, <1>5 DEF KeyOf
  <2> QED BY <1>2, <1>3, <1>5, <2>1, DigitsAreLetters
<1> QED BY <1>4, <1>5

\* The check character of a picture is a character.
LEMMA PictureChecks ==
    ASSUME page \in Pages, photo \in Photos, NEW f \in Fields
    PROVE  photo[f].check \in Letters
<1>1. \A g \in Fields : Exact[g].check \in Letters
  BY PageFields, CheckIsLetter DEF Exact
<1>2. PICK g \in Fields : \E text, check :
          /\ photo = [Exact EXCEPT ![g] = [text |-> text, check |-> check]]
          /\ check \in Misread("number", Exact[g].check)
  BY DEF Photos
<1>3. PICK text, check :
          /\ photo = [Exact EXCEPT ![g] = [text |-> text, check |-> check]]
          /\ check \in Misread("number", Exact[g].check)
  BY <1>2
<1>4. Misread("number", Exact[g].check) \subseteq Letters
  BY <1>1, DigitsAre, DigitsAreLetters DEF Misread
<1>5. DOMAIN Exact = Fields
  BY DEF Exact
<1>6. CASE f = g
  BY <1>3, <1>4, <1>5, <1>6
<1>7. CASE f # g
  BY <1>1, <1>3, <1>5, <1>7
<1> QED BY <1>6, <1>7

\* A number misread by look-alikes is read as one that is no farther from the picture
\* than the page.
LEMMA NumberNearest ==
    ASSUME page \in Pages, photo \in Photos, LookAlikesOnly
    PROVE  Cardinality(Differ(photo.number.text,
                              BestReading("number", photo.number.text, photo.number.check)))
               <= Cardinality(Differ(photo.number.text, page.number))
<1> DEFINE text == photo.number.text
           printed == page.number
<1>1. "number" \in Fields
  BY DEF Fields
<1>2. printed \in Seq(Letters) /\ text \in Seq(Letters) /\ DOMAIN text = DOMAIN printed
  BY <1>1, PageFields, PictureOfThePage
<1>3. photo.number.check = CheckDigit(printed)
  BY <1>1 DEF LookAlikesOnly, Exact
<1>4. /\ \A i \in Differ(text, printed) : <<text[i], printed[i]>> \in Confuse("number")
      /\ Cardinality(Differ(text, printed)) <= 2
  BY <1>1 DEF LookAlikesOnly
<1> HIDE DEF text, printed
<1>5. Differ(text, printed) \in Candidates("number", text, CheckDigit(printed))
  BY <1>2, <1>4, MisreadsTried
<1>6. Cardinality(Differ(text, BestReading("number", text, CheckDigit(printed))))
          <= Cardinality(Differ(text, printed))
  BY <1>2, <1>5, BestIsNearest
<1> QED BY <1>3, <1>6 DEF text, printed

\* Of all look-alikes only 6 and G have one value modulo ten.
LEMMA LookAlikesTold ==
    ASSUME NEW c, NEW d, <<c, d>> \in ConfuseAlnum, NEW w \in {7, 3, 1}
    PROVE  ((CharValue(c) - CharValue(d)) * w) % 10 = 0 <=> d \in {"6", "G"}
<1>1. <<c, d>> \in {<<"0", "O">>, <<"1", "I">>, <<"5", "S">>, <<"8", "B">>, <<"2", "Z">>, <<"6", "G">>,
                    <<"O", "0">>, <<"I", "1">>, <<"S", "5">>, <<"B", "8">>, <<"Z", "2">>, <<"G", "6">>}
  BY DEF ConfuseAlnum, Pair
<1>2. /\ CharValue(c) - CharValue(d) \in {24, -24, 17, -17, 23, -23, 3, -3, 33, -33, 10, -10}
      /\ CharValue(c) - CharValue(d) \in {10, -10} <=> d \in {"6", "G"}
  BY <1>1, ValuesOfLookAlikes
<1>3. \A m \in {24, -24, 17, -17, 23, -23, 3, -3, 33, -33, 10, -10} :
          (m * w) % 10 = 0 <=> m \in {10, -10}
  OBVIOUS
<1> QED BY <1>2, <1>3

\* A picture's text is its own best reading only if it satisfies the check digit.
LEMMA BestChecks ==
    ASSUME NEW f, NEW text \in Seq(Letters), NEW check, Candidates(f, text, check) # {}
    PROVE  CheckDigit(BestReading(f, text, check)) = check
<1>1. PICK best \in Candidates(f, text, check) :
          BestReading(f, text, check) = Swapped(f, text, best)
  BY BestExists
<1> QED BY <1>1 DEF Candidates

\* One look-alike in the number is corrected to something else, unless it is of 6 and G.
LEMMA OneIsNoticed ==
    ASSUME page \in Pages, photo \in Photos, LookAlikesOnly,
           NEW i \in DOMAIN page.number, Differ(photo.number.text, page.number) = {i}
    PROVE  photo.number.text = BestReading("number", photo.number.text, photo.number.check)
               <=> page.number[i] \in {"6", "G"}
<1> DEFINE text == photo.number.text
           printed == page.number
           check == photo.number.check
<1>1. "number" \in Fields
  BY DEF Fields
<1>2. printed \in Seq(Letters) /\ text \in Seq(Letters) /\ DOMAIN text = DOMAIN printed
  BY <1>1, PageFields, PictureOfThePage
<1>3. check = CheckDigit(printed)
  BY <1>1 DEF LookAlikesOnly, Exact
<1>4. /\ \A j \in Differ(text, printed) : <<text[j], printed[j]>> \in Confuse("number")
      /\ Cardinality(Differ(text, printed)) <= 2
  BY <1>1 DEF LookAlikesOnly
<1>5. i \in DOMAIN text /\ Differ(text, printed) = {i}
  BY <1>2
<1> HIDE DEF text, printed, check
<1>6. Candidates("number", text, check) # {}
  BY <1>2, <1>3, <1>4, MisreadsTried
<1>7. CheckDigit(text) = CheckDigit(printed) <=> printed[i] \in {"6", "G"}
  <2>1. \A j \in DOMAIN text \ {i} : text[j] = printed[j]
    BY <1>5 DEF Differ
  <2>2. PICK w \in {7, 3, 1} : CheckDigit(text) = CheckDigit(printed)
            <=> ((CharValue(text[i]) - CharValue(printed[i])) * w) % 10 = 0
    BY <1>2, <1>5, <2>1, CheckOfOneChange
  <2>3. <<text[i], printed[i]>> \in ConfuseAlnum
    BY <1>4, <1>5 DEF Confuse
  <2>4. ((CharValue(text[i]) - CharValue(printed[i])) * w) % 10 = 0 <=> printed[i] \in {"6", "G"}
    BY <2>3, LookAlikesTold
  <2> QED BY <2>2, <2>4
<1>8. CASE printed[i] \in {"6", "G"}
  <2>1. CheckDigit(text) = check
    BY <1>3, <1>7, <1>8
  <2>2. BestReading("number", text, CheckDigit(text)) = text
    BY <1>2, ValidIsBest
  <2> QED BY <1>8, <2>1, <2>2 DEF text, printed, check
<1>9. CASE printed[i] \notin {"6", "G"}
  <2>1. CheckDigit(text) # check
    BY <1>3, <1>7, <1>9
  <2>2. CheckDigit(BestReading("number", text, check)) = check
    BY <1>2, <1>6, BestChecks
  <2> QED BY <1>9, <2>1, <2>2 DEF text, printed, check
<1> QED BY <1>8, <1>9

-----------------------------------------------------------------------------
(* The inductive invariant: a picture is one of the page in hand, and an   *)
(* answer the one to that picture.                                         *)

Answers ==
    \/ answer = None
    \/ answer = [status |-> 400]
    \/ photo = None /\ answer = [status |-> 422]
    \/ /\ photo # None
       /\ answer = IF Readable(photo) THEN [status |-> 200, key |-> AccessFields(photo)]
                   ELSE [status |-> 422]

IInv ==
    /\ page \in Pages
    /\ photo # None => photo \in Photos
    /\ Answers
    /\ chip \in {"closed", "open"}
    /\ chip = "open" => photo = None /\ answer = None

LEMMA Inductive == Spec => []IInv
<1>1. Init => IInv
  BY DEF Init, IInv, Answers
<1>2. IInv /\ [Next]_vars => IInv'
  <2> SUFFICES ASSUME IInv, [Next]_vars
               PROVE  IInv'
    OBVIOUS
  <2> USE DEF IInv
  <2>1. CASE Photograph
    BY <2>1 DEF Photograph, Photos, Exact, Answers
  <2>2. CASE ReadMrz
    BY <2>2 DEF ReadMrz, Photos, Exact, Answers
  <2>3. CASE RefuseWallet
    BY <2>3 DEF RefuseWallet, Photos, Exact, Answers
  <2>4. CASE ReadNothing
    BY <2>4 DEF ReadNothing, Photos, Exact, Answers
  <2>5. CASE TryChip
    BY <2>5 DEF TryChip, Answers
  <2>6. CASE Retake
    BY <2>6 DEF Retake, Answers
  <2>7. CASE NextPage
    BY <2>7 DEF NextPage, Answers
  <2>8. CASE UNCHANGED vars
    BY <2>8 DEF vars, Photos, Exact, Answers
  <2> QED BY <2>1, <2>2, <2>3, <2>4, <2>5, <2>6, <2>7, <2>8 DEF Next
<1> QED BY <1>1, <1>2, PTL DEF Spec

\* What the check digit is for (_check_digit): of two fields that differ in one
\* character it tells the difference, unless the characters' values are equal modulo
\* ten, as those of 6 and G are - for fields of any length, wherever the character is.
THEOREM OneChangeIsNoticed ==
    ASSUME NEW text \in Seq(Letters), NEW other \in Seq(Letters), DOMAIN text = DOMAIN other,
           NEW i \in DOMAIN text, \A j \in DOMAIN text \ {i} : text[j] = other[j]
    PROVE  CheckDigit(text) = CheckDigit(other)
               <=> CharValue(text[i]) % 10 = CharValue(other[i]) % 10
<1> DEFINE u == CharValue(text[i])
           v == CharValue(other[i])
<1>1. PICK w \in {7, 3, 1} :
          CheckDigit(text) = CheckDigit(other) <=> ((u - v) * w) % 10 = 0
  BY CheckOfOneChange
<1>2. u \in Nat /\ v \in Nat
  BY ValueIsNat
<1> HIDE DEF u, v
<1>3. \A d \in Int : (d * 7) % 10 = 0 <=> d % 10 = 0
  OBVIOUS
<1>4. \A d \in Int : (d * 3) % 10 = 0 <=> d % 10 = 0
  OBVIOUS
<1>5. \A d \in Int : (d * 1) % 10 = 0 <=> d % 10 = 0
  OBVIOUS
<1>6. ((u - v) * w) % 10 = 0 <=> (u - v) % 10 = 0
  BY <1>2, <1>3, <1>4, <1>5
<1>7. (u - v) % 10 = 0 <=> u % 10 = v % 10
  BY <1>2
<1> QED BY <1>1, <1>6, <1>7 DEF u, v

\* A picture without a mistake gives the key that opens the chip, however many
\* other readings the look-alikes and the check digits allow, for numbers and dates
\* of any length; with an unknown part in a date it never does.
THEOREM ExactReadsOpen == Spec => []ExactReadOpens
<1>1. IInv => ExactReadOpens
  BY ExactKey, ExactUnread DEF IInv, Answers, ExactReadOpens
<1> QED BY <1>1, Inductive, PTL

\* A picture with at most two look-alikes in a field is never refused as unreadable.
THEOREM RecoverableNotRefused == Spec => []RecoverableIsNotRefused
<1>1. IInv => RecoverableIsNotRefused
  BY RecoverableReadable DEF IInv, Answers, RecoverableIsNotRefused
<1> QED BY <1>1, Inductive, PTL

\* Pictures are rows of characters, and no key that is handed out holds a filler.
THEOREM AccessKeyTypeCorrect == Spec => []TypeOK
<1>1. IInv => TypeOK
  <2> SUFFICES ASSUME IInv PROVE TypeOK
    OBVIOUS
  <2>1. photo # None =>
            \A f \in Fields : photo[f].text \in Seq(Letters) /\ photo[f].check \in Letters
    BY PictureOfThePage, PictureChecks DEF IInv
  <2>2. \/ answer = None \/ answer \in [status : {400, 422}]
        \/ answer.status = 200 /\ \A f \in Fields : Range(answer.key[f]) \subseteq Letters \ {"<"}
    <3>1. CASE \/ answer = None \/ answer = [status |-> 400] \/ answer = [status |-> 422]
      BY <3>1
    <3>2. CASE photo # None /\ Readable(photo)
               /\ answer = [status |-> 200, key |-> AccessFields(photo)]
      BY <3>2, KeyHasNoFiller DEF IInv
    <3> QED BY <3>1, <3>2 DEF IInv, Answers
  <2>3. chip \in {"closed", "open"} /\ page \in Pages
    BY DEF IInv
  <2> QED BY <2>1, <2>2, <2>3 DEF TypeOK
<1> QED BY <1>1, Inductive, PTL

\* What a picture with no mistakes but look-alikes leads to: never a wrong date; a wrong
\* number only where another reading of no more corrections satisfies the same check
\* digit; and one look-alike in the number is always noticed, but for 6 and G.
THEOREM LookAlikesMisleadLittle == Spec => []LookAlikesMislead
<1>1. IInv => DatesAsPrinted
  BY DatesRead DEF IInv, Answers, DatesAsPrinted
<1>2. IInv => WrongNumberIsNearer
  BY NumberNearest DEF IInv, WrongNumberIsNearer
<1>3. IInv => OneLookAlikeIsNoticed
  BY OneIsNoticed DEF IInv, OneLookAlikeIsNoticed
<1>4. IInv => LookAlikesMislead
  BY <1>1, <1>2, <1>3 DEF LookAlikesMislead
<1> QED BY <1>4, Inductive, PTL

=============================================================================
