------------------------------ MODULE FoldLemmas ------------------------------
(***************************************************************************)
(* What the folds of the community modules compute, for the sums and       *)
(* statistics of the models. A fold is a recursive function on the subsets *)
(* of a finite set, so that its equation has to be proved before anything  *)
(* else: a set for which it failed, with as few elements as possible,      *)
(* leads to a contradiction.                                               *)
(***************************************************************************)
EXTENDS Integers, FiniteSetsExt, FiniteSetTheorems, WellFoundedInduction, TLAPS

\* Induction over the subsets of a finite set: among the bad ones there is one
\* all of whose proper subsets are good.
LEMMA SmallestBadSet ==
  ASSUME NEW S, IsFiniteSet(S), NEW Bad \in SUBSET SUBSET S, Bad # {}
  PROVE  \E T \in Bad : \A U \in SUBSET T : U # T => U \notin Bad
<1>1. IsWellFoundedOn(StrictSubsetOrdering(S), SUBSET S)
  BY FS_StrictSubsetOrderingWellFounded, FS_FiniteSubsetsOfFinite
<1>2. PICK T \in Bad : \A U \in Bad : <<U, T>> \notin StrictSubsetOrdering(S)
  BY <1>1, WFMin, Zenon
<1>3. ASSUME NEW U \in SUBSET T, U # T, U \in Bad PROVE FALSE
  BY <1>2, <1>3 DEF StrictSubsetOrdering
<1> QED BY <1>3

\* A non-empty finite set of naturals has a largest element.
LEMMA LargestNatural ==
  ASSUME NEW n \in Nat, NEW S \in SUBSET (1 .. n), S # {}
  PROVE  \E x \in S : \A y \in S : x >= y
<1> DEFINE Above == {n - x : x \in S}
<1>1. IsWellFoundedOn(OpToRel(<, Nat), Nat)
  BY NatLessThanWellFounded
<1>2. Above \subseteq Nat /\ Above # {}
  <2>1. Above # {}
    OBVIOUS
  <2>2. \A x \in S : n - x \in Nat
    OBVIOUS
  <2> QED BY <2>1, <2>2
<1>3. PICK a \in Above : \A b \in Above : <<b, a>> \notin OpToRel(<, Nat)
  <2> HIDE DEF Above
  <2> QED BY <1>1, <1>2, WFMin, Zenon
<1>4. \A b \in Above : ~(b < a)
  BY <1>2, <1>3 DEF OpToRel
<1>5. PICK x \in S : a = n - x
  BY <1>3
<1>6. ASSUME NEW y \in S PROVE x >= y
  BY <1>4, <1>5
<1> QED BY <1>6

-----------------------------------------------------------------------------
(***************************************************************************)
(* Recursion on the subsets of S: from b at the empty set, by op with the  *)
(* element that c chooses; op is a function, and nothing is said of what   *)
(* is outside its domain.                                                  *)
(***************************************************************************)
Fits(op, S, V) == op \in [S \X V -> V]

Chooses(c, S) == \A T \in SUBSET S : T # {} => c[T] \in T

Recurs(g, c, op, b, S) ==
  /\ g[{}] = b
  /\ \A T \in SUBSET S :
       LET p == <<c[T], g[T \ {c[T]}]>>
       IN  T # {} /\ p \in DOMAIN op => g[T] = op[p]

\* Its values are those of op.
LEMMA RecursionTyped ==
  ASSUME NEW S, IsFiniteSet(S), NEW c, Chooses(c, S),
         NEW V, NEW b \in V, NEW op, Fits(op, S, V), NEW g, Recurs(g, c, op, b, S)
  PROVE  \A T \in SUBSET S : g[T] \in V
<1> DEFINE Bad == {T \in SUBSET S : g[T] \notin V}
<1>1. SUFFICES ASSUME Bad # {} PROVE FALSE
  OBVIOUS
<1>2. PICK T \in Bad : \A U \in SUBSET T : U # T => U \notin Bad
  <2>1. Bad \in SUBSET SUBSET S
    OBVIOUS
  <2> HIDE DEF Bad
  <2> QED BY <1>1, <2>1, SmallestBadSet, Zenon
<1>3. T # {}
  BY <1>2 DEF Recurs
<1>4. c[T] \in T /\ c[T] \in S
  BY <1>2, <1>3 DEF Chooses
<1>5. g[T \ {c[T]}] \in V
  BY <1>2, <1>4
<1>6. <<c[T], g[T \ {c[T]}]>> \in S \X V
  BY <1>4, <1>5
<1> QED BY <1>2, <1>3, <1>6 DEF Recurs, Fits

\* It has one solution at most, on the subsets two of them share too.
LEMMA RecursionUnique ==
  ASSUME NEW S, IsFiniteSet(S), NEW c, Chooses(c, S),
         NEW V, NEW b \in V, NEW op, Fits(op, S, V),
         NEW g, Recurs(g, c, op, b, S), NEW h, NEW R \in SUBSET S, Recurs(h, c, op, b, R)
  PROVE  \A T \in SUBSET R : g[T] = h[T]
<1> DEFINE Bad == {T \in SUBSET R : g[T] # h[T]}
<1>1. SUFFICES ASSUME Bad # {} PROVE FALSE
  OBVIOUS
<1>2. PICK T \in Bad : \A U \in SUBSET T : U # T => U \notin Bad
  <2>1. Bad \in SUBSET SUBSET S
    OBVIOUS
  <2> HIDE DEF Bad
  <2> QED BY <1>1, <2>1, SmallestBadSet, Zenon
<1>3. T \in SUBSET R /\ T \in SUBSET S
  BY <1>2
<1>4. T # {}
  BY <1>2, <1>3 DEF Recurs
<1>5. c[T] \in T
  BY <1>3, <1>4 DEF Chooses
<1>6. g[T \ {c[T]}] = h[T \ {c[T]}]
  BY <1>2, <1>3, <1>5
<1>7. <<c[T], g[T \ {c[T]}]>> \in DOMAIN op
  <2>1. \A U \in SUBSET S : g[U] \in V
    BY RecursionTyped, Zenon
  <2> QED BY <1>3, <1>5, <2>1 DEF Fits
<1> QED BY <1>2, <1>3, <1>4, <1>6, <1>7 DEF Recurs

\* And it has one: the least set of pairs that is closed under the recursion is
\* a function.
LEMMA RecursionExists ==
  ASSUME NEW S, IsFiniteSet(S), NEW c, Chooses(c, S),
         NEW V, NEW b \in V, NEW op, Fits(op, S, V)
  PROVE  \E g \in [SUBSET S -> V] : Recurs(g, c, op, b, S)
<1> DEFINE Pairs == (SUBSET S) \X V
           Closed(P) ==
             /\ <<{}, b>> \in P
             /\ \A T \in SUBSET S, v \in V :
                  T # {} /\ <<T \ {c[T]}, v>> \in P => <<T, op[<<c[T], v>>]>> \in P
           Least == {p \in Pairs : \A P \in SUBSET Pairs : Closed(P) => p \in P}
           One(T) == \E v \in V : /\ <<T, v>> \in Least
                                  /\ \A w \in V : <<T, w>> \in Least => w = v
           Bad == {T \in SUBSET S : ~One(T)}
<1>1. \A T \in SUBSET S, v \in V : T # {} => c[T] \in S /\ op[<<c[T], v>>] \in V
  BY DEF Chooses, Fits
<1>2. Closed(Least)
  <2>1. <<{}, b>> \in Least
    OBVIOUS
  <2>2. ASSUME NEW T \in SUBSET S, NEW v \in V, T # {}, <<T \ {c[T]}, v>> \in Least
        PROVE  <<T, op[<<c[T], v>>]>> \in Least
    <3>1. <<T, op[<<c[T], v>>]>> \in Pairs
      BY <1>1, <2>2
    <3>2. ASSUME NEW P \in SUBSET Pairs, Closed(P) PROVE <<T, op[<<c[T], v>>]>> \in P
      BY <2>2, <3>2
    <3> QED BY <3>1, <3>2
  <2> QED BY <2>1, <2>2
<1>3. ASSUME NEW P \in SUBSET Pairs, Closed(P) PROVE Least \subseteq P
  BY <1>3
<1> HIDE DEF Least
<1>4. Least \subseteq Pairs
  BY DEF Least
<1>5. One({})
  <2>1. ASSUME NEW w \in V, <<{}, w>> \in Least, w # b PROVE FALSE
    <3> DEFINE P == Least \ {<<{}, w>>}
    <3>1. Closed(P)
      BY <1>2, <2>1
    <3>2. P \in SUBSET Pairs
      BY <1>4
    <3> QED BY <1>3, <2>1, <3>1, <3>2
  <2> QED BY <1>2, <2>1
<1>6. ASSUME NEW T \in SUBSET S, T # {}, One(T \ {c[T]}) PROVE One(T)
  <2>1. PICK v \in V : /\ <<T \ {c[T]}, v>> \in Least
                       /\ \A w \in V : <<T \ {c[T]}, w>> \in Least => w = v
    BY <1>6
  <2> DEFINE u == op[<<c[T], v>>]
  <2>2. u \in V /\ <<T, u>> \in Least
    BY <1>1, <1>2, <1>6, <2>1
  <2>3. ASSUME NEW w \in V, <<T, w>> \in Least, w # u PROVE FALSE
    <3> DEFINE P == Least \ {<<T, w>>}
    <3>1. <<{}, b>> \in P
      BY <1>2, <1>6
    <3>2. ASSUME NEW R \in SUBSET S, NEW x \in V, R # {}, <<R \ {c[R]}, x>> \in P
          PROVE  <<R, op[<<c[R], x>>]>> \in P
      <4>1. <<R, op[<<c[R], x>>]>> \in Least
        BY <1>2, <3>2
      <4>2. CASE R = T
        BY <2>1, <2>3, <3>2, <4>1, <4>2
      <4>3. CASE R # T
        BY <4>1, <4>3
      <4> QED BY <4>2, <4>3
    <3>3. P \in SUBSET Pairs /\ Closed(P)
      BY <1>4, <3>1, <3>2
    <3> QED BY <1>3, <2>3, <3>3
  <2> QED BY <2>2, <2>3
<1>7. Bad = {}
  <2>1. SUFFICES ASSUME Bad # {} PROVE FALSE
    OBVIOUS
  <2>2. PICK T \in Bad : \A U \in SUBSET T : U # T => U \notin Bad
    <3>1. Bad \in SUBSET SUBSET S
      OBVIOUS
    <3> HIDE DEF Bad
    <3> QED BY <2>1, <3>1, SmallestBadSet, Zenon
  <2>3. T \in SUBSET S /\ T # {} /\ ~One(T)
    BY <1>5, <2>2
  <2>4. c[T] \in T /\ One(T \ {c[T]})
    <3> HIDE DEF One
    <3> QED BY <2>2, <2>3 DEF Chooses
  <2> QED BY <1>6, <2>3, <2>4
<1> DEFINE g == [T \in SUBSET S |-> CHOOSE v \in V : <<T, v>> \in Least]
<1>8. \A T \in SUBSET S : /\ g[T] \in V /\ <<T, g[T]>> \in Least
                          /\ \A w \in V : <<T, w>> \in Least => w = g[T]
  BY <1>7
<1>9. Recurs(g, c, op, b, S)
  <2> HIDE DEF g
  <2>1. g[{}] = b
    BY <1>2, <1>8
  <2>2. ASSUME NEW T \in SUBSET S, T # {} PROVE g[T] = op[<<c[T], g[T \ {c[T]}]>>]
    <3>1. T \ {c[T]} \in SUBSET S
      OBVIOUS
    <3>2. <<T, op[<<c[T], g[T \ {c[T]}]>>]>> \in Least /\ op[<<c[T], g[T \ {c[T]}]>>] \in V
      BY <1>1, <1>2, <1>8, <2>2, <3>1
    <3> QED BY <1>8, <3>2
  <2> QED BY <2>1, <2>2 DEF Recurs
<1>10. g \in [SUBSET S -> V]
  BY <1>8
<1> QED BY <1>9, <1>10

-----------------------------------------------------------------------------
(***************************************************************************)
(* The sum of f over a finite set.                                         *)
(***************************************************************************)
CountsOn(f, S) == \A x \in S : f[x] \in Nat

SumOf(f, S) == MapThenSumSet(LAMBDA x : f[x], S)

Chosen(S) == [T \in SUBSET S |-> CHOOSE x \in T : TRUE]

Plus(f, S) == [p \in S \X Nat |-> f[p[1]] + p[2]]

LEMMA SumRecurs ==
  ASSUME NEW S, IsFiniteSet(S), NEW f, CountsOn(f, S)
  PROVE  \E g \in [SUBSET S -> Nat] : /\ Recurs(g, Chosen(S), Plus(f, S), 0, S)
                                      /\ SumOf(f, S) = g[S]
<1> DEFINE c == Chosen(S)
           op == Plus(f, S)
           Step(h) == [T \in SUBSET S |->
                         IF T = {} THEN 0
                         ELSE f[CHOOSE x \in T : TRUE] + h[T \ {CHOOSE x \in T : TRUE}]]
           iter == CHOOSE h : h = Step(h)
<1>1. Chooses(c, S) /\ Fits(op, S, Nat)
  BY DEF Chooses, Fits, Chosen, Plus, CountsOn
<1>2. PICK g \in [SUBSET S -> Nat] : Recurs(g, c, op, 0, S)
  <2> HIDE DEF c, op
  <2>1. 0 \in Nat
    OBVIOUS
  <2> QED BY <1>1, <2>1, RecursionExists, Zenon
<1>3. g = Step(g)
  <2>1. ASSUME NEW T \in SUBSET S, T # {}
        PROVE  g[T] = f[CHOOSE x \in T : TRUE] + g[T \ {CHOOSE x \in T : TRUE}]
    <3>1. c[T] = (CHOOSE x \in T : TRUE) /\ c[T] \in S
      BY <2>1 DEF Chosen
    <3>2. <<c[T], g[T \ {c[T]}]>> \in S \X Nat
      BY <3>1
    <3> QED BY <1>2, <2>1, <3>1, <3>2 DEF Recurs, Plus
  <2> QED BY <1>2, <2>1 DEF Recurs
<1>4. iter = Step(iter)
  BY <1>3
<1>5. iter[S] = SumOf(f, S)
  BY DEF SumOf, MapThenSumSet, MapThenFoldSet
<1>6. Recurs(iter, c, op, 0, S)
  <2> HIDE DEF iter
  <2>1. iter[{}] = 0
    BY <1>4
  <2>2. ASSUME NEW T \in SUBSET S, T # {}, <<c[T], iter[T \ {c[T]}]>> \in DOMAIN op
        PROVE  iter[T] = op[<<c[T], iter[T \ {c[T]}]>>]
    BY <1>4, <2>2 DEF Chosen, Plus
  <2> QED BY <2>1, <2>2 DEF Recurs
<1>7. iter[S] = g[S]
  <2>1. S \in SUBSET S /\ 0 \in Nat
    OBVIOUS
  <2> HIDE DEF iter, c, op
  <2>2. \A T \in SUBSET S : g[T] = iter[T]
    BY <1>1, <1>2, <1>6, <2>1, RecursionUnique, SMTT(30)
  <2> QED BY <2>1, <2>2
<1> QED BY <1>2, <1>5, <1>7

\* One function has the sums over all subsets.
Sums(g, f, S) ==
  /\ g \in [SUBSET S -> Nat]
  /\ Recurs(g, Chosen(S), Plus(f, S), 0, S)
  /\ \A T \in SUBSET S : SumOf(f, T) = g[T]

LEMMA SumsRecur ==
  ASSUME NEW S, IsFiniteSet(S), NEW f, CountsOn(f, S)
  PROVE  \E g : Sums(g, f, S)
<1>1. PICK g \in [SUBSET S -> Nat] : Recurs(g, Chosen(S), Plus(f, S), 0, S)
  BY SumRecurs
<1>2. Chooses(Chosen(S), S) /\ Fits(Plus(f, S), S, Nat)
  BY DEF Chooses, Fits, Chosen, Plus, CountsOn
<1>3. ASSUME NEW T \in SUBSET S PROVE SumOf(f, T) = g[T]
  <2>1. PICK h \in [SUBSET T -> Nat] : /\ Recurs(h, Chosen(T), Plus(f, T), 0, T)
                                       /\ SumOf(f, T) = h[T]
    <3>1. IsFiniteSet(T) /\ CountsOn(f, T)
      BY FS_Subset DEF CountsOn
    <3> QED BY <3>1, SumRecurs, Zenon
  <2>2. ASSUME NEW U \in SUBSET T, U # {}
        PROVE  h[U] = Plus(f, S)[<<Chosen(S)[U], h[U \ {Chosen(S)[U]}]>>]
    <3>1. Chosen(T)[U] = Chosen(S)[U] /\ Chosen(S)[U] \in T
      BY <2>2 DEF Chosen
    <3> DEFINE p == <<Chosen(S)[U], h[U \ {Chosen(S)[U]}]>>
    <3>2. p \in T \X Nat /\ p \in S \X Nat
      BY <3>1
    <3>3. h[U] = Plus(f, T)[p]
      BY <2>1, <2>2, <3>1, <3>2 DEF Recurs, Plus
    <3> QED BY <3>2, <3>3 DEF Plus
  <2>3. Recurs(h, Chosen(S), Plus(f, S), 0, T)
    BY <2>1, <2>2 DEF Recurs
  <2>4. \A U \in SUBSET T : g[U] = h[U]
    <3>1. 0 \in Nat
      OBVIOUS
    <3> QED BY <1>1, <1>2, <2>3, <3>1, RecursionUnique, SMTT(30)
  <2> QED BY <2>1, <2>4
<1> QED BY <1>1, <1>3 DEF Sums

\* Nothing adds up to zero, and any element can be taken out first.
LEMMA SumOfNothing == ASSUME NEW f PROVE SumOf(f, {}) = 0
<1>1. IsFiniteSet({}) /\ CountsOn(f, {})
  BY FS_EmptySet DEF CountsOn
<1> QED BY <1>1, SumRecurs DEF Recurs

LEMMA SumTakes ==
  ASSUME NEW S, IsFiniteSet(S), NEW f, CountsOn(f, S)
  PROVE  /\ SumOf(f, S) \in Nat
         /\ \A x \in S : SumOf(f, S) = f[x] + SumOf(f, S \ {x})
<1>0. PICK g : Sums(g, f, S)
  BY SumsRecur
<1>1. /\ g \in [SUBSET S -> Nat]
      /\ Recurs(g, Chosen(S), Plus(f, S), 0, S)
      /\ \A T \in SUBSET S : SumOf(f, T) = g[T]
  BY <1>0 DEF Sums
<1> DEFINE Bad == {T \in SUBSET S : \E x \in T : g[T] # f[x] + g[T \ {x}]}
<1>2. Bad = {}
  <2>1. SUFFICES ASSUME Bad # {} PROVE FALSE
    OBVIOUS
  <2>2. PICK T \in Bad : \A U \in SUBSET T : U # T => U \notin Bad
    <3>1. Bad \in SUBSET SUBSET S
      OBVIOUS
    <3> HIDE DEF Bad
    <3> QED BY <2>1, <3>1, SmallestBadSet, Zenon
  <2>3. PICK x \in T : g[T] # f[x] + g[T \ {x}]
    BY <2>2
  <2> DEFINE y == CHOOSE z \in T : TRUE
  <2>4. y \in T /\ y \in S /\ x \in S /\ T \in SUBSET S
    BY <2>2, <2>3
  <2>5. g[T] = f[y] + g[T \ {y}]
    <3>1. Chosen(S)[T] = y
      BY <2>4 DEF Chosen
    <3>2. <<y, g[T \ {y}]>> \in S \X Nat
      BY <1>1, <2>4
    <3> QED BY <1>1, <2>4, <3>1, <3>2 DEF Recurs, Plus
  <2> HIDE DEF y
  <2>6. x # y
    BY <2>3, <2>5
  <2>7. g[T \ {y}] = f[x] + g[(T \ {y}) \ {x}] /\ g[T \ {x}] = f[y] + g[(T \ {x}) \ {y}]
    BY <2>2, <2>4, <2>6
  <2>8. (T \ {y}) \ {x} = (T \ {x}) \ {y}
    OBVIOUS
  <2> DEFINE rest == g[(T \ {x}) \ {y}]
  <2>9. f[x] \in Nat /\ f[y] \in Nat /\ rest \in Nat
    <3>1. (T \ {x}) \ {y} \in SUBSET S
      BY <2>4
    <3> QED BY <1>1, <2>4, <3>1 DEF CountsOn
  <2>10. g[T] = f[y] + (f[x] + rest) /\ g[T \ {x}] = f[y] + rest
    BY <2>5, <2>7, <2>8
  <2> HIDE DEF rest
  <2> QED BY <2>3, <2>9, <2>10
<1>3. ASSUME NEW x \in S PROVE SumOf(f, S) = f[x] + SumOf(f, S \ {x})
  <2>1. S \notin Bad /\ S \in SUBSET S /\ S \ {x} \in SUBSET S
    BY <1>2
  <2> QED BY <1>1, <2>1
<1> QED BY <1>1, <1>3

\* Elements that add nothing can be left out.
LEMMA SumOfRest ==
  ASSUME NEW S, IsFiniteSet(S), NEW f, CountsOn(f, S),
         NEW R \in SUBSET S, \A x \in S \ R : f[x] = 0
  PROVE  SumOf(f, R) = SumOf(f, S)
<1> DEFINE Bad == {T \in SUBSET S : SumOf(f, T \cap R) # SumOf(f, T)}
<1>1. Bad = {}
  <2>1. SUFFICES ASSUME Bad # {} PROVE FALSE
    OBVIOUS
  <2>2. PICK T \in Bad : \A U \in SUBSET T : U # T => U \notin Bad
    <3>1. Bad \in SUBSET SUBSET S
      OBVIOUS
    <3> HIDE DEF Bad
    <3> QED BY <2>1, <3>1, SmallestBadSet, Zenon
  <2>3. T \in SUBSET S /\ SumOf(f, T \cap R) # SumOf(f, T)
    BY <2>2
  <2>4. PICK x \in T : TRUE
    <3>1. T = {} => T \cap R = T
      OBVIOUS
    <3> QED BY <2>3, <3>1
  <2>5. /\ IsFiniteSet(T) /\ CountsOn(f, T)
        /\ IsFiniteSet(T \cap R) /\ CountsOn(f, T \cap R)
    BY <2>3, FS_Subset DEF CountsOn
  <2>6. SumOf(f, T) = f[x] + SumOf(f, T \ {x})
    BY <2>5, SumTakes
  <2>7. SumOf(f, (T \ {x}) \cap R) = SumOf(f, T \ {x})
    BY <2>2, <2>3
  <2>8. CASE x \in R
    <3>1. SumOf(f, T \cap R) = f[x] + SumOf(f, (T \cap R) \ {x})
      BY <2>5, <2>8, SumTakes
    <3>2. (T \cap R) \ {x} = (T \ {x}) \cap R
      OBVIOUS
    <3> QED BY <2>3, <2>6, <2>7, <3>1, <3>2
  <2>9. CASE x \notin R
    <3>1. f[x] = 0 /\ (T \ {x}) \cap R = T \cap R
      BY <2>3, <2>9
    <3>2. IsFiniteSet(T \ {x}) /\ CountsOn(f, T \ {x})
      BY <2>3, FS_Subset DEF CountsOn
    <3>3. SumOf(f, T \ {x}) \in Nat
      BY <3>2, SumTakes
    <3>4. SumOf(f, T) = SumOf(f, T \ {x})
      BY <2>6, <3>1, <3>3
    <3> QED BY <2>3, <2>7, <3>1, <3>4
  <2> QED BY <2>8, <2>9
<1>2. S \cap R = R /\ S \in SUBSET S
  OBVIOUS
<1> QED BY <1>1, <1>2
=============================================================================
