----------------------------- MODULE ClockProofs -----------------------------
(***************************************************************************)
(* Lemmas about the clock of a route.  Its folds and its backward pass are *)
(* recursive functions: a first part proves, from the well-founded order   *)
(* of the naturals, that such functions exist and go step by step.  The    *)
(* rest says what the evaluation of an order computes: which window a stop *)
(* is served in, how a run goes on, when it is on time.                    *)
(***************************************************************************)
EXTENDS RouteClock, FiniteSetTheorems, WellFoundedInduction, SequenceTheorems, TLAPS

(* Induction on the natural numbers, for a set: a set that holds 0, and     *)
(* with every number the next one, holds them all.                          *)
LEMMA NatSet ==
  ASSUME NEW T, 0 \in T, \A n \in Nat : n \in T => n + 1 \in T
  PROVE  Nat \subseteq T
<1> DEFINE U == Nat \ T
           R == OpToRel(<, Nat)
<1>1. SUFFICES ASSUME U # {} PROVE FALSE
  OBVIOUS
<1>2. IsWellFoundedOn(R, Nat)
  BY NatLessThanWellFounded
<1>3. \E x \in U : \A y \in U : <<y, x>> \notin R
  <2> HIDE DEF R
  <2> QED BY <1>1, <1>2, WFMin
<1>4. PICK x \in U : \A y \in U : <<y, x>> \notin R
  BY <1>3
<1>5. x - 1 \in U
  <2>1. x \in Nat /\ x \notin T /\ x # 0
    OBVIOUS
  <2>2. x - 1 \in Nat /\ (x - 1) + 1 = x
    BY <2>1
  <2> QED BY <2>1, <2>2
<1>6. <<x - 1, x>> \in R
  BY <1>4, <1>5 DEF OpToRel
<1> QED BY <1>4, <1>5, <1>6

(* Induction on a measure, for a set: what holds of an element as soon as   *)
(* it holds of those of a smaller measure holds of all.                     *)
LEMMA MeasuredInduction ==
  ASSUME NEW S, NEW m \in [S -> Nat], NEW T,
         \A x \in S : (\A y \in S : m[y] < m[x] => y \in T) => x \in T
  PROVE  S \subseteq T
<1> DEFINE Below == {k \in Nat : \A x \in S : m[x] < k => x \in T}
<1>1. 0 \in Below
  OBVIOUS
<1>2. ASSUME NEW k \in Nat, k \in Below PROVE k + 1 \in Below
  <2> SUFFICES ASSUME NEW x \in S, m[x] < k + 1 PROVE x \in T
    OBVIOUS
  <2>1. \A y \in S : m[y] < m[x] => y \in T
    BY <1>2
  <2> QED BY <2>1
<1>3. Nat \subseteq Below
  <2> HIDE DEF Below
  <2> QED BY <1>1, <1>2, NatSet
<1> SUFFICES ASSUME NEW x \in S PROVE x \in T
  OBVIOUS
<1>4. m[x] + 1 \in Below
  BY <1>3
<1> QED BY <1>4

(* A recursive definition: Phi computes the value of a function at an       *)
(* argument from its values at arguments of a smaller measure, at most N.   *)
Descends(S, V, v0, m, N, Phi) ==
  /\ v0 \in V /\ m \in [S -> Nat] /\ N \in Nat /\ \A x \in S : m[x] <= N
  /\ Phi \in [[S -> V] \X S -> V]
  /\ \A g, h \in [S -> V], x \in S :
       (\A y \in S : m[y] < m[x] => g[y] = h[y]) => Phi[<<g, x>>] = Phi[<<h, x>>]

(* A function that is what its recursive definition says.                   *)
Solvable(S, V, Phi) == \E g \in [S -> V] : \A x \in S : g[x] = Phi[<<g, x>>]

(* A recursion that descends along a bounded measure defines a function:    *)
(* the steps of the search, the folds of the clock and the backward pass    *)
(* of the departure are all of this kind.                                   *)
LEMMA MeasuredRecursion ==
  ASSUME NEW S, NEW V, NEW v0, NEW m, NEW N, NEW Phi, Descends(S, V, v0, m, N, Phi)
  PROVE  Solvable(S, V, Phi)
<1> USE DEF Descends
<1> DEFINE T == {k \in Nat : \E g \in [S -> V] : \A x \in S : m[x] < k => g[x] = Phi[<<g, x>>]}
<1>1. 0 \in T
  <2>1. [x \in S |-> v0] \in [S -> V] /\ \A x \in S : ~(m[x] < 0)
    OBVIOUS
  <2> QED BY <2>1
<1>2. ASSUME NEW k \in Nat, k \in T PROVE k + 1 \in T
  <2>1. PICK g \in [S -> V] : \A x \in S : m[x] < k => g[x] = Phi[<<g, x>>]
    BY <1>2
  <2> DEFINE h == [x \in S |-> IF m[x] < k THEN g[x] ELSE Phi[<<g, x>>]]
  <2>2. h \in [S -> V]
    OBVIOUS
  <2>3. ASSUME NEW x \in S, m[x] < k + 1 PROVE h[x] = Phi[<<h, x>>]
    <3>1. \A y \in S : m[y] < m[x] => g[y] = h[y]
      BY <2>3
    <3>2. Phi[<<g, x>>] = Phi[<<h, x>>]
      BY <2>2, <3>1
    <3> QED BY <2>1, <2>3, <3>2
  <2> HIDE DEF h
  <2> QED BY <2>2, <2>3
<1>3. Nat \subseteq T
  <2> HIDE DEF T
  <2> QED BY <1>1, <1>2, NatSet
<1>4. N + 1 \in T
  <2> HIDE DEF T
  <2> QED BY <1>3
<1>5. PICK g \in [S -> V] : \A x \in S : m[x] < N + 1 => g[x] = Phi[<<g, x>>]
  BY <1>4
<1>6. \A x \in S : m[x] < N + 1
  OBVIOUS
<1> QED BY <1>5, <1>6 DEF Solvable

(* Induction on the subsets of a finite set: what holds of a set as soon    *)
(* as it holds of its proper subsets holds of all.                          *)
LEMMA FiniteInduction ==
  ASSUME NEW S, IsFiniteSet(S), NEW T,
         \A s \in SUBSET S : (\A u \in SUBSET s : u # s => u \in T) => s \in T
  PROVE  \A s \in SUBSET S : s \in T
<1> DEFINE m == [s \in SUBSET S |-> Cardinality(s)]
<1>1. m \in [SUBSET S -> Nat]
  BY FS_Subset, FS_CardinalityType
<1>2. ASSUME NEW s \in SUBSET S, \A u \in SUBSET S : m[u] < m[s] => u \in T PROVE s \in T
  <2>1. ASSUME NEW u \in SUBSET s, u # s PROVE u \in T
    <3>1. m[u] < m[s]
      <4>1. IsFiniteSet(s)
        BY FS_Subset
      <4>2. Cardinality(u) <= Cardinality(s) /\ Cardinality(u) # Cardinality(s)
        BY <2>1, <4>1, FS_Subset
      <4> QED BY <4>2, <1>1
    <3> QED BY <3>1, <1>2
  <2> QED BY <2>1
<1> HIDE DEF m
<1> QED BY <1>1, <1>2, MeasuredInduction

(* A finite set of integers has a greatest element, and both ways the       *)
(* model names it give that one.                                            *)
LEMMA GreatestIs ==
  ASSUME NEW s, IsFiniteSet(s), s # {}, s \subseteq Int
  PROVE  /\ Greatest(s) \in s /\ \A y \in s : y <= Greatest(s)
         /\ Max(s) = Greatest(s)
<1> DEFINE T == {u \in SUBSET s : u = {} \/ \E x \in u : \A y \in u : x >= y}
<1>1. ASSUME NEW u \in SUBSET s, \A v \in SUBSET u : v # u => v \in T PROVE u \in T
  <2>1. CASE u = {}
    BY <2>1
  <2>2. CASE u # {}
    <3>1. PICK a \in u : TRUE
      BY <2>2
    <3>2. u \ {a} \in T
      BY <1>1
    <3>3. CASE u \ {a} = {}
      <4>1. \A y \in u : a >= y
        BY <3>3
      <4> QED BY <4>1
    <3>4. CASE u \ {a} # {}
      <4>1. PICK x \in u \ {a} : \A y \in u \ {a} : x >= y
        BY <3>2, <3>4
      <4>2. CASE x >= a
        BY <4>1, <4>2
      <4>3. CASE a > x
        <5>1. \A y \in u : a >= y
          BY <4>1, <4>3
        <5> QED BY <5>1
      <4> QED BY <4>2, <4>3
    <3> QED BY <3>3, <3>4
  <2> QED BY <2>1, <2>2
<1>2. s \in T
  <2> HIDE DEF T
  <2> QED BY <1>1, FiniteInduction
<1>3. \E x \in s : \A y \in s : x >= y
  BY <1>2
<1> QED BY <1>3 DEF Greatest, Max

(* A finite set of integers has a least element, and both ways the model    *)
(* names it give that one.                                                  *)
LEMMA LeastIs ==
  ASSUME NEW s, IsFiniteSet(s), s # {}, s \subseteq Int
  PROVE  /\ Least(s) \in s /\ \A y \in s : Least(s) <= y
         /\ Min(s) = Least(s)
<1> DEFINE T == {u \in SUBSET s : u = {} \/ \E x \in u : \A y \in u : x <= y}
<1>1. ASSUME NEW u \in SUBSET s, \A v \in SUBSET u : v # u => v \in T PROVE u \in T
  <2>1. CASE u = {}
    BY <2>1
  <2>2. CASE u # {}
    <3>1. PICK a \in u : TRUE
      BY <2>2
    <3>2. u \ {a} \in T
      BY <1>1
    <3>3. CASE u \ {a} = {}
      <4>1. \A y \in u : a <= y
        BY <3>3
      <4> QED BY <4>1
    <3>4. CASE u \ {a} # {}
      <4>1. PICK x \in u \ {a} : \A y \in u \ {a} : x <= y
        BY <3>2, <3>4
      <4>2. CASE x <= a
        BY <4>1, <4>2
      <4>3. CASE a < x
        <5>1. \A y \in u : a <= y
          BY <4>1, <4>3
        <5> QED BY <5>1
      <4> QED BY <4>2, <4>3
    <3> QED BY <3>3, <3>4
  <2> QED BY <2>1, <2>2
<1>2. s \in T
  <2> HIDE DEF T
  <2> QED BY <1>1, FiniteInduction
<1>3. \E x \in s : \A y \in s : x <= y
  BY <1>2
<1> QED BY <1>3 DEF Least, Min

-----------------------------------------------------------------------------

(* The first and the last of a set of positions of a sequence, and what     *)
(* is left without them.                                                    *)
LEMMA UpToIs ==
  ASSUME NEW n \in Nat, NEW s \in SUBSET (1 .. n), s # {}
  PROVE  /\ Max(s) \in s /\ Min(s) \in s
         /\ \A y \in s : y <= Max(s) /\ Min(s) <= y
         /\ s \ {Max(s)} \in SUBSET (1 .. n) /\ s \ {Min(s)} \in SUBSET (1 .. n)
<1>1. IsFiniteSet(1 .. n)
  BY FS_Interval
<1>2. IsFiniteSet(s) /\ s \subseteq Int
  <2>1. IsFiniteSet(s)
    BY <1>1, FS_Subset
  <2> QED BY <2>1
<1>3. Max(s) \in s /\ \A y \in s : y <= Max(s)
  BY <1>2, GreatestIs
<1>4. Min(s) \in s /\ \A y \in s : Min(s) <= y
  BY <1>2, LeastIs
<1> QED BY <1>3, <1>4

(* The last position of an initial segment, the first of a final one, and   *)
(* what is left without them.                                               *)
LEMMA InitialIs ==
  ASSUME NEW n \in Nat, NEW k \in 1 .. n
  PROVE  /\ Max(1 .. k) = k /\ (1 .. k) \ {k} = 1 .. k - 1
         /\ Min(k .. n) = k /\ (k .. n) \ {k} = k + 1 .. n
<1>1. 1 .. k \in SUBSET (1 .. n) /\ 1 .. k # {} /\ k .. n \in SUBSET (1 .. n) /\ k .. n # {}
  OBVIOUS
<1>2. Max(1 .. k) \in 1 .. k /\ \A y \in 1 .. k : y <= Max(1 .. k)
  BY <1>1, UpToIs
<1>3. Min(k .. n) \in k .. n /\ \A y \in k .. n : Min(k .. n) <= y
  BY <1>1, UpToIs
<1>4. Max(1 .. k) = k /\ Min(k .. n) = k
  <2>1. k \in 1 .. k /\ k \in k .. n
    OBVIOUS
  <2>2. k <= Max(1 .. k) /\ Max(1 .. k) <= k /\ Max(1 .. k) \in Int
    BY <1>2, <2>1
  <2>3. k <= Min(k .. n) /\ Min(k .. n) <= k /\ Min(k .. n) \in Int
    BY <1>3, <2>1
  <2> QED BY <2>2, <2>3
<1>5. (1 .. k) \ {k} = 1 .. k - 1 /\ (k .. n) \ {k} = k + 1 .. n
  OBVIOUS
<1> QED BY <1>4, <1>5

(* The data of a fold: as many steps as a sequence has elements, from a     *)
(* first value, within a set of values.                                     *)
Steps(n, V, base, Step) == n \in Nat /\ base \in V /\ Step \in [V \X (1 .. n) -> V]

(* Which position of a set a fold takes next.                               *)
PicksFrom(n, pick) ==
  /\ pick \in [(SUBSET (1 .. n)) \ {{}} -> 1 .. n]
  /\ \A s \in (SUBSET (1 .. n)) \ {{}} : pick[s] \in s

(* What a fold over sets of positions computes.                             *)
FoldOf(g, n, V, base, Step, pick) ==
  /\ g \in [SUBSET (1 .. n) -> V] /\ g[{}] = base
  /\ \A s \in (SUBSET (1 .. n)) \ {{}} : g[s] = Step[<<g[s \ {pick[s]}], pick[s]>>]

(* A fold over sets of positions is a function: its values are those of     *)
(* its steps.                                                               *)
LEMMA FoldExists ==
  ASSUME NEW n, NEW V, NEW base, NEW Step, NEW pick, Steps(n, V, base, Step), PicksFrom(n, pick)
  PROVE  \E g : FoldOf(g, n, V, base, Step, pick)
<1> USE DEF Steps, PicksFrom
<1> DEFINE S == SUBSET (1 .. n)
           m == [s \in S |-> Cardinality(s)]
           Phi == [gs \in [S -> V] \X S |->
                     IF gs[2] = {} THEN base ELSE Step[<<gs[1][gs[2] \ {pick[gs[2]]}], pick[gs[2]]>>]]
<1>0. IsFiniteSet(1 .. n) /\ Cardinality(1 .. n) = n
  BY FS_Interval
<1>1. m \in [S -> Nat] /\ \A s \in S : m[s] <= n
  <2>1. ASSUME NEW s \in S PROVE Cardinality(s) \in Nat /\ Cardinality(s) <= n
    <3>1. IsFiniteSet(s) /\ Cardinality(s) <= Cardinality(1 .. n)
      BY <1>0, FS_Subset
    <3> QED BY <1>0, <3>1, FS_CardinalityType
  <2> QED BY <2>1
<1>2. ASSUME NEW s \in S, s # {} PROVE s \ {pick[s]} \in S /\ m[s \ {pick[s]}] < m[s]
  <2>1. pick[s] \in s /\ IsFiniteSet(s)
    BY <1>0, <1>2, FS_Subset
  <2>2. Cardinality(s \ {pick[s]}) = Cardinality(s) - 1
    BY <2>1, FS_RemoveElement
  <2>3. s \ {pick[s]} \in S /\ Cardinality(s) \in Nat
    BY <2>1, FS_CardinalityType
  <2> QED BY <2>2, <2>3
<1>3. Phi \in [[S -> V] \X S -> V]
  <2> SUFFICES ASSUME NEW gs \in [S -> V] \X S
               PROVE  (IF gs[2] = {} THEN base ELSE Step[<<gs[1][gs[2] \ {pick[gs[2]]}], pick[gs[2]]>>]) \in V
    OBVIOUS
  <2>1. gs[1] \in [S -> V] /\ gs[2] \in S
    OBVIOUS
  <2>2. gs[2] # {} => gs[1][gs[2] \ {pick[gs[2]]}] \in V /\ pick[gs[2]] \in 1 .. n
    BY <1>2, <2>1
  <2> QED BY <2>2
<1>4. ASSUME NEW g \in [S -> V], NEW h \in [S -> V], NEW s \in S,
             \A u \in S : m[u] < m[s] => g[u] = h[u]
      PROVE  Phi[<<g, s>>] = Phi[<<h, s>>]
  <2>1. s # {} => g[s \ {pick[s]}] = h[s \ {pick[s]}]
    BY <1>2, <1>4
  <2> QED BY <2>1
<1>5. Solvable(S, V, Phi)
  <2> HIDE DEF S, m, Phi
  <2>1. Descends(S, V, base, m, n, Phi)
    BY <1>1, <1>3, <1>4 DEF Descends
  <2> QED BY <2>1, MeasuredRecursion
<1>6. PICK g \in [S -> V] : \A s \in S : g[s] = Phi[<<g, s>>]
  BY <1>5 DEF Solvable
<1>7. \A s \in S : g[s] = IF s = {} THEN base ELSE Step[<<g[s \ {pick[s]}], pick[s]>>]
  BY <1>6
<1> QED BY <1>7 DEF FoldOf

(* A fold from the left takes the last position off.                        *)
LastPicked(n) == [s \in (SUBSET (1 .. n)) \ {{}} |-> Max(s)]
(* A fold from the right takes the first position off.                      *)
FirstPicked(n) == [s \in (SUBSET (1 .. n)) \ {{}} |-> Min(s)]

(* Both ways of folding take a position of the set.                         *)
LEMMA EndsArePicked ==
  ASSUME NEW n \in Nat
  PROVE  PicksFrom(n, LastPicked(n)) /\ PicksFrom(n, FirstPicked(n))
BY UpToIs DEF PicksFrom, LastPicked, FirstPicked

(* A fold from the left.                                                    *)
LeftFold(g, n, V, base, Step) ==
  g \in [SUBSET (1 .. n) -> V] /\ \A s \in SUBSET (1 .. n) :
    g[s] = IF s = {} THEN base ELSE Step[<<g[s \ {Max(s)}], Max(s)>>]

(* A fold from the right.                                                   *)
RightFold(g, n, V, base, Step) ==
  g \in [SUBSET (1 .. n) -> V] /\ \A s \in SUBSET (1 .. n) :
    g[s] = IF s = {} THEN base ELSE Step[<<g[s \ {Min(s)}], Min(s)>>]

(* A fold from the left is a function.                                      *)
LEMMA FoldLeftExists ==
  ASSUME NEW n, NEW V, NEW base, NEW Step, Steps(n, V, base, Step)
  PROVE  \E g : LeftFold(g, n, V, base, Step)
<1>1. PICK g : FoldOf(g, n, V, base, Step, LastPicked(n))
  BY FoldExists, EndsArePicked DEF Steps
<1> QED BY <1>1 DEF FoldOf, LastPicked, LeftFold

(* A fold from the right is a function.                                     *)
LEMMA FoldRightExists ==
  ASSUME NEW n, NEW V, NEW base, NEW Step, Steps(n, V, base, Step)
  PROVE  \E g : RightFold(g, n, V, base, Step)
<1>1. PICK g : FoldOf(g, n, V, base, Step, FirstPicked(n))
  BY FoldExists, EndsArePicked DEF Steps
<1> QED BY <1>1 DEF FoldOf, FirstPicked, RightFold

(* The values a fold from the left goes through.                            *)
RunsForward(h, n, V, base, Step) ==
  h \in [0 .. n -> V] /\ h[0] = base /\ \A k \in 1 .. n : h[k] = Step[<<h[k - 1], k>>]

(* The equation a fold from the left obeys, on sets of positions.           *)
FoldsLeft(iter, n, V, base, Step) ==
  /\ iter[{}] = base
  /\ \A s \in (SUBSET (1 .. n)) \ {{}} :
       iter[s \ {Max(s)}] \in V => iter[s] = Step[<<iter[s \ {Max(s)}], Max(s)>>]

(* A fold from the left is the end of a run, one value per element: how     *)
(* the clock of a route is driven over its stops and over the breaks.       *)
LEMMA FoldLeftRun ==
  ASSUME NEW n, NEW V, NEW base, NEW Step, NEW iter, Steps(n, V, base, Step),
         FoldsLeft(iter, n, V, base, Step)
  PROVE  \E h : RunsForward(h, n, V, base, Step) /\ iter[1 .. n] = h[n]
<1> USE DEF Steps, FoldsLeft
<1> DEFINE h == [k \in 0 .. n |-> iter[1 .. k]]
           T == {k \in Nat : k <= n => /\ iter[1 .. k] \in V
                                       /\ k > 0 => iter[1 .. k] = Step[<<iter[1 .. k - 1], k>>]}
<1>1. 1 .. 0 = {}
  OBVIOUS
<1>2. 0 \in T
  BY <1>1
<1>3. ASSUME NEW k \in Nat, k \in T PROVE k + 1 \in T
  <2> SUFFICES ASSUME k + 1 <= n
               PROVE iter[1 .. k + 1] \in V /\ iter[1 .. k + 1] = Step[<<iter[1 .. k], k + 1>>]
    OBVIOUS
  <2>1. iter[1 .. k] \in V
    BY <1>3
  <2>2. k + 1 \in 1 .. n /\ 1 .. k + 1 \in (SUBSET (1 .. n)) \ {{}}
    OBVIOUS
  <2>3. Max(1 .. k + 1) = k + 1 /\ (1 .. k + 1) \ {k + 1} = 1 .. k
    BY <2>2, InitialIs
  <2>4. iter[1 .. k + 1] = Step[<<iter[1 .. k], k + 1>>]
    BY <2>1, <2>2, <2>3
  <2> QED BY <2>1, <2>2, <2>4
<1>4. Nat \subseteq T
  <2> HIDE DEF T
  <2> QED BY <1>2, <1>3, NatSet
<1>5. ASSUME NEW k \in 0 .. n PROVE h[k] \in V /\ (k > 0 => h[k] = Step[<<h[k - 1], k>>])
  <2>1. k \in T
    BY <1>4
  <2> QED BY <2>1
<1>6. h \in [0 .. n -> V]
  BY <1>5
<1>7. h[0] = base /\ iter[1 .. n] = h[n]
  BY <1>1
<1> HIDE DEF h
<1> QED BY <1>5, <1>6, <1>7 DEF RunsForward

(* The values a fold from the right goes through.                           *)
RunsBackward(h, n, V, base, Step) ==
  h \in [0 .. n -> V] /\ h[n] = base /\ \A k \in 1 .. n : h[k - 1] = Step[<<h[k], k>>]

(* The equation a fold from the right obeys, on sets of positions.          *)
FoldsRight(iter, n, V, base, Step) ==
  /\ iter[{}] = base
  /\ \A s \in (SUBSET (1 .. n)) \ {{}} :
       iter[s \ {Min(s)}] \in V => iter[s] = Step[<<iter[s \ {Min(s)}], Min(s)>>]

(* A fold from the right is the end of a run backwards: how a deadline is   *)
(* carried back over the breaks.                                            *)
LEMMA FoldRightRun ==
  ASSUME NEW n, NEW V, NEW base, NEW Step, NEW iter, Steps(n, V, base, Step),
         FoldsRight(iter, n, V, base, Step)
  PROVE  \E h : RunsBackward(h, n, V, base, Step) /\ iter[1 .. n] = h[0]
<1> USE DEF Steps, FoldsRight
<1> DEFINE h == [k \in 0 .. n |-> iter[k + 1 .. n]]
           T == {j \in Nat : j <= n => /\ iter[n + 1 - j .. n] \in V
                                       /\ j > 0 => iter[n + 1 - j .. n] = Step[<<iter[n + 2 - j .. n], n + 1 - j>>]}
<1>1. n + 1 .. n = {} /\ n + 1 - 0 = n + 1
  OBVIOUS
<1>2. 0 \in T
  BY <1>1
<1>3. ASSUME NEW j \in Nat, j \in T PROVE j + 1 \in T
  <2> SUFFICES ASSUME j + 1 <= n
               PROVE /\ iter[n + 1 - (j + 1) .. n] \in V
                     /\ iter[n + 1 - (j + 1) .. n] = Step[<<iter[n + 2 - (j + 1) .. n], n + 1 - (j + 1)>>]
    OBVIOUS
  <2> DEFINE k == n + 1 - (j + 1)
  <2>1. iter[k + 1 .. n] \in V /\ n + 2 - (j + 1) = k + 1
    <3>1. n + 1 - j = k + 1 /\ n + 2 - (j + 1) = k + 1
      OBVIOUS
    <3> QED BY <1>3, <3>1
  <2>2. k \in 1 .. n /\ k .. n \in (SUBSET (1 .. n)) \ {{}}
    OBVIOUS
  <2>3. Min(k .. n) = k /\ (k .. n) \ {k} = k + 1 .. n
    <3> HIDE DEF k
    <3> QED BY <2>2, InitialIs
  <2>4. iter[k .. n] = Step[<<iter[k + 1 .. n], k>>]
    <3> HIDE DEF k
    <3> QED BY <2>1, <2>2, <2>3
  <2> HIDE DEF k
  <2>5. iter[k .. n] \in V
    BY <2>1, <2>2, <2>4
  <2> USE DEF k
  <2> QED BY <2>1, <2>4, <2>5
<1>4. Nat \subseteq T
  <2> HIDE DEF T
  <2> QED BY <1>2, <1>3, NatSet
<1>5. ASSUME NEW k \in 0 .. n PROVE h[k] \in V /\ (k < n => h[k] = Step[<<h[k + 1], k + 1>>])
  <2>1. n - k \in T
    <3> HIDE DEF T
    <3>1. n - k \in Nat
      OBVIOUS
    <3> QED BY <1>4, <3>1
  <2>2. n + 1 - (n - k) = k + 1 /\ n + 2 - (n - k) = k + 2 /\ (k + 1) + 1 = k + 2
    OBVIOUS
  <2>3. h[k] \in V /\ (k < n => h[k] = Step[<<iter[k + 2 .. n], k + 1>>])
    BY <2>1, <2>2
  <2>4. k < n => h[k + 1] = iter[k + 2 .. n]
    BY <2>2
  <2> QED BY <2>3, <2>4
<1>6. h \in [0 .. n -> V]
  BY <1>5
<1>7. h[n] = base /\ iter[1 .. n] = h[0]
  BY <1>1
<1>8. ASSUME NEW k \in 1 .. n PROVE h[k - 1] = Step[<<h[k], k>>]
  <2> HIDE DEF h
  <2>1. k - 1 \in 0 .. n /\ k - 1 < n /\ (k - 1) + 1 = k
    OBVIOUS
  <2> QED BY <1>5, <2>1
<1> HIDE DEF h
<1> QED BY <1>6, <1>7, <1>8 DEF RunsBackward

-----------------------------------------------------------------------------

(* The keys a comparison takes: tuples of n integers.                       *)
KeysOf(n) == {k \in Seq(Int) : Len(k) = n}

(* A set of naturals has a first element.                                   *)
LEMMA FirstIndex ==
  ASSUME NEW T \in SUBSET Nat, NEW i \in T
  PROVE  \E j \in T : j <= i /\ \A k \in T : j <= k
<1> DEFINE U == {k \in T : k <= i}
<1>1. U \in SUBSET Nat /\ U # {} /\ \A k \in U : k <= i
  <2>1. i \in Nat /\ i <= i
    OBVIOUS
  <2>2. i \in U
    BY <2>1
  <2> QED BY <2>2
<1>2. IsFiniteSet(U)
  BY <1>1, FS_BoundedSetOfNaturals
<1>3. U \subseteq Int
  BY <1>1
<1>4. Least(U) \in U /\ \A k \in U : Least(U) <= k
  <2> HIDE DEF U
  <2> QED BY <1>1, <1>2, <1>3, LeastIs
<1>5. Least(U) \in T /\ Least(U) <= i
  BY <1>4
<1>6. ASSUME NEW k \in T PROVE Least(U) <= k
  <2>1. CASE k <= i
    BY <1>4, <2>1
  <2>2. CASE k > i
    <3>1. Least(U) \in Nat /\ k \in Nat /\ i \in Nat
      BY <1>5
    <3> HIDE DEF U
    <3> QED BY <1>5, <2>2, <3>1
  <2>3. k <= i \/ k > i
    OBVIOUS
  <2> QED BY <2>1, <2>2, <2>3
<1> HIDE DEF U
<1> QED BY <1>5, <1>6

(* No key comes before itself.                                              *)
LEMMA BeforeIrreflexive ==
  ASSUME NEW n \in Nat, NEW a \in KeysOf(n)
  PROVE  ~Before(a, a)
<1>1. \A i \in 1 .. Len(a) : a[i] \in Int
  BY DEF KeysOf
<1> QED BY <1>1 DEF Before

(* The order of the keys, by which the code compares tuples, is             *)
(* transitive.                                                              *)
LEMMA BeforeTransitive ==
  ASSUME NEW n \in Nat, NEW a \in KeysOf(n), NEW b \in KeysOf(n), NEW c \in KeysOf(n),
         Before(a, b), Before(b, c)
  PROVE  Before(a, c)
<1>1. \A i \in 1 .. n : a[i] \in Int /\ b[i] \in Int /\ c[i] \in Int
  BY DEF KeysOf
<1>2. Len(a) = n /\ Len(b) = n /\ Len(c) = n
  BY DEF KeysOf
<1>3. PICK i \in 1 .. n : a[i] < b[i] /\ \A j \in 1 .. i - 1 : a[j] = b[j]
  BY <1>2 DEF Before
<1>4. PICK k \in 1 .. n : b[k] < c[k] /\ \A j \in 1 .. k - 1 : b[j] = c[j]
  BY <1>2 DEF Before
<1>5. CASE i < k
  <2>1. a[i] < c[i] /\ \A j \in 1 .. i - 1 : a[j] = c[j]
    BY <1>1, <1>3, <1>4, <1>5
  <2> QED BY <1>2, <2>1 DEF Before
<1>6. CASE k < i
  <2>1. a[k] < c[k] /\ \A j \in 1 .. k - 1 : a[j] = c[j]
    BY <1>1, <1>3, <1>4, <1>6
  <2> QED BY <1>2, <2>1 DEF Before
<1>7. CASE k = i
  <2>1. a[i] < c[i] /\ \A j \in 1 .. i - 1 : a[j] = c[j]
    BY <1>1, <1>3, <1>4, <1>7
  <2> QED BY <1>2, <2>1 DEF Before
<1> QED BY <1>5, <1>6, <1>7

(* Of two different keys one comes before the other: a comparison of        *)
(* tuples leaves no pair open.                                              *)
LEMMA BeforeTotal ==
  ASSUME NEW n \in Nat, NEW a \in KeysOf(n), NEW b \in KeysOf(n)
  PROVE  a = b \/ Before(a, b) \/ Before(b, a)
<1>1. \A i \in 1 .. n : a[i] \in Int /\ b[i] \in Int
  BY DEF KeysOf
<1>2. Len(a) = n /\ Len(b) = n /\ a \in Seq(Int) /\ b \in Seq(Int)
  BY DEF KeysOf
<1> DEFINE T == {i \in 1 .. n : a[i] # b[i]}
<1>3. CASE T = {}
  <2>1. \A i \in 1 .. Len(a) : a[i] = b[i]
    BY <1>2, <1>3
  <2>2. a = b
    BY <1>2, <2>1, SeqEqual
  <2> QED BY <2>2
<1>4. CASE T # {}
  <2>1. PICK i \in T : TRUE
    BY <1>4
  <2>2. T \in SUBSET Nat
    OBVIOUS
  <2>3. PICK j \in T : \A k \in T : j <= k
    <3> HIDE DEF T
    <3> QED BY <2>1, <2>2, FirstIndex
  <2>4. \A k \in 1 .. j - 1 : a[k] = b[k]
    BY <2>3
  <2>5. j \in 1 .. n /\ (a[j] < b[j] \/ b[j] < a[j])
    BY <1>1, <2>3
  <2> QED BY <1>2, <2>4, <2>5 DEF Before
<1> QED BY <1>3, <1>4

(* Not being improved is transitive: a chain of orders, each not worse      *)
(* than the one before, ends at one not worse than the first.               *)
LEMMA NotBeforeTransitive ==
  ASSUME NEW n \in Nat, NEW a \in KeysOf(n), NEW b \in KeysOf(n), NEW c \in KeysOf(n),
         ~Before(a, b), ~Before(b, c)
  PROVE  ~Before(a, c)
<1> SUFFICES ASSUME Before(a, c) PROVE FALSE
  OBVIOUS
<1>1. b = a \/ Before(b, a)
  BY BeforeTotal
<1>2. CASE b = a
  BY <1>2
<1>3. CASE Before(b, a)
  BY <1>3, BeforeTransitive
<1> QED BY <1>1, <1>2, <1>3

(* Of finitely many keyed things one has no key before its own: the best    *)
(* order, the best window, the best route exist.                            *)
LEMMA MinimumExists ==
  ASSUME NEW S, IsFiniteSet(S), S # {}, NEW n \in Nat, NEW key \in [S -> KeysOf(n)]
  PROVE  \E x \in S : \A y \in S : ~Before(key[y], key[x])
<1> DEFINE T == {u \in SUBSET S : u = {} \/ \E x \in u : \A y \in u : ~Before(key[y], key[x])}
<1>1. ASSUME NEW u \in SUBSET S, \A v \in SUBSET u : v # u => v \in T PROVE u \in T
  <2>1. CASE u = {}
    BY <2>1
  <2>2. CASE u # {}
    <3>1. PICK a \in u : TRUE
      BY <2>2
    <3>2. u \ {a} \in T
      BY <1>1
    <3>3. ~Before(key[a], key[a])
      BY BeforeIrreflexive
    <3>4. CASE u \ {a} = {}
      <4>1. \A y \in u : ~Before(key[y], key[a])
        BY <3>3, <3>4
      <4> QED BY <4>1
    <3>5. CASE u \ {a} # {}
      <4>1. PICK x \in u \ {a} : \A y \in u \ {a} : ~Before(key[y], key[x])
        BY <3>2, <3>5
      <4>2. CASE ~Before(key[a], key[x])
        <5>1. \A y \in u : ~Before(key[y], key[x])
          BY <4>1, <4>2
        <5> QED BY <5>1
      <4>3. CASE Before(key[a], key[x])
        <5>1. ASSUME NEW y \in u PROVE ~Before(key[y], key[a])
          <6>1. CASE y = a
            BY <3>3, <6>1
          <6>2. CASE y # a
            <7>1. key[y] \in KeysOf(n) /\ key[x] \in KeysOf(n) /\ key[a] \in KeysOf(n)
              OBVIOUS
            <7>2. ~Before(key[y], key[x])
              BY <4>1, <6>2
            <7> QED BY <4>3, <7>1, <7>2, BeforeTransitive
          <6> QED BY <6>1, <6>2
        <5> QED BY <5>1
      <4> QED BY <4>2, <4>3
    <3> QED BY <3>4, <3>5
  <2> QED BY <2>1, <2>2
<1>2. S \in T
  <2> HIDE DEF T
  <2> QED BY <1>1, FiniteInduction
<1> QED BY <1>2

-----------------------------------------------------------------------------
(* The values of a function over a finite set are finitely many.            *)
LEMMA ImageIsFinite ==
  ASSUME NEW S, IsFiniteSet(S), NEW f
  PROVE  IsFiniteSet({f[x] : x \in S})
<1> DEFINE g == [x \in S |-> f[x]]
           T == {f[x] : x \in S}
<1>1. g \in Surjection(S, T)
  BY DEF Surjection
<1> HIDE DEF g, T
<1>2. IsFiniteSet(T)
  BY <1>1, FS_Surjection
<1> QED BY <1>2 DEF T

(* There are finitely many functions between finite sets.                   *)
LEMMA FunctionsAreFinite ==
  ASSUME NEW S, NEW T, IsFiniteSet(S), IsFiniteSet(T)
  PROVE  IsFiniteSet([S -> T])
<1> DEFINE graph == [f \in [S -> T] |-> {xy \in S \X T : xy[2] = f[xy[1]]}]
<1>1. IsFiniteSet(SUBSET (S \X T))
  BY FS_Product, FS_SUBSET
<1>2. \A f, g \in [S -> T] : graph[f] = graph[g] => f = g
  <2> SUFFICES ASSUME NEW f \in [S -> T], NEW g \in [S -> T], graph[f] = graph[g], NEW x \in S
               PROVE  f[x] = g[x]
    <3> HIDE DEF graph
    <3> QED OBVIOUS
  <2>1. graph[f] = {xy \in S \X T : xy[2] = f[xy[1]]} /\ graph[g] = {xy \in S \X T : xy[2] = g[xy[1]]}
    OBVIOUS
  <2> HIDE DEF graph
  <2>2. <<x, f[x]>> \in S \X T
    OBVIOUS
  <2>3. <<x, f[x]>> \in graph[f]
    BY <2>1, <2>2
  <2>4. <<x, f[x]>> \in graph[g]
    BY <2>3
  <2>5. \A xy \in graph[g] : xy[2] = g[xy[1]]
    BY <2>1
  <2>6. <<x, f[x]>>[2] = g[<<x, f[x]>>[1]]
    BY <2>4, <2>5
  <2> QED BY <2>6
<1>3. graph \in Injection([S -> T], SUBSET (S \X T))
  <2>1. graph \in [[S -> T] -> SUBSET (S \X T)]
    OBVIOUS
  <2> HIDE DEF graph
  <2> QED BY <1>2, <2>1 DEF Injection, IsInjective
<1> HIDE DEF graph
<1> QED BY <1>1, <1>3, FS_Injection

(* The start of an unloading goes through the breaks one by one, and        *)
(* moves to the end of each that it hits.                                   *)
LEMMA ServiceReadyRun ==
  ASSUME NEW start \in Int, NEW duration \in Nat, NEW breaks \in Seq(WindowSet)
  PROVE  \E h \in [0 .. Len(breaks) -> Int] :
           /\ h[0] = start /\ ServiceReady(start, duration, breaks) = h[Len(breaks)]
           /\ \A k \in 1 .. Len(breaks) : h[k] = (IF Hits(h[k - 1], duration, breaks[k]) THEN breaks[k].close ELSE h[k - 1])
<1> DEFINE n == Len(breaks)
           Step == [vk \in Int \X (1 .. n) |-> (IF Hits(vk[1], duration, breaks[vk[2]]) THEN breaks[vk[2]].close ELSE vk[1])]
           E(g) == g = [s \in SUBSET DOMAIN breaks |->
                          IF s = {} THEN start ELSE (IF Hits(g[s \ {Max(s)}], duration, breaks[Max(s)]) THEN breaks[Max(s)].close ELSE g[s \ {Max(s)}])]
           iter == CHOOSE g : E(g)
<1>1. n \in Nat /\ DOMAIN breaks = 1 .. n /\ \A k \in 1 .. n : breaks[k] \in WindowSet
  OBVIOUS
<1>2. Steps(n, Int, start, Step)
  <2>1. \A vk \in Int \X (1 .. n) : breaks[vk[2]].close \in Int /\ vk[1] \in Int
    BY <1>1 DEF WindowSet
  <2> QED BY <1>1, <2>1 DEF Steps
<1>3. ServiceReady(start, duration, breaks) = iter[1 .. n]
  BY <1>1 DEF ServiceReady, FoldLeft, MapThenFoldSet
<1>4. \E g : E(g)
  <2>1. PICK g : LeftFold(g, n, Int, start, Step)
    <3> HIDE DEF Step, n
    <3> QED BY <1>2, FoldLeftExists
  <2>2. ASSUME NEW s \in (SUBSET (1 .. n)) \ {{}}
        PROVE  Max(s) \in 1 .. n /\ g[s \ {Max(s)}] \in Int
    BY <1>1, <2>1, UpToIs DEF LeftFold
  <2>3. E(g)
    BY <1>1, <2>1, <2>2 DEF LeftFold
  <2> QED BY <2>3
<1>5. E(iter)
  BY <1>4
<1>6. FoldsLeft(iter, n, Int, start, Step)
  <2>1. \A s \in (SUBSET (1 .. n)) \ {{}} : Max(s) \in 1 .. n
    BY <1>1, UpToIs
  <2> HIDE DEF iter
  <2> QED BY <1>1, <1>5, <2>1 DEF FoldsLeft
<1>7. PICK h : RunsForward(h, n, Int, start, Step) /\ iter[1 .. n] = h[n]
  <2> HIDE DEF iter, Step, n
  <2> QED BY <1>2, <1>6, FoldLeftRun
<1>8. ASSUME NEW k \in 1 .. n PROVE h[k] = (IF Hits(h[k - 1], duration, breaks[k]) THEN breaks[k].close ELSE h[k - 1])
  <2>1. h[k - 1] \in Int /\ h[k] = Step[<<h[k - 1], k>>]
    <3> HIDE DEF iter, Step, n
    <3> QED BY <1>1, <1>7 DEF RunsForward
  <2> QED BY <2>1
<1> HIDE DEF iter, Step
<1> QED BY <1>3, <1>7, <1>8 DEF RunsForward

(* A drive on its way: the clock, the minutes left, and whether no break    *)
(* can meet it any more.                                                    *)
TripSet == [at : Int, left : Int, done : BOOLEAN]

(* A break leaves a drive a drive, forwards and backwards.                  *)
LEMMA DriveTyped ==
  ASSUME NEW trip \in TripSet, NEW pause \in WindowSet
  PROVE  Drive(trip, pause) \in TripSet /\ DriveBack(pause, trip) \in TripSet
<1>1. trip.at \in Int /\ trip.left \in Int /\ trip.done \in BOOLEAN /\ pause.open \in Int /\ pause.close \in Int
  BY DEF TripSet, WindowSet
<1>2. Greater(trip.at, pause.close) \in Int /\ Greater(0, pause.open - trip.at) \in Int
  BY <1>1 DEF Greater
<1>3. [trip EXCEPT !.done = TRUE] \in TripSet /\ [trip EXCEPT !.at = pause.open] \in TripSet
  BY <1>1 DEF TripSet
<1>4. [at |-> Greater(trip.at, pause.close), left |-> trip.left - Greater(0, pause.open - trip.at), done |-> FALSE] \in TripSet
  BY <1>1, <1>2 DEF TripSet
<1>5. [at |-> pause.open, left |-> trip.left - (trip.at - pause.close), done |-> FALSE] \in TripSet
  BY <1>1 DEF TripSet
<1> QED BY <1>3, <1>4, <1>5 DEF Drive, DriveBack

(* A drive goes through the breaks one by one.                              *)
LEMMA DriveRun ==
  ASSUME NEW start \in Int, NEW duration \in Int, NEW breaks \in Seq(WindowSet)
  PROVE  \E h \in [0 .. Len(breaks) -> TripSet] :
           /\ h[0] = [at |-> start, left |-> duration, done |-> FALSE] /\ TravelEnd(start, duration, breaks) = h[Len(breaks)].at + h[Len(breaks)].left
           /\ \A k \in 1 .. Len(breaks) : h[k] = Drive(h[k - 1], breaks[k])
<1> DEFINE n == Len(breaks)
           Step == [vk \in TripSet \X (1 .. n) |-> Drive(vk[1], breaks[vk[2]])]
           E(g) == g = [s \in SUBSET DOMAIN breaks |->
                          IF s = {} THEN [at |-> start, left |-> duration, done |-> FALSE] ELSE Drive(g[s \ {Max(s)}], breaks[Max(s)])]
           iter == CHOOSE g : E(g)
<1>1. n \in Nat /\ DOMAIN breaks = 1 .. n /\ \A k \in 1 .. n : breaks[k] \in WindowSet
  OBVIOUS
<1>2. Steps(n, TripSet, [at |-> start, left |-> duration, done |-> FALSE], Step)
  <2>1. [at |-> start, left |-> duration, done |-> FALSE] \in TripSet
    BY DEF TripSet
  <2>2. \A vk \in TripSet \X (1 .. n) : Drive(vk[1], breaks[vk[2]]) \in TripSet
    BY <1>1, DriveTyped
  <2> QED BY <1>1, <2>1, <2>2 DEF Steps
<1>3. TravelEnd(start, duration, breaks) = iter[1 .. n].at + iter[1 .. n].left
  BY <1>1 DEF TravelEnd, FoldLeft, MapThenFoldSet
<1>4. \E g : E(g)
  <2>1. PICK g : LeftFold(g, n, TripSet, [at |-> start, left |-> duration, done |-> FALSE], Step)
    <3> HIDE DEF Step, n
    <3> QED BY <1>2, FoldLeftExists
  <2>2. ASSUME NEW s \in (SUBSET (1 .. n)) \ {{}}
        PROVE  Max(s) \in 1 .. n /\ g[s \ {Max(s)}] \in TripSet
    BY <1>1, <2>1, UpToIs DEF LeftFold
  <2>3. E(g)
    BY <1>1, <2>1, <2>2 DEF LeftFold
  <2> QED BY <2>3
<1>5. E(iter)
  BY <1>4
<1>6. FoldsLeft(iter, n, TripSet, [at |-> start, left |-> duration, done |-> FALSE], Step)
  <2>1. \A s \in (SUBSET (1 .. n)) \ {{}} : Max(s) \in 1 .. n
    BY <1>1, UpToIs
  <2> HIDE DEF iter
  <2> QED BY <1>1, <1>5, <2>1 DEF FoldsLeft
<1>7. PICK h : RunsForward(h, n, TripSet, [at |-> start, left |-> duration, done |-> FALSE], Step) /\ iter[1 .. n] = h[n]
  <2> HIDE DEF iter, Step, n
  <2> QED BY <1>2, <1>6, FoldLeftRun
<1>8. ASSUME NEW k \in 1 .. n PROVE h[k] = Drive(h[k - 1], breaks[k])
  <2>1. h[k - 1] \in TripSet /\ h[k] = Step[<<h[k - 1], k>>]
    <3> HIDE DEF iter, Step, n
    <3> QED BY <1>1, <1>7 DEF RunsForward
  <2> QED BY <2>1
<1> HIDE DEF iter, Step
<1> QED BY <1>3, <1>7, <1>8 DEF RunsForward

(* A drive is carried back through the breaks, from the last one.           *)
LEMMA DriveBackRun ==
  ASSUME NEW deadline \in Int, NEW duration \in Int, NEW breaks \in Seq(WindowSet)
  PROVE  \E h \in [0 .. Len(breaks) -> TripSet] :
           /\ h[Len(breaks)] = [at |-> deadline, left |-> duration, done |-> FALSE] /\ LatestTravelStart(deadline, duration, breaks) = h[0].at - h[0].left
           /\ \A k \in 1 .. Len(breaks) : h[k - 1] = DriveBack(breaks[k], h[k])
<1> DEFINE n == Len(breaks)
           Step == [vk \in TripSet \X (1 .. n) |-> DriveBack(breaks[vk[2]], vk[1])]
           E(g) == g = [s \in SUBSET DOMAIN breaks |->
                          IF s = {} THEN [at |-> deadline, left |-> duration, done |-> FALSE] ELSE DriveBack(breaks[Min(s)], g[s \ {Min(s)}])]
           iter == CHOOSE g : E(g)
<1>1. n \in Nat /\ DOMAIN breaks = 1 .. n /\ \A k \in 1 .. n : breaks[k] \in WindowSet
  OBVIOUS
<1>2. Steps(n, TripSet, [at |-> deadline, left |-> duration, done |-> FALSE], Step)
  <2>1. [at |-> deadline, left |-> duration, done |-> FALSE] \in TripSet
    BY DEF TripSet
  <2>2. \A vk \in TripSet \X (1 .. n) : DriveBack(breaks[vk[2]], vk[1]) \in TripSet
    BY <1>1, DriveTyped
  <2> QED BY <1>1, <2>1, <2>2 DEF Steps
<1>3. LatestTravelStart(deadline, duration, breaks) = iter[1 .. n].at - iter[1 .. n].left
  BY <1>1 DEF LatestTravelStart, FoldRight, MapThenFoldSet
<1>4. \E g : E(g)
  <2>1. PICK g : RightFold(g, n, TripSet, [at |-> deadline, left |-> duration, done |-> FALSE], Step)
    <3> HIDE DEF Step, n
    <3> QED BY <1>2, FoldRightExists
  <2>2. ASSUME NEW s \in (SUBSET (1 .. n)) \ {{}}
        PROVE  Min(s) \in 1 .. n /\ g[s \ {Min(s)}] \in TripSet
    BY <1>1, <2>1, UpToIs DEF RightFold
  <2>3. E(g)
    BY <1>1, <2>1, <2>2 DEF RightFold
  <2> QED BY <2>3
<1>5. E(iter)
  BY <1>4
<1>6. FoldsRight(iter, n, TripSet, [at |-> deadline, left |-> duration, done |-> FALSE], Step)
  <2>1. \A s \in (SUBSET (1 .. n)) \ {{}} : Min(s) \in 1 .. n
    BY <1>1, UpToIs
  <2> HIDE DEF iter
  <2> QED BY <1>1, <1>5, <2>1 DEF FoldsRight
<1>7. PICK h : RunsBackward(h, n, TripSet, [at |-> deadline, left |-> duration, done |-> FALSE], Step) /\ iter[1 .. n] = h[0]
  <2> HIDE DEF iter, Step, n
  <2> QED BY <1>2, <1>6, FoldRightRun
<1>8. ASSUME NEW k \in 1 .. n PROVE h[k - 1] = DriveBack(breaks[k], h[k])
  <2>1. h[k] \in TripSet /\ h[k - 1] = Step[<<h[k], k>>]
    <3> HIDE DEF iter, Step, n
    <3> QED BY <1>1, <1>7 DEF RunsBackward
  <2> QED BY <2>1
<1> HIDE DEF iter, Step
<1> QED BY <1>3, <1>7, <1>8 DEF RunsBackward

(* The latest start of an unloading is carried back through the breaks.     *)
LEMMA LatestServiceStartRun ==
  ASSUME NEW deadline \in Int, NEW duration \in Nat, NEW breaks \in Seq(WindowSet)
  PROVE  \E h \in [0 .. Len(breaks) -> Int] :
           /\ h[Len(breaks)] = deadline - duration /\ LatestServiceStart(deadline, duration, breaks) = h[0]
           /\ \A k \in 1 .. Len(breaks) : h[k - 1] = (IF Hits(h[k], duration, breaks[k]) THEN breaks[k].open - duration - (IF duration = 0 THEN 1 ELSE 0) ELSE h[k])
<1> DEFINE n == Len(breaks)
           Step == [vk \in Int \X (1 .. n) |-> (IF Hits(vk[1], duration, breaks[vk[2]]) THEN breaks[vk[2]].open - duration - (IF duration = 0 THEN 1 ELSE 0) ELSE vk[1])]
           E(g) == g = [s \in SUBSET DOMAIN breaks |->
                          IF s = {} THEN deadline - duration ELSE (IF Hits(g[s \ {Min(s)}], duration, breaks[Min(s)]) THEN breaks[Min(s)].open - duration - (IF duration = 0 THEN 1 ELSE 0) ELSE g[s \ {Min(s)}])]
           iter == CHOOSE g : E(g)
<1>1. n \in Nat /\ DOMAIN breaks = 1 .. n /\ \A k \in 1 .. n : breaks[k] \in WindowSet
  OBVIOUS
<1>2. Steps(n, Int, deadline - duration, Step)
  <2>1. \A vk \in Int \X (1 .. n) : breaks[vk[2]].open \in Int /\ vk[1] \in Int
    BY <1>1 DEF WindowSet
  <2> QED BY <1>1, <2>1 DEF Steps
<1>3. LatestServiceStart(deadline, duration, breaks) = iter[1 .. n]
  BY <1>1 DEF LatestServiceStart, FoldRight, MapThenFoldSet
<1>4. \E g : E(g)
  <2>1. PICK g : RightFold(g, n, Int, deadline - duration, Step)
    <3> HIDE DEF Step, n
    <3> QED BY <1>2, FoldRightExists
  <2>2. ASSUME NEW s \in (SUBSET (1 .. n)) \ {{}}
        PROVE  Min(s) \in 1 .. n /\ g[s \ {Min(s)}] \in Int
    BY <1>1, <2>1, UpToIs DEF RightFold
  <2>3. E(g)
    BY <1>1, <2>1, <2>2 DEF RightFold
  <2> QED BY <2>3
<1>5. E(iter)
  BY <1>4
<1>6. FoldsRight(iter, n, Int, deadline - duration, Step)
  <2>1. \A s \in (SUBSET (1 .. n)) \ {{}} : Min(s) \in 1 .. n
    BY <1>1, UpToIs
  <2> HIDE DEF iter
  <2> QED BY <1>1, <1>5, <2>1 DEF FoldsRight
<1>7. PICK h : RunsBackward(h, n, Int, deadline - duration, Step) /\ iter[1 .. n] = h[0]
  <2> HIDE DEF iter, Step, n
  <2> QED BY <1>2, <1>6, FoldRightRun
<1>8. ASSUME NEW k \in 1 .. n PROVE h[k - 1] = (IF Hits(h[k], duration, breaks[k]) THEN breaks[k].open - duration - (IF duration = 0 THEN 1 ELSE 0) ELSE h[k])
  <2>1. h[k] \in Int /\ h[k - 1] = Step[<<h[k], k>>]
    <3> HIDE DEF iter, Step, n
    <3> QED BY <1>1, <1>7 DEF RunsBackward
  <2> QED BY <2>1
<1> HIDE DEF iter, Step
<1> QED BY <1>3, <1>7, <1>8 DEF RunsBackward

-----------------------------------------------------------------------------
(* The answers of the evaluation of one stop.                               *)
AppointmentSet == [feasible : BOOLEAN, start : Int, close : Int, warned : BOOLEAN]

(* The greater and the smaller of two integers are one of them, and bound   *)
(* both.                                                                    *)
LEMMA GreaterIs ==
  ASSUME NEW a \in Int, NEW b \in Int
  PROVE  /\ Greater(a, b) \in Int /\ a <= Greater(a, b) /\ b <= Greater(a, b) /\ Greater(a, b) \in {a, b}
         /\ Smaller(a, b) \in Int /\ Smaller(a, b) <= a /\ Smaller(a, b) <= b /\ Smaller(a, b) \in {a, b}
BY DEF Greater, Smaller

(* The key of a window is a triple of integers.                             *)
LEMMA WindowKeyTyped ==
  ASSUME NEW at \in Int, NEW service \in Nat, NEW w \in WindowSet
  PROVE  WindowKey(at, service, w) \in KeysOf(3)
<1>1. w.open \in Int /\ w.close \in Int
  BY DEF WindowSet
<1>2. Greater(at, w.open) \in Int
  BY <1>1, GreaterIs
<1> DEFINE late == Greater(at, w.open) + service - w.close
           weight == IF at < w.open THEN 100000 + 20 * late ELSE 80000 + 25 * late
<1>3. late \in Int
  BY <1>1, <1>2
<1>4. weight \in Int
  <2> HIDE DEF late
  <2> QED BY <1>3
<1> HIDE DEF weight
<1>5. <<0, Greater(at, w.open), w.close>> \in KeysOf(3) /\ <<1, weight, w.close>> \in KeysOf(3)
  BY <1>1, <1>2, <1>4 DEF KeysOf
<1> QED BY <1>5 DEF WindowKey, weight, late

(* Of the windows of a stop the best one is one of them, and no key comes   *)
(* before its key.                                                          *)
LEMMA BestWindowIs ==
  ASSUME NEW at \in Int, NEW service \in Nat, NEW windows \in SUBSET WindowSet, IsFiniteSet(windows),
         windows # {}
  PROVE  /\ BestWindow(at, service, windows) \in windows
         /\ \A v \in windows :
              ~Before(WindowKey(at, service, v), WindowKey(at, service, BestWindow(at, service, windows)))
<1> DEFINE key == [w \in windows |-> WindowKey(at, service, w)]
<1>1. key \in [windows -> KeysOf(3)]
  BY WindowKeyTyped
<1>2. \A w \in windows : key[w] = WindowKey(at, service, w)
  OBVIOUS
<1> HIDE DEF key
<1>3. \E x \in windows : \A y \in windows : ~Before(key[y], key[x])
  BY <1>1, MinimumExists
<1>4. \E x \in windows : \A y \in windows : ~Before(WindowKey(at, service, y), WindowKey(at, service, x))
  BY <1>2, <1>3
<1> QED BY <1>4 DEF BestWindow

(* The appointment in a window is an appointment.                           *)
LEMMA WithinTyped ==
  ASSUME NEW at \in Int, NEW service \in Nat, NEW w \in WindowSet
  PROVE  Within(at, service, w) \in AppointmentSet
<1>1. w.open \in Int /\ w.close \in Int
  BY DEF WindowSet
<1>2. Greater(at, w.open) \in Int
  BY <1>1, GreaterIs
<1>3. Fits(at, service, w) \in BOOLEAN /\ (~Fits(at, service, w) \/ at < w.open) \in BOOLEAN
  BY DEF Fits
<1> QED BY <1>1, <1>2, <1>3 DEF Within, AppointmentSet

(* Both evaluations of a stop give an appointment, whatever its windows.    *)
LEMMA AppointTyped ==
  ASSUME NEW at \in Int, NEW stop, IsStop(stop), NEW earliest \in BOOLEAN
  PROVE  /\ EvaluateCandidate(at, stop) \in AppointmentSet
         /\ EarliestFeasibleCandidate(at, stop) \in AppointmentSet
         /\ Appoint(earliest, at, stop) \in AppointmentSet
<1> USE DEF IsStop
<1>1. EvaluateCandidate(at, stop) \in AppointmentSet
  <2>1. CASE stop.windows = {}
    <3>1. [feasible |-> TRUE, start |-> at, close |-> -1, warned |-> FALSE] \in AppointmentSet
      BY DEF AppointmentSet
    <3> QED BY <2>1, <3>1 DEF EvaluateCandidate
  <2>2. CASE stop.windows # {} /\ \A w \in stop.windows : w.close < at
    <3> DEFINE closes == [w \in stop.windows |-> w.close]
    <3>1. {closes[w] : w \in stop.windows} = {w.close : w \in stop.windows}
      OBVIOUS
    <3>2. IsFiniteSet({w.close : w \in stop.windows})
      <4> HIDE DEF closes
      <4>1. IsFiniteSet({closes[w] : w \in stop.windows})
        BY ImageIsFinite
      <4> QED BY <3>1, <4>1
    <3>3. {w.close : w \in stop.windows} # {} /\ {w.close : w \in stop.windows} \subseteq Int
      BY <2>2 DEF WindowSet
    <3>4. Greatest({w.close : w \in stop.windows}) \in Int
      BY <3>2, <3>3, GreatestIs
    <3>5. [feasible |-> FALSE, start |-> at, warned |-> TRUE, close |-> Greatest({w.close : w \in stop.windows})]
            \in AppointmentSet
      BY <3>4 DEF AppointmentSet
    <3> QED BY <2>2, <3>5 DEF EvaluateCandidate
  <2>3. CASE stop.windows # {} /\ ~(\A w \in stop.windows : w.close < at)
    <3> DEFINE open == {w \in stop.windows : at <= w.close}
    <3>1. open # {} /\ open \in SUBSET WindowSet /\ open \in SUBSET stop.windows
      BY <2>3 DEF WindowSet
    <3>2. IsFiniteSet(open)
      <4> HIDE DEF open
      <4> QED BY <3>1, FS_Subset
    <3>3. BestWindow(at, stop.service, open) \in WindowSet
      <4> HIDE DEF open
      <4>1. BestWindow(at, stop.service, open) \in open
        BY <3>1, <3>2, BestWindowIs
      <4> QED BY <3>1, <4>1
    <3>4. Within(at, stop.service, BestWindow(at, stop.service, open)) \in AppointmentSet
      BY <3>3, WithinTyped
    <3> QED BY <2>3, <3>4 DEF EvaluateCandidate
  <2> QED BY <2>1, <2>2, <2>3
<1>2. EarliestFeasibleCandidate(at, stop) \in AppointmentSet
  <2>1. CASE \E w \in stop.windows : Fits(at, stop.service, w)
    <3> DEFINE fit == {w \in stop.windows : Fits(at, stop.service, w)}
    <3>1. fit # {} /\ fit \in SUBSET WindowSet /\ fit \in SUBSET stop.windows
      BY <2>1
    <3>2. IsFiniteSet(fit)
      <4> HIDE DEF fit
      <4> QED BY <3>1, FS_Subset
    <3>3. BestWindow(at, stop.service, fit) \in WindowSet
      <4> HIDE DEF fit
      <4>1. BestWindow(at, stop.service, fit) \in fit
        BY <3>1, <3>2, BestWindowIs
      <4> QED BY <3>1, <4>1
    <3>4. Within(at, stop.service, BestWindow(at, stop.service, fit)) \in AppointmentSet
      BY <3>3, WithinTyped
    <3> QED BY <2>1, <3>4 DEF EarliestFeasibleCandidate
  <2> QED BY <1>1, <2>1 DEF EarliestFeasibleCandidate
<1> QED BY <1>1, <1>2 DEF Appoint

(* An unloading that waits for the breaks starts at a time.                 *)
LEMMA ServiceReadyTyped ==
  ASSUME NEW start \in Int, NEW duration \in Nat, NEW breaks \in Seq(WindowSet)
  PROVE  ServiceReady(start, duration, breaks) \in Int
<1>1. PICK h \in [0 .. Len(breaks) -> Int] : h[Len(breaks)] = ServiceReady(start, duration, breaks)
  BY ServiceReadyRun
<1> QED BY <1>1

(* A drive ends, and leaves at the latest, at a time.                       *)
LEMMA TravelTyped ==
  ASSUME NEW start \in Int, NEW duration \in Int, NEW breaks \in Seq(WindowSet)
  PROVE  TravelEnd(start, duration, breaks) \in Int /\ LatestTravelStart(start, duration, breaks) \in Int
<1>1. PICK h \in [0 .. Len(breaks) -> TripSet] :
        TravelEnd(start, duration, breaks) = h[Len(breaks)].at + h[Len(breaks)].left
  BY DriveRun
<1>2. PICK g \in [0 .. Len(breaks) -> TripSet] :
        LatestTravelStart(start, duration, breaks) = g[0].at - g[0].left
  BY DriveBackRun
<1>3. h[Len(breaks)] \in TripSet /\ g[0] \in TripSet
  OBVIOUS
<1> QED BY <1>1, <1>2, <1>3 DEF TripSet

(* An unloading has a latest start.                                         *)
LEMMA LatestServiceStartTyped ==
  ASSUME NEW deadline \in Int, NEW duration \in Nat, NEW breaks \in Seq(WindowSet)
  PROVE  LatestServiceStart(deadline, duration, breaks) \in Int
<1>1. PICK h \in [0 .. Len(breaks) -> Int] : LatestServiceStart(deadline, duration, breaks) = h[0]
  BY LatestServiceStartRun
<1> QED BY <1>1

(* The service after the breaks is asked once more than there are breaks.   *)
LEMMA ServiceRun ==
  ASSUME NEW arrival \in Int, NEW stop, IsStop(stop), NEW breaks \in Seq(WindowSet), NEW earliest \in BOOLEAN
  PROVE  \E h \in [0 .. Len(breaks) + 1 -> AppointmentSet] :
           /\ h[0] = Appoint(earliest, arrival, stop) /\ Service(arrival, stop, breaks, earliest) = h[Len(breaks) + 1]
           /\ \A k \in 1 .. Len(breaks) + 1 : h[k] = AppointAgain(earliest, h[k - 1], ServiceReady(h[k - 1].start, stop.service, breaks), stop)
<1> DEFINE n == Len(breaks) + 1
           Step == [vk \in AppointmentSet \X (1 .. n) |-> AppointAgain(earliest, vk[1], ServiceReady(vk[1].start, stop.service, breaks), stop)]
           E(g) == g = [s \in SUBSET DOMAIN [k \in 1 .. Len(breaks) + 1 |-> k] |->
                          IF s = {} THEN Appoint(earliest, arrival, stop) ELSE AppointAgain(earliest, g[s \ {Max(s)}], ServiceReady(g[s \ {Max(s)}].start, stop.service, breaks), stop)]
           iter == CHOOSE g : E(g)
<1>1. n \in Nat /\ DOMAIN [k \in 1 .. Len(breaks) + 1 |-> k] = 1 .. n
  OBVIOUS
<1>2. Steps(n, AppointmentSet, Appoint(earliest, arrival, stop), Step)
  <2>1. Appoint(earliest, arrival, stop) \in AppointmentSet
    BY AppointTyped
  <2>2. ASSUME NEW vk \in AppointmentSet \X (1 .. n)
        PROVE  AppointAgain(earliest, vk[1], ServiceReady(vk[1].start, stop.service, breaks), stop) \in AppointmentSet
    <3>1. vk[1] \in AppointmentSet /\ vk[1].start \in Int
      BY DEF AppointmentSet
    <3>2. ServiceReady(vk[1].start, stop.service, breaks) \in Int
      BY <3>1, ServiceReadyTyped DEF IsStop
    <3> QED BY <3>1, <3>2, AppointTyped DEF AppointAgain
  <2> HIDE DEF n
  <2> QED BY <1>1, <2>1, <2>2 DEF Steps
<1>3. Service(arrival, stop, breaks, earliest) = iter[1 .. n]
  BY <1>1 DEF Service, FoldLeft, MapThenFoldSet
<1>4. \E g : E(g)
  <2>1. PICK g : LeftFold(g, n, AppointmentSet, Appoint(earliest, arrival, stop), Step)
    <3> HIDE DEF Step, n
    <3> QED BY <1>2, FoldLeftExists
  <2>2. ASSUME NEW s \in (SUBSET (1 .. n)) \ {{}}
        PROVE  Max(s) \in 1 .. n /\ g[s \ {Max(s)}] \in AppointmentSet
    BY <1>1, <2>1, UpToIs DEF LeftFold
  <2>3. E(g)
    BY <1>1, <2>1, <2>2 DEF LeftFold
  <2> QED BY <2>3
<1>5. E(iter)
  BY <1>4
<1>6. FoldsLeft(iter, n, AppointmentSet, Appoint(earliest, arrival, stop), Step)
  <2>1. \A s \in (SUBSET (1 .. n)) \ {{}} : Max(s) \in 1 .. n
    BY <1>1, UpToIs
  <2> HIDE DEF iter
  <2> QED BY <1>1, <1>5, <2>1 DEF FoldsLeft
<1>7. PICK h : RunsForward(h, n, AppointmentSet, Appoint(earliest, arrival, stop), Step) /\ iter[1 .. n] = h[n]
  <2> HIDE DEF iter, Step, n
  <2> QED BY <1>2, <1>6, FoldLeftRun
<1>8. ASSUME NEW k \in 1 .. n PROVE h[k] = AppointAgain(earliest, h[k - 1], ServiceReady(h[k - 1].start, stop.service, breaks), stop)
  <2>1. h[k - 1] \in AppointmentSet /\ h[k] = Step[<<h[k - 1], k>>]
    <3> HIDE DEF iter, Step, n
    <3> QED BY <1>1, <1>7 DEF RunsForward
  <2> QED BY <2>1
<1> HIDE DEF iter, Step
<1> QED BY <1>3, <1>7, <1>8 DEF RunsForward

(* The service after the breaks is an appointment.                          *)
LEMMA ServiceTyped ==
  ASSUME NEW arrival \in Int, NEW stop, IsStop(stop), NEW breaks \in Seq(WindowSet), NEW earliest \in BOOLEAN
  PROVE  Service(arrival, stop, breaks, earliest) \in AppointmentSet
<1>1. PICK h \in [0 .. Len(breaks) + 1 -> AppointmentSet] :
        Service(arrival, stop, breaks, earliest) = h[Len(breaks) + 1]
  BY ServiceRun
<1> QED BY <1>1

(* What a route has become after some of its n stops.                       *)
RunSet(n) == [at : Int, place : 0 .. n, km : Int, wait : Int, opening : Int, late : Int, broken : Int, warned : Int]

(* The parts of a problem the proofs use.                                   *)
LEMMA ProblemIs ==
  ASSUME NEW p, IsProblem(p)
  PROVE  /\ Len(p.stops) \in Nat /\ p.leave \in Int /\ p.breaks \in Seq(WindowSet)
         /\ \A i \in 1 .. Len(p.stops) : IsStop(p.stops[i])
         /\ \A i, j \in 0 .. Len(p.stops) : p.km[<<i, j>>] \in Nat /\ p.min[<<i, j>>] \in Nat
<1>1. Len(p.stops) \in Nat /\ p.leave \in Int /\ p.breaks \in Seq(WindowSet)
  BY DEF IsProblem
<1>2. \A i \in 1 .. Len(p.stops) : IsStop(p.stops[i])
  BY DEF IsProblem
<1>3. p.km \in [Legs(Len(p.stops)) -> Nat] /\ p.min \in [Legs(Len(p.stops)) -> Nat]
  BY DEF IsProblem
<1> QED BY <1>1, <1>2, <1>3 DEF Legs

(* An unloading leaves a run a run.                                         *)
LEMMA UnloadedTyped ==
  ASSUME NEW p, IsProblem(p), NEW run \in RunSet(Len(p.stops)), NEW stop \in 1 .. Len(p.stops),
         NEW arrival \in Int, NEW ev \in AppointmentSet
  PROVE  Unloaded(p, run, stop, arrival, ev) \in RunSet(Len(p.stops))
<1> DEFINE n == Len(p.stops)
<1>1. /\ run.at \in Int /\ run.place \in 0 .. n /\ run.km \in Int /\ run.wait \in Int /\ run.opening \in Int
      /\ run.late \in Int /\ run.broken \in Int /\ run.warned \in Int
  BY DEF RunSet
<1>2. ev.feasible \in BOOLEAN /\ ev.start \in Int /\ ev.close \in Int /\ ev.warned \in BOOLEAN
  BY DEF AppointmentSet
<1>3. p.stops[stop].service \in Int /\ stop \in 0 .. n /\ n \in Nat
  BY ProblemIs DEF IsStop
<1>4. p.km[<<run.place, stop>>] \in Int
  BY <1>1, <1>3, ProblemIs
<1>5. Greater(0, ev.start - arrival) \in Int
  <2>1. ev.start - arrival \in Int
    BY <1>2
  <2> QED BY <2>1 DEF Greater
<1>6. Greater(0, ev.start + p.stops[stop].service - ev.close) \in Int
  <2>1. ev.start + p.stops[stop].service - ev.close \in Int
    BY <1>2, <1>3
  <2> QED BY <2>1, GreaterIs
<1>7. OpeningWait(Greater(0, ev.start - arrival), ev.start, p.stops[stop].windows) \in Int
  BY <1>5 DEF OpeningWait
<1>8. ev.start + p.stops[stop].service \in Int /\ run.km + p.km[<<run.place, stop>>] \in Int
  BY <1>1, <1>2, <1>3, <1>4
<1>9. /\ run.wait + Greater(0, ev.start - arrival) \in Int
      /\ run.opening + OpeningWait(Greater(0, ev.start - arrival), ev.start, p.stops[stop].windows) \in Int
  BY <1>1, <1>5, <1>7
<1>10. run.late + (IF ev.close < 0 THEN 0 ELSE Greater(0, ev.start + p.stops[stop].service - ev.close)) \in Int
  BY <1>1, <1>6
<1>11. run.broken + (IF ev.feasible THEN 0 ELSE 1) \in Int /\ run.warned + (IF ev.warned THEN 1 ELSE 0) \in Int
  BY <1>1
<1> QED BY <1>3, <1>8, <1>9, <1>10, <1>11 DEF Unloaded, RunSet

(* A visit, its drive and its unloading, leaves a run a run.                *)
LEMMA VisitTyped ==
  ASSUME NEW p, IsProblem(p), NEW earliest \in BOOLEAN, NEW run \in RunSet(Len(p.stops)),
         NEW stop \in 1 .. Len(p.stops)
  PROVE  Visit(p, earliest, run, stop) \in RunSet(Len(p.stops))
<1>1. run.at \in Int /\ run.place \in 0 .. Len(p.stops) /\ stop \in 0 .. Len(p.stops)
  BY ProblemIs DEF RunSet
<1>2. p.min[<<run.place, stop>>] \in Int
  BY <1>1, ProblemIs
<1>3. TravelEnd(run.at, p.min[<<run.place, stop>>], p.breaks) \in Int
  BY <1>1, <1>2, ProblemIs, TravelTyped
<1>4. Service(TravelEnd(run.at, p.min[<<run.place, stop>>], p.breaks), p.stops[stop], p.breaks, earliest)
        \in AppointmentSet
  BY <1>3, ProblemIs, ServiceTyped
<1> QED BY <1>3, <1>4, UnloadedTyped DEF Visit, Reached

(* A run begins at the depot.                                               *)
LEMMA AtDepotTyped ==
  ASSUME NEW p, IsProblem(p)
  PROVE  AtDepot(p) \in RunSet(Len(p.stops))
BY ProblemIs DEF AtDepot, RunSet

(* The run over an order of stops.                                          *)
Visited(p, order, earliest) ==
  FoldLeft(LAMBDA run, stop : Visit(p, earliest, run, stop), AtDepot(p), order)

(* The run over an order is made stop by stop.                              *)
LEMMA VisitsRun ==
  ASSUME NEW p, IsProblem(p), NEW order \in Seq(1 .. Len(p.stops)), NEW earliest \in BOOLEAN
  PROVE  \E h \in [0 .. Len(order) -> RunSet(Len(p.stops))] :
           /\ h[0] = AtDepot(p) /\ Visited(p, order, earliest) = h[Len(order)]
           /\ \A k \in 1 .. Len(order) : h[k] = Visit(p, earliest, h[k - 1], order[k])
<1> DEFINE n == Len(order)
           Step == [vk \in RunSet(Len(p.stops)) \X (1 .. n) |-> Visit(p, earliest, vk[1], order[vk[2]])]
           E(g) == g = [s \in SUBSET DOMAIN order |->
                          IF s = {} THEN AtDepot(p) ELSE Visit(p, earliest, g[s \ {Max(s)}], order[Max(s)])]
           iter == CHOOSE g : E(g)
<1>1. n \in Nat /\ DOMAIN order = 1 .. n /\ \A k \in 1 .. n : order[k] \in 1 .. Len(p.stops)
  OBVIOUS
<1>2. Steps(n, RunSet(Len(p.stops)), AtDepot(p), Step)
  <2>1. \A vk \in RunSet(Len(p.stops)) \X (1 .. n) :
          Visit(p, earliest, vk[1], order[vk[2]]) \in RunSet(Len(p.stops))
    BY <1>1, VisitTyped
  <2> QED BY <1>1, <2>1, AtDepotTyped DEF Steps
<1>3. Visited(p, order, earliest) = iter[1 .. n]
  BY <1>1 DEF Visited, FoldLeft, MapThenFoldSet
<1>4. \E g : E(g)
  <2>1. PICK g : LeftFold(g, n, RunSet(Len(p.stops)), AtDepot(p), Step)
    <3> HIDE DEF Step, n
    <3> QED BY <1>2, FoldLeftExists
  <2>2. ASSUME NEW s \in (SUBSET (1 .. n)) \ {{}}
        PROVE  Max(s) \in 1 .. n /\ g[s \ {Max(s)}] \in RunSet(Len(p.stops))
    BY <1>1, <2>1, UpToIs DEF LeftFold
  <2>3. E(g)
    BY <1>1, <2>1, <2>2 DEF LeftFold
  <2> QED BY <2>3
<1>5. E(iter)
  BY <1>4
<1>6. FoldsLeft(iter, n, RunSet(Len(p.stops)), AtDepot(p), Step)
  <2>1. \A s \in (SUBSET (1 .. n)) \ {{}} : Max(s) \in 1 .. n
    BY <1>1, UpToIs
  <2> HIDE DEF iter
  <2> QED BY <1>1, <1>5, <2>1 DEF FoldsLeft
<1>7. PICK h : RunsForward(h, n, RunSet(Len(p.stops)), AtDepot(p), Step) /\ iter[1 .. n] = h[n]
  <2> HIDE DEF iter, Step, n
  <2> QED BY <1>2, <1>6, FoldLeftRun
<1>8. ASSUME NEW k \in 1 .. n PROVE h[k] = Visit(p, earliest, h[k - 1], order[k])
  <2>1. h[k - 1] \in RunSet(Len(p.stops)) /\ h[k] = Step[<<h[k - 1], k>>]
    <3> HIDE DEF iter, Step, n
    <3> QED BY <1>1, <1>7 DEF RunsForward
  <2> QED BY <2>1
<1> HIDE DEF iter, Step
<1> QED BY <1>3, <1>7, <1>8 DEF RunsForward

(* A multiple of the grid below a number of minutes.                        *)
LEMMA DivisionIs ==
  ASSUME NEW x \in Nat, NEW g \in Nat \ {0}
  PROVE  (x \div g) \in Nat /\ (x \div g) * g <= x /\ (x \div g) * g \in Nat
OBVIOUS

(* The deadline for leaving a place is a time, or the mark that no window   *)
(* is left.                                                                 *)
LEMMA LeaveBeforeTyped ==
  ASSUME NEW p, IsProblem(p), NEW from \in 0 .. Len(p.stops), NEW stop \in 1 .. Len(p.stops),
         NEW latest \in Int
  PROVE  LeaveBefore(p, from, stop, latest) \in Int
<1> DEFINE s == p.stops[stop]
           Start(w) == LatestServiceStart(Smaller(latest, w.close), s.service, p.breaks)
           open == {x \in s.windows : Start(x) >= x.open}
           starts == IF s.windows = {} THEN {LatestServiceStart(latest, s.service, p.breaks)}
                     ELSE {Start(w) : w \in open}
<1>1. s.windows \in SUBSET WindowSet /\ IsFiniteSet(s.windows) /\ s.service \in Nat
  BY ProblemIs DEF IsStop
<1>2. LatestServiceStart(latest, s.service, p.breaks) \in Int
  BY <1>1, ProblemIs, LatestServiceStartTyped
<1>3. ASSUME NEW w \in s.windows PROVE Start(w) \in Int
  <2>1. w.close \in Int
    BY <1>1 DEF WindowSet
  <2>2. Smaller(latest, w.close) \in Int
    BY <2>1, GreaterIs
  <2> QED BY <1>1, <2>2, ProblemIs, LatestServiceStartTyped
<1>4. IsFiniteSet(starts) /\ starts \subseteq Int
  <2>1. CASE s.windows = {}
    BY <1>2, <2>1, FS_Singleton
  <2>2. CASE s.windows # {}
    <3> DEFINE f == [w \in open |-> Start(w)]
    <3> HIDE DEF s, Start
    <3>1. open \in SUBSET s.windows
      OBVIOUS
    <3>2. IsFiniteSet(open)
      <4> HIDE DEF open
      <4> QED BY <1>1, <3>1, FS_Subset
    <3>3. IsFiniteSet({f[w] : w \in open})
      <4> HIDE DEF open, f
      <4> QED BY <3>2, ImageIsFinite
    <3>4. {f[w] : w \in open} = {Start(w) : w \in open}
      OBVIOUS
    <3>5. starts = {Start(w) : w \in open}
      BY <2>2
    <3> QED BY <1>3, <3>3, <3>4, <3>5
  <2> QED BY <2>1, <2>2
<1>5. LeaveBefore(p, from, stop, latest) =
        IF starts = {} THEN -1 ELSE LatestTravelStart(Greatest(starts), p.min[<<from, stop>>], p.breaks)
  BY DEF LeaveBefore
<1> HIDE DEF starts, s
<1>6. CASE starts = {}
  BY <1>5, <1>6
<1>7. CASE starts # {}
  <2>1. Greatest(starts) \in Int
    BY <1>4, <1>7, GreatestIs
  <2>2. stop \in 0 .. Len(p.stops)
    BY ProblemIs
  <2>3. p.min[<<from, stop>>] \in Int
    BY <2>2, ProblemIs
  <2> QED BY <1>5, <1>7, <2>1, <2>3, ProblemIs, TravelTyped
<1> QED BY <1>6, <1>7

(* The data of a backward pass: a last value and a step for each            *)
(* position.                                                                *)
StepsBack(n, V, base, Step) == n \in Nat /\ base \in V /\ Step \in [V \X (0 .. n - 1) -> V]

(* What a backward pass computes.                                           *)
GoesBack(g, n, V, base, Step) ==
  g \in [0 .. n -> V] /\ g[n] = base /\ \A i \in 0 .. n - 1 : g[i] = Step[<<g[i + 1], i>>]

(* A backward pass is a function.                                           *)
LEMMA BackExists ==
  ASSUME NEW n, NEW V, NEW base, NEW Step, StepsBack(n, V, base, Step)
  PROVE  \E g : GoesBack(g, n, V, base, Step)
<1> USE DEF StepsBack, GoesBack
<1> DEFINE m == [i \in 0 .. n |-> n - i]
           Phi == [gi \in [0 .. n -> V] \X (0 .. n) |->
                     IF gi[2] = n THEN base ELSE Step[<<gi[1][gi[2] + 1], gi[2]>>]]
<1>1. Phi \in [[0 .. n -> V] \X (0 .. n) -> V]
  <2> SUFFICES ASSUME NEW g \in [0 .. n -> V], NEW i \in 0 .. n
               PROVE  (IF i = n THEN base ELSE Step[<<g[i + 1], i>>]) \in V
    OBVIOUS
  <2> SUFFICES ASSUME i # n PROVE Step[<<g[i + 1], i>>] \in V
    OBVIOUS
  <2>1. i \in 0 .. n - 1 /\ i + 1 \in 0 .. n
    OBVIOUS
  <2>2. g[i + 1] \in V
    BY <2>1
  <2> QED BY <2>1, <2>2
<1>2. m \in [0 .. n -> Nat] /\ \A i \in 0 .. n : m[i] <= n
  OBVIOUS
<1>3. \A g, h \in [0 .. n -> V], i \in 0 .. n :
        (\A j \in 0 .. n : m[j] < m[i] => g[j] = h[j]) => Phi[<<g, i>>] = Phi[<<h, i>>]
  <2> SUFFICES ASSUME NEW g \in [0 .. n -> V], NEW h \in [0 .. n -> V], NEW i \in 0 .. n,
                      \A j \in 0 .. n : m[j] < m[i] => g[j] = h[j]
               PROVE  Phi[<<g, i>>] = Phi[<<h, i>>]
    OBVIOUS
  <2>1. CASE i = n
    BY <2>1
  <2>2. CASE i # n
    <3>1. i + 1 \in 0 .. n /\ m[i + 1] < m[i]
      BY <2>2
    <3>2. g[i + 1] = h[i + 1]
      BY <3>1
    <3> QED BY <2>2, <3>2
  <2> QED BY <2>1, <2>2
<1>4. Descends(0 .. n, V, base, m, n, Phi)
  <2> HIDE DEF m, Phi
  <2>1. base \in V /\ n \in Nat
    OBVIOUS
  <2> HIDE DEF StepsBack, GoesBack
  <2> QED BY <1>1, <1>2, <1>3, <2>1 DEF Descends
<1>5. Solvable(0 .. n, V, Phi)
  <2> HIDE DEF m, Phi
  <2> QED BY <1>4, MeasuredRecursion
<1>6. PICK g \in [0 .. n -> V] : \A i \in 0 .. n : g[i] = Phi[<<g, i>>]
  <2> HIDE DEF Phi
  <2> QED BY <1>5 DEF Solvable
<1>7. \A i \in 0 .. n : g[i] = IF i = n THEN base ELSE Step[<<g[i + 1], i>>]
  BY <1>6
<1> HIDE DEF m, Phi
<1>8. n \in 0 .. n /\ \A i \in 0 .. n - 1 : i \in 0 .. n /\ i # n
  OBVIOUS
<1>9. g[n] = base
  BY <1>7, <1>8
<1>10. \A i \in 0 .. n - 1 : g[i] = Step[<<g[i + 1], i>>]
  BY <1>7, <1>8
<1> QED BY <1>9, <1>10

(* Each value of a backward pass lies where the next one does.              *)
ClosedBack(l, n, V) ==
  n \in Nat /\ l[n] \in V /\ \A i \in 0 .. n - 1 : l[i + 1] \in V => l[i] \in V

(* All the values of a backward pass lie where the last one does.           *)
LEMMA BackTyped ==
  ASSUME NEW n, NEW V, NEW l, ClosedBack(l, n, V)
  PROVE  \A i \in 0 .. n : l[i] \in V
<1> USE DEF ClosedBack
<1> DEFINE T == {k \in Nat : k <= n => l[n - k] \in V}
<1>1. 0 \in T
  OBVIOUS
<1>2. ASSUME NEW k \in Nat, k \in T PROVE k + 1 \in T
  <2> SUFFICES ASSUME k + 1 <= n PROVE l[n - (k + 1)] \in V
    OBVIOUS
  <2>1. n - (k + 1) \in 0 .. n - 1 /\ n - (k + 1) + 1 = n - k /\ k <= n
    OBVIOUS
  <2>2. l[n - (k + 1) + 1] \in V
    BY <1>2, <2>1
  <2> QED BY <2>1, <2>2
<1>3. Nat \subseteq T
  <2> HIDE DEF T
  <2> QED BY <1>1, <1>2, NatSet
<1>4. ASSUME NEW i \in 0 .. n PROVE l[i] \in V
  <2>1. n - i \in Nat /\ n - (n - i) = i /\ n - i <= n
    OBVIOUS
  <2> QED BY <1>3, <2>1
<1> QED BY <1>4

(* The part of the waits that a later departure removes is never negative   *)
(* and never more than the waits.                                           *)
LEMMA SlackTyped ==
  ASSUME NEW p, IsProblem(p), NEW order \in Seq(1 .. Len(p.stops)), NEW start \in Int, NEW end \in Int,
         NEW waits \in Int
  PROVE  /\ RealizableSlack(p, order, start, end, waits) \in Nat
         /\ waits >= 0 => RealizableSlack(p, order, start, end, waits) <= waits
<1> DEFINE n == Len(order)
           home == IF p.back THEN LatestTravelStart(end, p.min[<<order[n], 0>>], p.breaks) ELSE end
           Up(g, i) == IF g < 0 THEN -1 ELSE LeaveBefore(p, Place(order, i), order[i + 1], g)
           E(g) == g = [i \in 0 .. n |->
                          IF i = n THEN home
                          ELSE IF g[i + 1] < 0 THEN -1
                          ELSE LeaveBefore(p, Place(order, i), order[i + 1], g[i + 1])]
           leave == CHOOSE g : E(g)
           free == Smaller(waits, Greater(0, leave[0] - start))
<1>1. RealizableSlack(p, order, start, end, waits) =
        IF n = 0 \/ waits < Grid \/ ~p.movable \/ leave[0] < 0 THEN 0 ELSE (free \div Grid) * Grid
  BY DEF RealizableSlack
<1>2. n \in Nat /\ \A i \in 1 .. n : order[i] \in 1 .. Len(p.stops)
  OBVIOUS
<1>3. CASE n = 0
  <2> HIDE DEF leave, n
  <2> QED BY <1>1, <1>3
<1>4. CASE n # 0
  <2>1. home \in Int
    <3>1. order[n] \in 0 .. Len(p.stops) /\ 0 \in 0 .. Len(p.stops)
      BY <1>2, <1>4, ProblemIs
    <3>2. p.min[<<order[n], 0>>] \in Int
      BY <3>1, ProblemIs
    <3> QED BY <3>2, ProblemIs, TravelTyped
  <2>2. \A g \in Int, i \in 0 .. n - 1 : Up(g, i) \in Int
    <3> SUFFICES ASSUME NEW g \in Int, NEW i \in 0 .. n - 1 PROVE Up(g, i) \in Int
      OBVIOUS
    <3>1. Place(order, i) \in 0 .. Len(p.stops) /\ order[i + 1] \in 1 .. Len(p.stops)
      BY <1>2, ProblemIs DEF Place
    <3>2. LeaveBefore(p, Place(order, i), order[i + 1], g) \in Int
      BY <3>1, LeaveBeforeTyped
    <3> QED BY <3>2
  <2> DEFINE Step == [gi \in Int \X (0 .. n - 1) |-> Up(gi[1], gi[2])]
  <2>3. Step \in [Int \X (0 .. n - 1) -> Int]
    <3> HIDE DEF Up
    <3> QED BY <2>2
  <2>4. PICK g : GoesBack(g, n, Int, home, Step)
    <3>1. StepsBack(n, Int, home, Step)
      <4> HIDE DEF Step, home, n
      <4> QED BY <1>2, <2>1, <2>3 DEF StepsBack
    <3> HIDE DEF Step, home, n
    <3> QED BY <3>1, BackExists
  <2>5. \A i \in 0 .. n - 1 : g[i] = Up(g[i + 1], i)
    <3> SUFFICES ASSUME NEW i \in 0 .. n - 1 PROVE g[i] = Up(g[i + 1], i)
      OBVIOUS
    <3>1. g[i + 1] \in Int /\ g[i] = Step[<<g[i + 1], i>>]
      <4> HIDE DEF Step, home, n
      <4> QED BY <1>2, <2>4 DEF GoesBack
    <3> HIDE DEF Up
    <3> QED BY <3>1
  <2>6. E(g)
    <3> HIDE DEF home, n
    <3>1. \A i \in 0 .. n : g[i] = IF i = n THEN home ELSE Up(g[i + 1], i)
      <4>1. g[n] = home
        <5> HIDE DEF Step
        <5> QED BY <2>4 DEF GoesBack
      <4> HIDE DEF Up
      <4> QED BY <1>2, <2>5, <4>1
    <3>2. g \in [0 .. n -> Int]
      <4> HIDE DEF Step
      <4> QED BY <2>4 DEF GoesBack
    <3>3. g = [i \in 0 .. n |-> IF i = n THEN home ELSE Up(g[i + 1], i)]
      <4> HIDE DEF Up
      <4> QED BY <3>1, <3>2
    <3> QED BY <3>3
  <2>7. E(leave)
    <3> HIDE DEF E
    <3> QED BY <2>6
  <2>8. leave[n] = home /\ \A i \in 0 .. n - 1 : leave[i] = Up(leave[i + 1], i)
    <3> HIDE DEF home, n, leave
    <3> QED BY <1>2, <2>7
  <2>9. \A i \in 0 .. n : leave[i] \in Int
    <3>1. ClosedBack(leave, n, Int)
      <4> HIDE DEF Up, leave, n, home
      <4> QED BY <1>2, <2>1, <2>2, <2>8 DEF ClosedBack
    <3> HIDE DEF leave, n
    <3> QED BY <3>1, BackTyped
  <2>10. leave[0] \in Int
    <3> HIDE DEF leave, n
    <3> QED BY <1>2, <2>9
  <2> HIDE DEF leave, n, home
  <2>11. CASE waits >= Grid
    <3>1. Greater(0, leave[0] - start) \in Nat
      BY <2>10 DEF Greater
    <3>2. free \in Nat /\ free <= waits
      BY <2>11, <3>1, GridAssumption DEF Smaller
    <3> HIDE DEF free
    <3>3. (free \div Grid) * Grid \in Nat /\ (free \div Grid) * Grid <= free
      BY <3>2, DivisionIs, GridAssumption
    <3>4. (free \div Grid) * Grid <= waits
      BY <3>2, <3>3
    <3> QED BY <1>1, <3>3, <3>4
  <2> QED BY <1>1, <2>11, GridAssumption
<1> QED BY <1>3, <1>4

-----------------------------------------------------------------------------
(* The reports of an evaluation.                                            *)
ReportSet == [km : Int, minutes : Int, wait : Int, late : Int, warned : Int, violations : Int, broken : Int,
              slack : Nat, work : Int, cost : Int]

(* The road home leaves a run a run.                                        *)
LEMMA BackRouteTyped ==
  ASSUME NEW p, IsProblem(p), NEW order, NEW run \in RunSet(Len(p.stops))
  PROVE  Back(p, order, run) \in RunSet(Len(p.stops))
<1>1. /\ run.at \in Int /\ run.place \in 0 .. Len(p.stops) /\ run.km \in Int /\ 0 \in 0 .. Len(p.stops)
  BY ProblemIs DEF RunSet
<1>2. p.min[<<run.place, 0>>] \in Int /\ p.km[<<run.place, 0>>] \in Int
  BY <1>1, ProblemIs
<1>3. TravelEnd(run.at, p.min[<<run.place, 0>>], p.breaks) \in Int
  BY <1>1, <1>2, ProblemIs, TravelTyped
<1>4. run.km + p.km[<<run.place, 0>>] \in Int
  BY <1>1, <1>2
<1>5. [run EXCEPT !.at = TravelEnd(@, p.min[<<run.place, 0>>], p.breaks), !.km = @ + p.km[<<run.place, 0>>]]
        \in RunSet(Len(p.stops))
  BY <1>3, <1>4 DEF RunSet
<1> QED BY <1>5 DEF Back

(* What is judged of a run is a report.                                     *)
LEMMA JudgedTyped ==
  ASSUME NEW p, IsProblem(p), NEW order \in Seq(1 .. Len(p.stops)), NEW run \in RunSet(Len(p.stops)),
         NEW violations \in Int
  PROVE  Judged(p, order, run, violations) \in ReportSet
<1>1. /\ run.at \in Int /\ run.km \in Int /\ run.wait \in Int /\ run.opening \in Int
      /\ run.late \in Int /\ run.broken \in Int /\ run.warned \in Int /\ p.leave \in Int
  BY ProblemIs DEF RunSet
<1>2. RealizableSlack(p, order, p.leave, run.at, run.opening) \in Nat
  BY <1>1, SlackTyped
<1> DEFINE slack == IF violations > 0 THEN 0 ELSE RealizableSlack(p, order, p.leave, run.at, run.opening)
<1>3. slack \in Nat
  BY <1>2
<1> HIDE DEF slack
<1>4. run.at - p.leave \in Int /\ run.at - p.leave - slack \in Int
  BY <1>1, <1>3
<1>5. RouteCost(run.km, run.at - p.leave - slack) \in Int
  BY <1>1, <1>4 DEF RouteCost
<1>6. Report(p, run, violations, slack) \in ReportSet
  BY <1>1, <1>3, <1>4, <1>5 DEF Report, ReportSet
<1> QED BY <1>6 DEF Judged, slack

(* The canonical evaluation of any order of the stops is a report.          *)
LEMMA EvaluateTyped ==
  ASSUME NEW p, IsProblem(p), NEW order \in Seq(1 .. Len(p.stops)), NEW earliest \in BOOLEAN
  PROVE  EvaluateFixedSequence(p, order, earliest) \in ReportSet
<1> DEFINE run == Visited(p, order, earliest)
<1>1. run \in RunSet(Len(p.stops))
  <2>1. PICK h \in [0 .. Len(order) -> RunSet(Len(p.stops))] : run = h[Len(order)]
    BY VisitsRun
  <2>2. h[Len(order)] \in RunSet(Len(p.stops))
    OBVIOUS
  <2> HIDE DEF run
  <2> QED BY <2>1, <2>2
<1>2. EvaluateFixedSequence(p, order, earliest) = Returned(p, order, Back(p, order, run))
  BY DEF EvaluateFixedSequence, Visited
<1> HIDE DEF run
<1> DEFINE back == Back(p, order, run)
<1>3. back \in RunSet(Len(p.stops))
  BY <1>1, BackRouteTyped
<1> HIDE DEF back
<1>4. back.broken \in Int
  BY <1>3 DEF RunSet
<1>5. back.broken + (IF OutsideShift(p, p.leave, back.at) THEN 1 ELSE 0) \in Int
  BY <1>4
<1>6. Returned(p, order, back) \in ReportSet
  BY <1>3, <1>5, JudgedTyped DEF Returned
<1> QED BY <1>2, <1>6 DEF back

(* The scores of a fleet search.                                            *)
ScoreSet == [km : Int, minutes : Int, cost : Int, work : Int]

(* The evaluation of a fleet search gives a score, or none.                 *)
LEMMA AcceptedTyped ==
  ASSUME NEW p, IsProblem(p), NEW order \in Seq(1 .. Len(p.stops))
  PROVE  Evaluate(p, order) \in ScoreSet \cup {NoScore}
<1>1. EvaluateFixedSequence(p, order, TRUE) \in ReportSet
  BY EvaluateTyped
<1>2. \A r \in ReportSet : Accepted(p, r) \in ScoreSet \cup {NoScore}
  BY DEF Accepted, ReportSet, ScoreSet
<1> QED BY <1>1, <1>2 DEF Evaluate

(* Every report has a key of six integers, and the first of them says       *)
(* whether the route is impossible.                                         *)
LEMMA SolutionKeyTyped ==
  ASSUME NEW r \in ReportSet
  PROVE  /\ SolutionKey(r) \in KeysOf(6)
         /\ SolutionKey(r)[1] = IF r.violations > 0 THEN 1 ELSE 0
<1>1. /\ r.km \in Int /\ r.minutes \in Int /\ r.wait \in Int /\ r.late \in Int /\ r.warned \in Int
      /\ r.violations \in Int /\ r.cost \in Int
  BY DEF ReportSet
<1>2. r.wait \div 2 \in Int
  BY <1>1
<1>3. 200000 * r.violations + 10 * r.minutes + 3 * (r.wait \div 2) + 50 * r.warned + 2 * r.km \in Int
  BY <1>1, <1>2
<1> DEFINE weight == 200000 * r.violations + 10 * r.minutes + 3 * (r.wait \div 2) + 50 * r.warned + 2 * r.km
<1>4. weight \in Int
  BY <1>3
<1>5. SolutionKey(r) = IF r.violations > 0 THEN <<1, r.late, r.violations, weight, 0, 0>>
                       ELSE <<0, r.cost, r.km, r.minutes, r.wait, r.warned>>
  BY DEF SolutionKey
<1> HIDE DEF weight
<1>6. <<1, r.late, r.violations, weight, 0, 0>> \in KeysOf(6)
      /\ <<0, r.cost, r.km, r.minutes, r.wait, r.warned>> \in KeysOf(6)
  BY <1>1, <1>4 DEF KeysOf
<1> QED BY <1>5, <1>6

(* A problem that leaves at another time is a problem, with the same        *)
(* stops.                                                                   *)
LEMMA AtTyped ==
  ASSUME NEW p, IsProblem(p), NEW start \in Nat
  PROVE  IsProblem(At(p, start)) /\ At(p, start).stops = p.stops
<1> DEFINE q == At(p, start)
<1>1. DOMAIN q = Fields
  BY DEF IsProblem, Fields, At
<1>2. /\ q.stops = p.stops /\ q.km = p.km /\ q.min = p.min /\ q.breaks = p.breaks /\ q.shift = p.shift
      /\ q.leave = start
  BY DEF IsProblem, Fields, At
<1> HIDE DEF q
<1> QED BY <1>1, <1>2 DEF IsProblem, q
-----------------------------------------------------------------------------
(* A construction in n stages, each of which leads from its own set of      *)
(* values to the next.                                                      *)
Stages(n, W, base, Real) ==
  /\ n \in Nat /\ base \in W[0]
  /\ \A k \in 1 .. n : \A v \in W[k - 1] : Real[<<v, k>>] \in W[k]

(* A construction in stages is a function.                                  *)
LEMMA StagesRun ==
  ASSUME NEW n, NEW W, NEW base, NEW Real, Stages(n, W, base, Real)
  PROVE  \E h : /\ DOMAIN h = 0 .. n /\ h = [k \in 0 .. n |-> h[k]]
                /\ h[0] = base /\ \A k \in 1 .. n : h[k] = Real[<<h[k - 1], k>>]
<1> DEFINE V == UNION {W[k] : k \in 0 .. n}
           Step == [vk \in V \X (1 .. n) |-> IF vk[1] \in W[vk[2] - 1] THEN Real[vk] ELSE base]
<1>1. n \in Nat /\ base \in W[0] /\ base \in V
  BY DEF Stages
<1>2. ASSUME NEW v \in V, NEW k \in 1 .. n PROVE (IF v \in W[k - 1] THEN Real[<<v, k>>] ELSE base) \in V
  <2>1. v \in W[k - 1] => Real[<<v, k>>] \in W[k]
    BY DEF Stages
  <2>2. k \in 0 .. n
    BY <1>1
  <2> QED BY <1>1, <2>1, <2>2
<1>3. Steps(n, V, base, Step)
  <2>1. Step \in [V \X (1 .. n) -> V]
    <3> HIDE DEF V
    <3> QED BY <1>2
  <2> HIDE DEF V, Step
  <2> QED BY <1>1, <2>1 DEF Steps
<1>4. PICK h \in [0 .. n -> V] : h[0] = base /\ \A k \in 1 .. n : h[k] = Step[<<h[k - 1], k>>]
  <2> DEFINE m == [k \in 0 .. n |-> k]
             Phi == [gk \in [0 .. n -> V] \X (0 .. n) |->
                       IF gk[2] = 0 THEN base ELSE Step[<<gk[1][gk[2] - 1], gk[2]>>]]
  <2> HIDE DEF V
  <2>1. ASSUME NEW g \in [0 .. n -> V], NEW k \in 0 .. n
        PROVE  (IF k = 0 THEN base ELSE Step[<<g[k - 1], k>>]) \in V
    <3>1. k # 0 => k \in 1 .. n /\ k - 1 \in 0 .. n
      BY <1>1
    <3>2. k # 0 => <<g[k - 1], k>> \in V \X (1 .. n)
      BY <3>1
    <3> HIDE DEF Step
    <3> QED BY <1>1, <1>3, <3>2 DEF Steps
  <2> HIDE DEF Step
  <2>2. Phi \in [[0 .. n -> V] \X (0 .. n) -> V]
    BY <2>1
  <2>3. \A g, h \in [0 .. n -> V], k \in 0 .. n :
          (\A j \in 0 .. n : m[j] < m[k] => g[j] = h[j]) => Phi[<<g, k>>] = Phi[<<h, k>>]
    <3> SUFFICES ASSUME NEW g \in [0 .. n -> V], NEW h \in [0 .. n -> V], NEW k \in 0 .. n,
                        \A j \in 0 .. n : m[j] < m[k] => g[j] = h[j]
                 PROVE  Phi[<<g, k>>] = Phi[<<h, k>>]
      OBVIOUS
    <3>1. k # 0 => k - 1 \in 0 .. n /\ m[k - 1] < m[k]
      BY <1>1
    <3>2. k # 0 => g[k - 1] = h[k - 1]
      BY <3>1
    <3> QED BY <3>2
  <2>4. m \in [0 .. n -> Nat] /\ \A k \in 0 .. n : m[k] <= n
    BY <1>1
  <2>5. Descends(0 .. n, V, base, m, n, Phi)
    <3> HIDE DEF m, Phi
    <3> QED BY <1>1, <2>2, <2>3, <2>4 DEF Descends
  <2>6. Solvable(0 .. n, V, Phi)
    <3> HIDE DEF m, Phi
    <3> QED BY <2>5, MeasuredRecursion
  <2>7. PICK g \in [0 .. n -> V] : \A k \in 0 .. n : g[k] = Phi[<<g, k>>]
    <3> HIDE DEF Phi
    <3> QED BY <2>6 DEF Solvable
  <2>8. g[0] = base
    <3>1. 0 \in 0 .. n /\ g[0] = Phi[<<g, 0>>]
      <4> HIDE DEF Phi
      <4> QED BY <1>1, <2>7
    <3> QED BY <3>1
  <2>9. \A k \in 1 .. n : g[k] = Step[<<g[k - 1], k>>]
    <3>1. \A k \in 1 .. n : k \in 0 .. n /\ k # 0
      OBVIOUS
    <3> QED BY <2>7, <3>1
  <2> QED BY <2>8, <2>9
<1>5. \A k \in 0 .. n : h[k] \in W[k]
  <2> DEFINE T == {k \in Nat : k <= n => h[k] \in W[k]}
  <2>1. 0 \in T
    BY <1>1, <1>4
  <2>2. ASSUME NEW k \in Nat, k \in T PROVE k + 1 \in T
    <3> SUFFICES ASSUME k + 1 <= n PROVE h[k + 1] \in W[k + 1]
      OBVIOUS
    <3>1. k + 1 \in 1 .. n /\ k \in 0 .. n /\ (k + 1) - 1 = k
      BY <1>1, <2>2
    <3>2. h[k] \in W[k] /\ h[k] \in V
      <4> HIDE DEF V
      <4> QED BY <1>4, <2>2, <3>1
    <3>3. h[k + 1] = Step[<<h[k], k + 1>>]
      <4> HIDE DEF Step, V
      <4> QED BY <1>4, <3>1
    <3>4. Step[<<h[k], k + 1>>] = Real[<<h[k], k + 1>>]
      <4> HIDE DEF V
      <4> QED BY <3>1, <3>2
    <3>5. Real[<<h[k], k + 1>>] \in W[k + 1]
      BY <3>1, <3>2 DEF Stages
    <3> QED BY <3>3, <3>4, <3>5
  <2>3. Nat \subseteq T
    <3> HIDE DEF T
    <3> QED BY <2>1, <2>2, NatSet
  <2>4. ASSUME NEW k \in 0 .. n PROVE h[k] \in W[k]
    <3>1. k \in T /\ k <= n
      <4> HIDE DEF T
      <4> QED BY <1>1, <2>3
    <3> QED BY <3>1
  <2> QED BY <2>4
<1>6. ASSUME NEW k \in 1 .. n PROVE h[k] = Real[<<h[k - 1], k>>]
  <2>1. k - 1 \in 0 .. n /\ k - 1 \in Int
    BY <1>1
  <2>2. h[k - 1] \in W[k - 1] /\ h[k - 1] \in V
    <3> HIDE DEF V
    <3> QED BY <1>4, <1>5, <2>1
  <2>3. h[k] = Step[<<h[k - 1], k>>]
    <3> HIDE DEF Step, V
    <3> QED BY <1>4
  <2>4. Step[<<h[k - 1], k>>] = Real[<<h[k - 1], k>>]
    <3> HIDE DEF V
    <3> QED BY <2>2
  <2> QED BY <2>3, <2>4
<1> HIDE DEF V, Step
<1>7. DOMAIN h = 0 .. n /\ h = [k \in 0 .. n |-> h[k]] /\ h[0] = base
  BY <1>4
<1> QED BY <1>6, <1>7

(* A construction that follows the stages lies, at each of them, in its     *)
(* set.                                                                     *)
LEMMA StagesKept ==
  ASSUME NEW n, NEW W, NEW base, NEW Real, Stages(n, W, base, Real), NEW l, l[0] = base,
         \A k \in 1 .. n : l[k] = Real[<<l[k - 1], k>>]
  PROVE  \A k \in 0 .. n : l[k] \in W[k]
<1> DEFINE T == {k \in Nat : k <= n => l[k] \in W[k]}
<1>1. n \in Nat /\ 0 \in T
  BY DEF Stages
<1>2. ASSUME NEW k \in Nat, k \in T PROVE k + 1 \in T
  <2> SUFFICES ASSUME k + 1 <= n PROVE l[k + 1] \in W[k + 1]
    OBVIOUS
  <2>1. k + 1 \in 1 .. n /\ (k + 1) - 1 = k /\ l[k] \in W[k]
    BY <1>1, <1>2
  <2>2. l[k + 1] = Real[<<l[k], k + 1>>]
    BY <2>1
  <2>3. Real[<<l[k], k + 1>>] \in W[k + 1]
    BY <2>1 DEF Stages
  <2> QED BY <2>2, <2>3
<1>3. Nat \subseteq T
  <2> HIDE DEF T
  <2> QED BY <1>1, <1>2, NatSet
<1> QED BY <1>1, <1>3

-----------------------------------------------------------------------------
(* The run of an order, stop by stop.                                       *)
RunOf(h, p, order, earliest) ==
  /\ h \in [0 .. Len(order) -> RunSet(Len(p.stops))]
  /\ h[0] = AtDepot(p) /\ Visited(p, order, earliest) = h[Len(order)]
  /\ \A k \in 1 .. Len(order) : h[k] = Visit(p, earliest, h[k - 1], order[k])

(* Every order has its run.                                                 *)
LEMMA RunOfOrder ==
  ASSUME NEW p, IsProblem(p), NEW order \in Seq(1 .. Len(p.stops)), NEW earliest \in BOOLEAN
  PROVE  \E h : RunOf(h, p, order, earliest)
BY VisitsRun DEF RunOf

(* One more stop is one more visit.                                         *)
LEMMA VisitedAppends ==
  ASSUME NEW p, IsProblem(p), NEW o \in Seq(1 .. Len(p.stops)), NEW x \in 1 .. Len(p.stops),
         NEW earliest \in BOOLEAN
  PROVE  /\ Visited(p, Append(o, x), earliest) = Visit(p, earliest, Visited(p, o, earliest), x)
         /\ Visited(p, o, earliest) \in RunSet(Len(p.stops))
<1> DEFINE q == Append(o, x)
<1>1. q \in Seq(1 .. Len(p.stops)) /\ Len(q) = Len(o) + 1 /\ q[Len(q)] = x /\ Len(o) \in Nat
  OBVIOUS
<1>2. \A k \in 1 .. Len(o) : q[k] = o[k]
  OBVIOUS
<1> HIDE DEF q
<1>3. PICK h : RunOf(h, p, o, earliest)
  BY RunOfOrder
<1>4. PICK g : RunOf(g, p, q, earliest)
  BY <1>1, RunOfOrder
<1> DEFINE T == {k \in Nat : k <= Len(o) => g[k] = h[k]}
<1>5. 0 \in T
  BY <1>3, <1>4 DEF RunOf
<1>6. ASSUME NEW k \in Nat, k \in T PROVE k + 1 \in T
  <2> SUFFICES ASSUME k + 1 <= Len(o) PROVE g[k + 1] = h[k + 1]
    OBVIOUS
  <2>1. k + 1 \in 1 .. Len(o) /\ k + 1 \in 1 .. Len(q) /\ (k + 1) - 1 = k /\ g[k] = h[k]
    BY <1>1, <1>6
  <2>2. g[k + 1] = Visit(p, earliest, g[k], q[k + 1])
    BY <1>4, <2>1 DEF RunOf
  <2>3. h[k + 1] = Visit(p, earliest, h[k], o[k + 1])
    BY <1>3, <2>1 DEF RunOf
  <2> QED BY <1>2, <2>1, <2>2, <2>3
<1>7. Nat \subseteq T
  <2> HIDE DEF T
  <2> QED BY <1>5, <1>6, NatSet
<1>8. g[Len(o)] = h[Len(o)]
  BY <1>1, <1>7
<1>9. Len(q) \in 1 .. Len(q) /\ Len(q) - 1 = Len(o) /\ Len(o) \in 0 .. Len(o)
  BY <1>1
<1>10. g[Len(q)] = Visit(p, earliest, g[Len(o)], x)
  BY <1>1, <1>4, <1>9 DEF RunOf
<1>11. h[Len(o)] \in RunSet(Len(p.stops))
  BY <1>3, <1>9 DEF RunOf
<1> QED BY <1>3, <1>4, <1>8, <1>10, <1>11 DEF q, RunOf

(* Without stops the run is still at the depot.                             *)
LEMMA VisitedNothing ==
  ASSUME NEW p, IsProblem(p), NEW earliest \in BOOLEAN
  PROVE  Visited(p, <<>>, earliest) = AtDepot(p)
<1> DEFINE o == <<>>
<1>1. o \in Seq(1 .. Len(p.stops)) /\ Len(o) = 0
  OBVIOUS
<1> HIDE DEF o
<1>2. PICK h : RunOf(h, p, o, earliest)
  BY <1>1, RunOfOrder
<1>3. Visited(p, o, earliest) = AtDepot(p)
  BY <1>1, <1>2 DEF RunOf
<1> QED BY <1>3 DEF o

(* Without breaks a drive takes its duration.                               *)
LEMMA PlainDrive ==
  ASSUME NEW at \in Int, NEW duration \in Int, NEW breaks \in Seq(WindowSet), Len(breaks) = 0
  PROVE  TravelEnd(at, duration, breaks) = at + duration
<1>1. PICK h \in [0 .. Len(breaks) -> TripSet] :
        /\ h[0] = [at |-> at, left |-> duration, done |-> FALSE]
        /\ TravelEnd(at, duration, breaks) = h[Len(breaks)].at + h[Len(breaks)].left
        /\ \A k \in 1 .. Len(breaks) : h[k] = Drive(h[k - 1], breaks[k])
  BY DriveRun
<1> QED BY <1>1

(* The service of a stop, one question per break and one more.              *)
ServedOf(h, arrival, stop, breaks, earliest) ==
  /\ h \in [0 .. Len(breaks) + 1 -> AppointmentSet]
  /\ h[0] = Appoint(earliest, arrival, stop) /\ Service(arrival, stop, breaks, earliest) = h[Len(breaks) + 1]
  /\ \A k \in 1 .. Len(breaks) + 1 :
       h[k] = AppointAgain(earliest, h[k - 1], ServiceReady(h[k - 1].start, stop.service, breaks), stop)

(* Every service is such a series of questions.                             *)
LEMMA ServedOfStop ==
  ASSUME NEW arrival \in Int, NEW stop, IsStop(stop), NEW breaks \in Seq(WindowSet), NEW earliest \in BOOLEAN
  PROVE  \E h : ServedOf(h, arrival, stop, breaks, earliest)
<1>1. \E h \in [0 .. Len(breaks) + 1 -> AppointmentSet] :
        /\ h[0] = Appoint(earliest, arrival, stop) /\ Service(arrival, stop, breaks, earliest) = h[Len(breaks) + 1]
        /\ \A k \in 1 .. Len(breaks) + 1 :
             h[k] = AppointAgain(earliest, h[k - 1], ServiceReady(h[k - 1].start, stop.service, breaks), stop)
  BY ServiceRun, Zenon
<1> QED BY <1>1 DEF ServedOf

(* Without breaks an unloading starts when it may.                          *)
LEMMA PlainReady ==
  ASSUME NEW start \in Int, NEW duration \in Nat, NEW breaks \in Seq(WindowSet), Len(breaks) = 0
  PROVE  ServiceReady(start, duration, breaks) = start
<1>1. PICK r \in [0 .. Len(breaks) -> Int] :
        r[0] = start /\ ServiceReady(start, duration, breaks) = r[Len(breaks)]
  BY ServiceReadyRun
<1> QED BY <1>1

(* Without breaks a stop is served as it is evaluated.                      *)
LEMMA PlainService ==
  ASSUME NEW arrival \in Int, NEW stop, IsStop(stop), NEW earliest \in BOOLEAN,
         NEW breaks \in Seq(WindowSet), Len(breaks) = 0
  PROVE  Service(arrival, stop, breaks, earliest) = Appoint(earliest, arrival, stop)
<1>1. PICK h : ServedOf(h, arrival, stop, breaks, earliest)
  BY ServedOfStop
<1>2. /\ h[0] \in AppointmentSet /\ h[0] = Appoint(earliest, arrival, stop)
      /\ Service(arrival, stop, breaks, earliest) = h[1]
      /\ h[1] = AppointAgain(earliest, h[0], ServiceReady(h[0].start, stop.service, breaks), stop)
  BY <1>1 DEF ServedOf
<1>3. h[0].start \in Int /\ stop.service \in Nat
  BY <1>2 DEF AppointmentSet, IsStop
<1>5. ServiceReady(h[0].start, stop.service, breaks) = h[0].start
  BY <1>3, PlainReady
<1> QED BY <1>2, <1>5 DEF AppointAgain

(* A visit without breaks: the drive takes its duration and the stop is     *)
(* served as it is evaluated.                                               *)
VisitsPlainly(p, run, stop) ==
  \A ev : ev = EvaluateCandidate(run.at + p.min[<<run.place, stop>>], p.stops[stop]) =>
    /\ Visit(p, FALSE, run, stop).at = ev.start + p.stops[stop].service
    /\ Visit(p, FALSE, run, stop).place = stop
    /\ Visit(p, FALSE, run, stop).broken = run.broken + (IF ev.feasible THEN 0 ELSE 1)

(* Without breaks every visit is plain: the search of a feasible order      *)
(* may add up the drives alone.                                             *)
LEMMA PlainVisit ==
  ASSUME NEW p, IsProblem(p), Len(p.breaks) = 0, NEW run \in RunSet(Len(p.stops)), NEW stop \in 1 .. Len(p.stops)
  PROVE  VisitsPlainly(p, run, stop)
<1> SUFFICES ASSUME NEW ev, ev = EvaluateCandidate(run.at + p.min[<<run.place, stop>>], p.stops[stop])
             PROVE  /\ Visit(p, FALSE, run, stop).at = ev.start + p.stops[stop].service
                    /\ Visit(p, FALSE, run, stop).place = stop
                    /\ Visit(p, FALSE, run, stop).broken = run.broken + (IF ev.feasible THEN 0 ELSE 1)
  BY DEF VisitsPlainly
<1>1. run.at \in Int /\ run.place \in 0 .. Len(p.stops)
  BY DEF RunSet
<1>2. stop \in 0 .. Len(p.stops) /\ IsStop(p.stops[stop])
  BY ProblemIs
<1>3. p.min[<<run.place, stop>>] \in Int
  BY <1>1, <1>2, ProblemIs
<1> DEFINE arrival == run.at + p.min[<<run.place, stop>>]
<1>4. TravelEnd(run.at, p.min[<<run.place, stop>>], p.breaks) = arrival /\ arrival \in Int
  <2>1. p.breaks \in Seq(WindowSet)
    BY ProblemIs
  <2>2. TravelEnd(run.at, p.min[<<run.place, stop>>], p.breaks) = run.at + p.min[<<run.place, stop>>]
    BY <1>1, <1>3, <2>1, PlainDrive
  <2> QED BY <1>1, <1>3, <2>2
<1> HIDE DEF arrival
<1>5. Service(arrival, p.stops[stop], p.breaks, FALSE) = EvaluateCandidate(arrival, p.stops[stop])
  BY <1>2, <1>4, ProblemIs, PlainService DEF Appoint
<1>6. Visit(p, FALSE, run, stop) = Unloaded(p, run, stop, arrival, EvaluateCandidate(arrival, p.stops[stop]))
  BY <1>4, <1>5 DEF Visit, Reached
<1>7. ev = EvaluateCandidate(arrival, p.stops[stop])
  BY DEF arrival
<1>8. Visit(p, FALSE, run, stop) = Unloaded(p, run, stop, arrival, ev)
  BY <1>6, <1>7
<1> DEFINE next == Unloaded(p, run, stop, arrival, ev)
<1>9. /\ next.at = ev.start + p.stops[stop].service /\ next.place = stop
      /\ next.broken = run.broken + (IF ev.feasible THEN 0 ELSE 1)
  BY DEF Unloaded
<1> HIDE DEF next
<1> QED BY <1>8, <1>9 DEF next

-----------------------------------------------------------------------------
(* A stop can be served on time by someone who is there at this time.       *)
CanServe(at, stop) == stop.windows = {} \/ \E w \in stop.windows : Fits(at, stop.service, w)

(* The start of a service is the first one its windows allow.               *)
StartsSoonest(at, stop, start) ==
  IF stop.windows = {} THEN start = at
  ELSE /\ \E w \in stop.windows : Fits(at, stop.service, w) /\ start = Greater(at, w.open)
       /\ \A w \in stop.windows : Fits(at, stop.service, w) => start <= Greater(at, w.open)

(* An evaluation of a stop is right: it is feasible exactly when the stop   *)
(* can be served on time, and then it starts as soon as a window allows.    *)
Serves(ev, at, stop) ==
  (ev.feasible <=> CanServe(at, stop)) /\ (ev.feasible => StartsSoonest(at, stop, ev.start))

(* A window in which the unloading fits comes before one in which it does   *)
(* not, and of two that fit the one that starts sooner comes first.         *)
LEMMA FittingIsBetter ==
  ASSUME NEW at \in Int, NEW service \in Nat, NEW v \in WindowSet, NEW w \in WindowSet,
         Fits(at, service, v), ~Before(WindowKey(at, service, v), WindowKey(at, service, w))
  PROVE  Fits(at, service, w) /\ Greater(at, w.open) <= Greater(at, v.open)
<1>1. Greater(at, v.open) \in Int /\ Greater(at, w.open) \in Int
  BY GreaterIs DEF WindowSet
<1> DEFINE a == WindowKey(at, service, v)
           b == WindowKey(at, service, w)
<1>2. a[1] = 0 /\ a[2] = Greater(at, v.open) /\ Len(a) = 3
  BY DEF WindowKey
<1>3. b[1] = (IF Fits(at, service, w) THEN 0 ELSE 1) /\ (Fits(at, service, w) => b[2] = Greater(at, w.open))
  BY DEF WindowKey
<1> HIDE DEF a, b
<1>4. Fits(at, service, w)
  <2> SUFFICES ASSUME ~Fits(at, service, w) PROVE FALSE
    OBVIOUS
  <2>1. 1 \in 1 .. Len(a) /\ a[1] < b[1] /\ \A j \in 1 .. 1 - 1 : a[j] = b[j]
    BY <1>2, <1>3
  <2>2. Before(a, b)
    BY <2>1 DEF Before
  <2> QED BY <2>2 DEF a, b
<1>5. Greater(at, w.open) <= Greater(at, v.open)
  <2> SUFFICES ASSUME Greater(at, v.open) < Greater(at, w.open) PROVE FALSE
    BY <1>1
  <2>1. 2 \in 1 .. Len(a) /\ a[2] < b[2] /\ \A j \in 1 .. 2 - 1 : a[j] = b[j]
    BY <1>2, <1>3, <1>4
  <2>2. Before(a, b)
    BY <2>1 DEF Before
  <2> QED BY <2>2 DEF a, b
<1> QED BY <1>4, <1>5

(* The best of any set of windows that holds those that fit is right.       *)
LEMMA BestServes ==
  ASSUME NEW at \in Int, NEW stop, IsStop(stop), NEW open \in SUBSET stop.windows,
         \A w \in stop.windows : Fits(at, stop.service, w) => w \in open, open # {}
  PROVE  Serves(Within(at, stop.service, BestWindow(at, stop.service, open)), at, stop)
<1> DEFINE b == BestWindow(at, stop.service, open)
<1>1. stop.windows \in SUBSET WindowSet /\ IsFiniteSet(stop.windows) /\ stop.service \in Nat
  BY DEF IsStop
<1>2. IsFiniteSet(open)
  BY <1>1, FS_Subset
<1>3. b \in open /\ \A v \in open : ~Before(WindowKey(at, stop.service, v), WindowKey(at, stop.service, b))
  BY <1>1, <1>2, BestWindowIs
<1> HIDE DEF b
<1>4. \A v \in stop.windows : Fits(at, stop.service, v) =>
        Fits(at, stop.service, b) /\ Greater(at, b.open) <= Greater(at, v.open)
  BY <1>1, <1>3, FittingIsBetter
<1> DEFINE ev == Within(at, stop.service, b)
<1>5. ev.feasible = Fits(at, stop.service, b) /\ ev.start = Greater(at, b.open) /\ stop.windows # {}
  BY <1>3 DEF Within
<1> HIDE DEF ev
<1>6. ev.feasible <=> CanServe(at, stop)
  BY <1>3, <1>4, <1>5 DEF CanServe
<1>7. ev.feasible => StartsSoonest(at, stop, ev.start)
  BY <1>3, <1>4, <1>5 DEF StartsSoonest
<1> QED BY <1>6, <1>7 DEF Serves, ev, b

(* Both evaluations of a stop are right: the one of the route (the best     *)
(* of the windows still open) and the one of the fleet and of the           *)
(* fallback (the best of the windows that fit) agree on whether a stop      *)
(* can be served and on when.                                               *)
LEMMA CandidatesServe ==
  ASSUME NEW at \in Int, NEW stop, IsStop(stop)
  PROVE  Serves(EvaluateCandidate(at, stop), at, stop) /\ Serves(EarliestFeasibleCandidate(at, stop), at, stop)
<1>1. stop.windows \in SUBSET WindowSet /\ stop.service \in Nat
  BY DEF IsStop
<1>2. \A w \in stop.windows : Fits(at, stop.service, w) => at <= w.close
  <2> SUFFICES ASSUME NEW w \in stop.windows, Fits(at, stop.service, w) PROVE at <= w.close
    OBVIOUS
  <2>1. w.open \in Int /\ w.close \in Int
    BY <1>1 DEF WindowSet
  <2>2. at <= Greater(at, w.open) /\ Greater(at, w.open) \in Int
    BY <2>1, GreaterIs
  <2>3. Greater(at, w.open) + stop.service <= w.close
    BY DEF Fits
  <2> QED BY <1>1, <2>1, <2>2, <2>3
<1> DEFINE open == {w \in stop.windows : at <= w.close}
           fitting == {w \in stop.windows : Fits(at, stop.service, w)}
<1>3. Serves(EvaluateCandidate(at, stop), at, stop)
  <2>1. CASE stop.windows = {}
    BY <2>1 DEF EvaluateCandidate, Serves, CanServe, StartsSoonest
  <2>2. CASE stop.windows # {} /\ \A w \in stop.windows : w.close < at
    <3>1. EvaluateCandidate(at, stop).feasible = FALSE
      BY <2>2 DEF EvaluateCandidate
    <3>2. \A w \in stop.windows : w.close \in Int
      BY <1>1 DEF WindowSet
    <3>3. ~CanServe(at, stop)
      BY <1>2, <2>2, <3>2 DEF CanServe
    <3> QED BY <3>1, <3>3 DEF Serves
  <2>3. CASE ~(\A w \in stop.windows : w.close < at)
    <3>1. EvaluateCandidate(at, stop) = Within(at, stop.service, BestWindow(at, stop.service, open))
      BY <2>3 DEF EvaluateCandidate
    <3>2. \A w \in stop.windows : w.close \in Int
      BY <1>1 DEF WindowSet
    <3>3. open # {}
      BY <2>3, <3>2
    <3>4. open \in SUBSET stop.windows /\ \A w \in stop.windows : Fits(at, stop.service, w) => w \in open
      BY <1>2
    <3> HIDE DEF open
    <3> QED BY <3>1, <3>3, <3>4, BestServes
  <2> QED BY <2>1, <2>2, <2>3
<1>4. Serves(EarliestFeasibleCandidate(at, stop), at, stop)
  <2>1. CASE \E w \in stop.windows : Fits(at, stop.service, w)
    <3>1. EarliestFeasibleCandidate(at, stop) = Within(at, stop.service, BestWindow(at, stop.service, fitting))
      BY <2>1 DEF EarliestFeasibleCandidate
    <3>2. fitting # {} /\ fitting \in SUBSET stop.windows
          /\ \A w \in stop.windows : Fits(at, stop.service, w) => w \in fitting
      BY <2>1
    <3> HIDE DEF fitting
    <3> QED BY <3>1, <3>2, BestServes
  <2>2. CASE ~(\E w \in stop.windows : Fits(at, stop.service, w))
    BY <1>3, <2>2 DEF EarliestFeasibleCandidate
  <2> QED BY <2>1, <2>2
<1> QED BY <1>3, <1>4

(* Who comes sooner is served, and is served no later: the reason why       *)
(* keeping the soonest witness of a set of stops loses no feasible order.   *)
LEMMA SoonerServes ==
  ASSUME NEW a \in Int, NEW b \in Int, a <= b, NEW stop, IsStop(stop), NEW early, NEW late,
         Serves(early, a, stop), Serves(late, b, stop), late.feasible
  PROVE  early.feasible /\ early.start <= late.start
<1>1. stop.windows \in SUBSET WindowSet /\ stop.service \in Nat
  BY DEF IsStop
<1>2. CASE stop.windows = {}
  BY <1>2 DEF Serves, CanServe, StartsSoonest
<1>3. CASE stop.windows # {}
  <2>1. PICK w \in stop.windows : Fits(b, stop.service, w) /\ late.start = Greater(b, w.open)
    BY <1>3 DEF Serves, StartsSoonest
  <2>2. w.open \in Int /\ w.close \in Int
    BY <1>1 DEF WindowSet
  <2>3. Greater(a, w.open) <= Greater(b, w.open) /\ Greater(a, w.open) \in Int /\ Greater(b, w.open) \in Int
    BY <2>2 DEF Greater
  <2>4. Fits(a, stop.service, w)
    BY <1>1, <2>1, <2>2, <2>3 DEF Fits
  <2>5. early.feasible
    BY <2>4 DEF Serves, CanServe
  <2>6. early.start <= Greater(a, w.open)
    BY <1>3, <2>4, <2>5 DEF Serves, StartsSoonest
  <2>7. PICK v \in stop.windows : early.start = Greater(a, v.open)
    BY <1>3, <2>5 DEF Serves, StartsSoonest
  <2>8. early.start \in Int
    <3>1. v.open \in Int
      BY <1>1 DEF WindowSet
    <3> QED BY <2>7, <3>1, GreaterIs
  <2> QED BY <2>1, <2>3, <2>5, <2>6, <2>8
<1> QED BY <1>2, <1>3

-----------------------------------------------------------------------------
(* The violations of an evaluation: the windows missed and the shift        *)
(* left.                                                                    *)
LEMMA ViolationsAre ==
  ASSUME NEW p, NEW order, NEW earliest, NEW home, home = Back(p, order, Visited(p, order, earliest))
  PROVE  EvaluateFixedSequence(p, order, earliest).violations =
           home.broken + (IF OutsideShift(p, p.leave, home.at) THEN 1 ELSE 0)
<1>1. EvaluateFixedSequence(p, order, earliest) = Returned(p, order, home)
  BY DEF EvaluateFixedSequence, Visited
<1> QED BY <1>1 DEF Returned, Judged, Report

-----------------------------------------------------------------------------
(* Problems that are not stricter.                                          *)

(* The breaks of a driver end after they begin.                             *)
AreBreaks(breaks) == breaks \in Seq(WindowSet) /\ \A k \in 1 .. Len(breaks) : breaks[k].open <= breaks[k].close

(* Of two drives the first is ahead: it arrives no later, and while both go *)
(* on it is neither before nor has it more to go... *)
Ahead(a, b) ==
  /\ a.at + a.left <= b.at + b.left
  /\ b.done => a.done
  /\ ~a.done => a.at <= b.at /\ a.left <= b.left
  /\ 0 <= a.left /\ 0 <= b.left

(* A break keeps the first of two drives ahead.                             *)
LEMMA DriveKeepsAhead ==
  ASSUME NEW a \in TripSet, NEW b \in TripSet, Ahead(a, b), NEW pause \in WindowSet, pause.open <= pause.close
  PROVE  Ahead(Drive(a, pause), Drive(b, pause))
<1>1. /\ a.at \in Int /\ a.left \in Int /\ a.done \in BOOLEAN /\ b.at \in Int /\ b.left \in Int /\ b.done \in BOOLEAN
      /\ pause.open \in Int /\ pause.close \in Int
  BY DEF TripSet, WindowSet
<1> DEFINE Ends(x) == x.at + x.left <= pause.open
           Passed(x) == x.done \/ pause.close <= x.at
           Moved(x, y) == IF Passed(x) THEN y = x
                          ELSE IF Ends(x) THEN y.at = x.at /\ y.left = x.left /\ y.done = TRUE
                          ELSE /\ y.at = pause.close /\ y.done = FALSE
                               /\ y.left = IF x.at < pause.open THEN x.left - (pause.open - x.at) ELSE x.left
<1>2. \A x \in TripSet : Moved(x, Drive(x, pause))
  <2> SUFFICES ASSUME NEW x \in TripSet PROVE Moved(x, Drive(x, pause))
    OBVIOUS
  <2>1. x.at \in Int /\ x.left \in Int /\ x.done \in BOOLEAN /\ DOMAIN x = {"at", "left", "done"}
    BY DEF TripSet
  <2>2. CASE Passed(x)
    BY <2>2 DEF Drive
  <2>3. CASE ~Passed(x) /\ Ends(x)
    <3>1. Drive(x, pause) = [x EXCEPT !.done = TRUE]
      BY <2>3 DEF Drive
    <3> QED BY <2>1, <2>3, <3>1
  <2>4. CASE ~Passed(x) /\ ~Ends(x)
    <3>1. Drive(x, pause) = [at |-> Greater(x.at, pause.close), left |-> x.left - Greater(0, pause.open - x.at), done |-> FALSE]
      BY <2>4 DEF Drive
    <3>2. Greater(x.at, pause.close) = pause.close
      BY <1>1, <2>1, <2>4 DEF Greater
    <3>3. x.left - Greater(0, pause.open - x.at) = IF x.at < pause.open THEN x.left - (pause.open - x.at) ELSE x.left
      BY <1>1, <2>1 DEF Greater
    <3> QED BY <2>4, <3>1, <3>2, <3>3
  <2> QED BY <2>2, <2>3, <2>4
<1> DEFINE c == Drive(a, pause)
           d == Drive(b, pause)
<1>3. Moved(a, c) /\ Moved(b, d)
  BY <1>2
<1> HIDE DEF c, d
<1>4. Ahead(c, d)
  <2>1. CASE Passed(a) /\ Passed(b)
    BY <1>3, <2>1
  <2>2. CASE Passed(a) /\ ~Passed(b)
    BY <1>1, <1>3, <2>2 DEF Ahead
  <2>3. CASE ~Passed(a) /\ Passed(b)
    BY <1>1, <1>3, <2>3 DEF Ahead
  <2>4. CASE ~Passed(a) /\ ~Passed(b)
    BY <1>1, <1>3, <2>4 DEF Ahead
  <2> QED BY <2>1, <2>2, <2>3, <2>4
<1> QED BY <1>4 DEF c, d

(* The steps of a drive.                                                    *)
DriveOf(h, start, duration, breaks) ==
  /\ h \in [0 .. Len(breaks) -> TripSet]
  /\ h[0] = [at |-> start, left |-> duration, done |-> FALSE]
  /\ TravelEnd(start, duration, breaks) = h[Len(breaks)].at + h[Len(breaks)].left
  /\ \A k \in 1 .. Len(breaks) : h[k] = Drive(h[k - 1], breaks[k])

(* A drive over the breaks of a shift is worked break by break.             *)
LEMMA DriveOfStart ==
  ASSUME NEW start \in Int, NEW duration \in Int, NEW breaks \in Seq(WindowSet)
  PROVE  \E h : DriveOf(h, start, duration, breaks)
BY DriveRun DEF DriveOf

(* Who leaves sooner arrives sooner.                                        *)
LEMMA SoonerArrives ==
  ASSUME NEW s \in Int, NEW t \in Int, s <= t, NEW duration \in Nat, NEW breaks, AreBreaks(breaks)
  PROVE  TravelEnd(s, duration, breaks) <= TravelEnd(t, duration, breaks)
<1>1. breaks \in Seq(WindowSet) /\ Len(breaks) \in Nat /\ \A k \in 1 .. Len(breaks) : breaks[k] \in WindowSet /\ breaks[k].open <= breaks[k].close
  BY DEF AreBreaks
<1> DEFINE n == Len(breaks)
<1>2. (\E g : DriveOf(g, s, duration, breaks)) /\ \E h : DriveOf(h, t, duration, breaks)
  BY <1>1, DriveOfStart
<1> PICK g : DriveOf(g, s, duration, breaks)
  BY <1>2
<1> PICK h : DriveOf(h, t, duration, breaks)
  BY <1>2
<1>3. /\ g[0] = [at |-> s, left |-> duration, done |-> FALSE] /\ h[0] = [at |-> t, left |-> duration, done |-> FALSE]
      /\ TravelEnd(s, duration, breaks) = g[n].at + g[n].left /\ TravelEnd(t, duration, breaks) = h[n].at + h[n].left
      /\ \A k \in 0 .. n : g[k] \in TripSet /\ h[k] \in TripSet
      /\ \A k \in 1 .. n : g[k] = Drive(g[k - 1], breaks[k]) /\ h[k] = Drive(h[k - 1], breaks[k])
  BY <1>1 DEF DriveOf
<1> DEFINE T == {k \in Nat : k <= n => Ahead(g[k], h[k])}
<1>4. 0 \in T
  BY <1>3 DEF Ahead
<1>5. \A k \in Nat : k \in T => k + 1 \in T
  <2> SUFFICES ASSUME NEW k \in Nat, k \in T, k + 1 <= n PROVE Ahead(g[k + 1], h[k + 1])
    OBVIOUS
  <2>1. k \in 0 .. n /\ k + 1 \in 1 .. n /\ (k + 1) - 1 = k
    BY <1>1
  <2>2. g[k] \in TripSet /\ h[k] \in TripSet /\ Ahead(g[k], h[k])
    BY <1>1, <1>3, <2>1
  <2>3. g[k + 1] = Drive(g[k], breaks[k + 1]) /\ h[k + 1] = Drive(h[k], breaks[k + 1])
    BY <1>3, <2>1
  <2> QED BY <1>1, <2>1, <2>2, <2>3, DriveKeepsAhead
<1>6. n \in T
  <2> HIDE DEF T
  <2>1. Nat \subseteq T
    BY <1>4, <1>5, NatSet
  <2> QED BY <1>1, <2>1
<1> QED BY <1>1, <1>3, <1>6 DEF Ahead

(* An unloading that may begin sooner is ready sooner, and none is ready    *)
(* before it may begin.                                                     *)
LEMMA SoonerReady ==
  ASSUME NEW s \in Int, NEW t \in Int, s <= t, NEW duration \in Nat, NEW breaks, AreBreaks(breaks)
  PROVE  /\ ServiceReady(s, duration, breaks) <= ServiceReady(t, duration, breaks)
         /\ s <= ServiceReady(s, duration, breaks) /\ t <= ServiceReady(t, duration, breaks)
         /\ ServiceReady(s, duration, breaks) \in Int /\ ServiceReady(t, duration, breaks) \in Int
<1>1. breaks \in Seq(WindowSet) /\ Len(breaks) \in Nat /\ \A k \in 1 .. Len(breaks) : breaks[k] \in WindowSet /\ breaks[k].open <= breaks[k].close
  BY DEF AreBreaks
<1> DEFINE n == Len(breaks)
           Next(x, k) == IF Hits(x, duration, breaks[k]) THEN breaks[k].close ELSE x
<1>2. PICK g \in [0 .. n -> Int] :
        /\ g[0] = s /\ ServiceReady(s, duration, breaks) = g[n]
        /\ \A k \in 1 .. n : g[k] = Next(g[k - 1], k)
  BY <1>1, ServiceReadyRun
<1>3. PICK h \in [0 .. n -> Int] :
        /\ h[0] = t /\ ServiceReady(t, duration, breaks) = h[n]
        /\ \A k \in 1 .. n : h[k] = Next(h[k - 1], k)
  <2> HIDE DEF Next
  <2>1. \A start \in Int : \E h \in [0 .. Len(breaks) -> Int] :
           /\ h[0] = start /\ ServiceReady(start, duration, breaks) = h[Len(breaks)]
           /\ \A k \in 1 .. Len(breaks) : h[k] = Next(h[k - 1], k)
    BY <1>1, ServiceReadyRun DEF Next
  <2> QED BY <2>1
<1>4. \A k \in 1 .. n : \A x, y \in Int : x <= y => Next(x, k) <= Next(y, k) /\ x <= Next(x, k) /\ y <= Next(y, k)
  <2> SUFFICES ASSUME NEW k \in 1 .. n, NEW x \in Int, NEW y \in Int, x <= y
               PROVE  Next(x, k) <= Next(y, k) /\ x <= Next(x, k) /\ y <= Next(y, k)
    OBVIOUS
  <2>1. breaks[k].open \in Int /\ breaks[k].close \in Int
    BY <1>1 DEF WindowSet
  <2> QED BY <2>1 DEF Hits
<1> HIDE DEF Next
<1> DEFINE T == {k \in Nat : k <= n => g[k] <= h[k] /\ s <= g[k] /\ t <= h[k]}
<1>5. 0 \in T
  BY <1>2, <1>3
<1>6. \A k \in Nat : k \in T => k + 1 \in T
  <2> SUFFICES ASSUME NEW k \in Nat, k \in T, k + 1 <= n
               PROVE  g[k + 1] <= h[k + 1] /\ s <= g[k + 1] /\ t <= h[k + 1]
    OBVIOUS
  <2>1. k \in 0 .. n /\ k + 1 \in 0 .. n /\ k + 1 \in 1 .. n /\ (k + 1) - 1 = k
    BY <1>1
  <2>2. g[k] \in Int /\ h[k] \in Int /\ g[k + 1] \in Int /\ h[k + 1] \in Int /\ g[k] <= h[k] /\ s <= g[k] /\ t <= h[k]
    BY <1>1, <2>1
  <2>3. g[k + 1] = Next(g[k], k + 1) /\ h[k + 1] = Next(h[k], k + 1)
    BY <1>2, <1>3, <2>1
  <2>4. g[k + 1] <= h[k + 1] /\ g[k] <= g[k + 1] /\ h[k] <= h[k + 1]
    BY <1>4, <2>1, <2>2, <2>3
  <2> QED BY <2>2, <2>4
<1>7. n \in T
  <2> HIDE DEF T
  <2>1. Nat \subseteq T
    BY <1>5, <1>6, NatSet
  <2> QED BY <1>1, <2>1
<1> QED BY <1>1, <1>2, <1>3, <1>7

(* A service may begin at this instant.                                     *)
CanBegin(stop, s) == stop.windows = {} \/ \E w \in stop.windows : w.open <= s /\ s + stop.service <= w.close

(* An appointment is for the first instant from "at" on at which a service  *)
(* may begin.                                                               *)
Appointed(ev, at, stop) ==
  /\ at <= ev.start
  /\ ev.feasible => CanBegin(stop, ev.start)
  /\ \A s \in Int : at <= s /\ CanBegin(stop, s) => ev.feasible /\ ev.start <= s

(* No service is appointed before the driver is there, in time or not.      *)
LEMMA CandidateIsLater ==
  ASSUME NEW at \in Int, NEW stop, IsStop(stop)
  PROVE  at <= EvaluateCandidate(at, stop).start
<1>1. stop.windows \in SUBSET WindowSet /\ IsFiniteSet(stop.windows) /\ stop.service \in Nat
  BY DEF IsStop
<1>2. CASE stop.windows = {}
  BY <1>2 DEF EvaluateCandidate
<1>3. CASE stop.windows # {} /\ \A w \in stop.windows : w.close < at
  BY <1>3 DEF EvaluateCandidate
<1>4. CASE ~(\A w \in stop.windows : w.close < at)
  <2> DEFINE open == {w \in stop.windows : at <= w.close}
             b == BestWindow(at, stop.service, open)
  <2>1. EvaluateCandidate(at, stop) = Within(at, stop.service, b)
    BY <1>4 DEF EvaluateCandidate
  <2>2. \A w \in stop.windows : w.close \in Int /\ w.open \in Int
    BY <1>1 DEF WindowSet
  <2>3. open # {} /\ open \in SUBSET WindowSet
    BY <1>1, <1>4, <2>2
  <2>4. IsFiniteSet(open)
    BY <1>1, FS_Subset
  <2>5. b \in open
    <3> HIDE DEF open
    <3> QED BY <1>1, <2>3, <2>4, BestWindowIs
  <2>6. b.open \in Int
    BY <2>2, <2>5
  <2> HIDE DEF b, open
  <2>7. EvaluateCandidate(at, stop).start = Greater(at, b.open)
    BY <2>1 DEF Within
  <2> QED BY <2>6, <2>7, GreaterIs
<1> QED BY <1>2, <1>3, <1>4

(* The clock appoints a service for the first instant at which it may begin,*)
(* and only where there is none for an instant outside every window.        *)
LEMMA AppointmentIs ==
  ASSUME NEW at \in Int, NEW stop, IsStop(stop)
  PROVE  Appointed(Appoint(TRUE, at, stop), at, stop)
<1> DEFINE ev == EarliestFeasibleCandidate(at, stop)
<1>1. Appoint(TRUE, at, stop) = ev
  BY DEF Appoint
<1>2. stop.windows \in SUBSET WindowSet /\ stop.service \in Nat
  BY DEF IsStop
<1>3. \A w \in stop.windows : w.open \in Int /\ w.close \in Int /\ Greater(at, w.open) \in Int /\ at <= Greater(at, w.open)
                               /\ w.open <= Greater(at, w.open) /\ Greater(at, w.open) \in {at, w.open}
  BY <1>2, GreaterIs DEF WindowSet
<1>4. Serves(ev, at, stop)
  BY CandidatesServe
<1>5. ev.start \in Int /\ ev.feasible \in BOOLEAN
  BY AppointTyped DEF AppointmentSet
<1>6. ~CanServe(at, stop) => ev = EvaluateCandidate(at, stop)
  BY DEF CanServe, EarliestFeasibleCandidate
<1>7. at <= EvaluateCandidate(at, stop).start
  BY CandidateIsLater
<1> HIDE DEF ev
<1>8. at <= ev.start
  <2>1. CASE ~CanServe(at, stop)
    BY <1>6, <1>7, <2>1
  <2>2. CASE CanServe(at, stop)
    BY <1>3, <1>4, <2>2 DEF Serves, StartsSoonest
  <2> QED BY <2>1, <2>2
<1>9. ASSUME ev.feasible PROVE CanBegin(stop, ev.start)
  BY <1>3, <1>4, <1>9 DEF Serves, StartsSoonest, Fits, CanBegin
<1>10. ASSUME NEW s \in Int, at <= s, CanBegin(stop, s) PROVE ev.feasible /\ ev.start <= s
  <2>1. CASE stop.windows = {}
    BY <1>4, <1>10, <2>1 DEF Serves, CanServe, StartsSoonest
  <2>2. CASE stop.windows # {}
    <3>1. PICK w \in stop.windows : w.open <= s /\ s + stop.service <= w.close
      BY <1>10, <2>2 DEF CanBegin
    <3>2. Greater(at, w.open) <= s
      BY <1>3, <1>10, <3>1
    <3>3. Fits(at, stop.service, w)
      BY <1>2, <1>3, <3>1, <3>2 DEF Fits
    <3>4. ev.feasible
      BY <1>4, <3>3 DEF Serves, CanServe
    <3>5. ev.start <= Greater(at, w.open)
      BY <1>4, <2>2, <3>3, <3>4 DEF Serves, StartsSoonest
    <3> QED BY <1>3, <1>5, <3>2, <3>4, <3>5
  <2> QED BY <2>1, <2>2
<1>11. Appointed(ev, at, stop)
  BY <1>8, <1>9, <1>10 DEF Appointed
<1> QED BY <1>1, <1>11

(* What is right of an appointment, whenever it was asked for.              *)
Holds(ev, stop) ==
  /\ ev \in AppointmentSet
  /\ ev.feasible => CanBegin(stop, ev.start)
  /\ ~ev.feasible => \A s \in Int : ev.start <= s => ~CanBegin(stop, s)

(* The first appointment is kept whenever the second is, and no later.      *)
NoLater(a, b) == b.feasible => a.feasible /\ a.start <= b.start

(* A kept appointment is for an instant at which the service may begin; after*)
(* a broken one there is no such instant any more.                          *)
LEMMA AppointmentHolds ==
  ASSUME NEW at \in Int, NEW stop, IsStop(stop)
  PROVE  Holds(Appoint(TRUE, at, stop), stop) /\ at <= Appoint(TRUE, at, stop).start
<1> DEFINE ev == Appoint(TRUE, at, stop)
<1>1. ev \in AppointmentSet /\ ev.start \in Int
  BY AppointTyped DEF AppointmentSet
<1>2. Appointed(ev, at, stop)
  BY AppointmentIs
<1> HIDE DEF ev
<1>3. at <= ev.start /\ (ev.feasible => CanBegin(stop, ev.start))
  BY <1>2 DEF Appointed
<1>4. ASSUME ~ev.feasible, NEW s \in Int, ev.start <= s PROVE ~CanBegin(stop, s)
  <2>1. at <= s
    BY <1>1, <1>3, <1>4
  <2> QED BY <1>2, <1>4, <2>1 DEF Appointed
<1>5. Holds(ev, stop) /\ at <= ev.start
  BY <1>1, <1>3, <1>4 DEF Holds
<1> QED BY <1>5 DEF ev

(* A stop that is served whenever the other is.                             *)
IsWider(stop, narrow) ==
  /\ IsStop(stop) /\ IsStop(narrow) /\ stop.service = narrow.service
  /\ \A s \in Int : CanBegin(narrow, s) => CanBegin(stop, s)

(* To be ready sooner never means to be served later, at a stop with wider  *)
(* windows, asked again from the end of a break.                            *)
LEMMA SoonerAgain ==
  ASSUME NEW stop, NEW narrow, IsWider(stop, narrow), NEW a, Holds(a, stop), NEW b, Holds(b, narrow), NoLater(a, b),
         NEW x \in Int, NEW y \in Int, a.start <= x, b.start <= y, b.feasible => x <= y
  PROVE  /\ NoLater(AppointAgain(TRUE, a, x, stop), AppointAgain(TRUE, b, y, narrow))
         /\ Holds(AppointAgain(TRUE, a, x, stop), stop) /\ Holds(AppointAgain(TRUE, b, y, narrow), narrow)
<1> DEFINE c == AppointAgain(TRUE, a, x, stop)
           d == AppointAgain(TRUE, b, y, narrow)
<1>1. IsStop(stop) /\ IsStop(narrow) /\ \A s \in Int : CanBegin(narrow, s) => CanBegin(stop, s)
  BY DEF IsWider
<1>2. a.start \in Int /\ b.start \in Int /\ a.feasible \in BOOLEAN /\ b.feasible \in BOOLEAN
  BY DEF Holds, AppointmentSet
<1>3. (x = a.start /\ c = a) \/ c = Appoint(TRUE, x, stop)
  BY DEF AppointAgain
<1>4. (y = b.start /\ d = b) \/ d = Appoint(TRUE, y, narrow)
  BY DEF AppointAgain
<1>5. Holds(c, stop)
  BY <1>1, <1>3, AppointmentHolds
<1>6. Holds(d, narrow) /\ y <= d.start
  BY <1>1, <1>2, <1>4, AppointmentHolds
<1> HIDE DEF c, d
<1>7. ASSUME d.feasible PROVE c.feasible /\ c.start <= d.start
  <2>1. d.start \in Int /\ CanBegin(narrow, d.start)
    BY <1>6, <1>7 DEF Holds, AppointmentSet
  <2>2. b.start <= d.start
    BY <1>2, <1>6, <2>1
  <2>3. b.feasible
    BY <1>2, <2>1, <2>2 DEF Holds
  <2>4. a.feasible /\ a.start <= b.start /\ x <= d.start
    BY <1>2, <1>6, <2>1, <2>3 DEF NoLater
  <2>5. CASE x = a.start /\ c = a
    BY <1>2, <2>1, <2>2, <2>4, <2>5
  <2>6. CASE c = Appoint(TRUE, x, stop)
    <3>1. CanBegin(stop, d.start)
      BY <1>1, <2>1
    <3>2. Appointed(c, x, stop)
      BY <1>1, <2>6, AppointmentIs
    <3> QED BY <2>1, <2>4, <3>1, <3>2 DEF Appointed
  <2> QED BY <1>3, <2>5, <2>6
<1>8. NoLater(c, d)
  BY <1>7 DEF NoLater
<1>9. NoLater(c, d) /\ Holds(c, stop) /\ Holds(d, narrow)
  BY <1>5, <1>6, <1>8
<1> QED BY <1>9 DEF c, d

(* Who arrives sooner at a stop that is open whenever the other is begins to*)
(* serve it no later, and keeps the appointment whenever the other is kept. *)
LEMMA SoonerServed ==
  ASSUME NEW stop, NEW narrow, IsWider(stop, narrow), NEW s \in Int, NEW t \in Int, s <= t,
         NEW breaks, AreBreaks(breaks)
  PROVE  NoLater(Service(s, stop, breaks, TRUE), Service(t, narrow, breaks, TRUE))
<1>1. breaks \in Seq(WindowSet) /\ Len(breaks) \in Nat
  BY DEF AreBreaks
<1>2. /\ IsStop(stop) /\ IsStop(narrow) /\ stop.service = narrow.service /\ stop.service \in Nat
      /\ \A x \in Int : CanBegin(narrow, x) => CanBegin(stop, x)
  BY DEF IsWider, IsStop
<1> DEFINE n == Len(breaks) + 1
<1>3. (\E g : ServedOf(g, s, stop, breaks, TRUE)) /\ \E h : ServedOf(h, t, narrow, breaks, TRUE)
  BY <1>1, <1>2, ServedOfStop
<1> PICK g : ServedOf(g, s, stop, breaks, TRUE)
  BY <1>3
<1> PICK h : ServedOf(h, t, narrow, breaks, TRUE)
  BY <1>3
<1> DEFINE GNext(k) == AppointAgain(TRUE, g[k - 1], ServiceReady(g[k - 1].start, stop.service, breaks), stop)
           HNext(k) == AppointAgain(TRUE, h[k - 1], ServiceReady(h[k - 1].start, stop.service, breaks), narrow)
<1>4. /\ g[0] = Appoint(TRUE, s, stop) /\ h[0] = Appoint(TRUE, t, narrow)
      /\ Service(s, stop, breaks, TRUE) = g[n] /\ Service(t, narrow, breaks, TRUE) = h[n]
      /\ \A k \in 1 .. n : g[k] = GNext(k) /\ h[k] = HNext(k)
  BY <1>2 DEF ServedOf
<1> DEFINE T == {k \in Nat : k <= n => NoLater(g[k], h[k]) /\ Holds(g[k], stop) /\ Holds(h[k], narrow)}
<1>5. 0 \in T
  <2>1. /\ Holds(g[0], stop) /\ Holds(h[0], narrow) /\ t <= h[0].start
        /\ Appointed(g[0], s, stop)
    BY <1>2, <1>4, AppointmentHolds, AppointmentIs
  <2>2. ASSUME h[0].feasible PROVE g[0].feasible /\ g[0].start <= h[0].start
    <3>1. h[0].start \in Int /\ CanBegin(narrow, h[0].start)
      BY <2>1, <2>2 DEF Holds, AppointmentSet
    <3>2. s <= h[0].start /\ CanBegin(stop, h[0].start)
      BY <1>2, <2>1, <3>1
    <3> QED BY <2>1, <3>1, <3>2 DEF Appointed
  <2> QED BY <2>1, <2>2 DEF NoLater
<1>6. \A k \in Nat : k \in T => k + 1 \in T
  <2> SUFFICES ASSUME NEW k \in Nat, k \in T, k + 1 <= n
               PROVE  NoLater(g[k + 1], h[k + 1]) /\ Holds(g[k + 1], stop) /\ Holds(h[k + 1], narrow)
    OBVIOUS
  <2>1. k + 1 \in 1 .. n /\ (k + 1) - 1 = k /\ k <= n
    BY <1>1
  <2> DEFINE a == g[k]
             b == h[k]
  <2>2. NoLater(a, b) /\ Holds(a, stop) /\ Holds(b, narrow)
    BY <2>1
  <2>3. a.start \in Int /\ b.start \in Int /\ (b.feasible => a.start <= b.start)
    BY <2>2 DEF Holds, AppointmentSet, NoLater
  <2> DEFINE x == ServiceReady(a.start, stop.service, breaks)
             y == ServiceReady(b.start, stop.service, breaks)
  <2>4. g[k + 1] = AppointAgain(TRUE, a, x, stop) /\ h[k + 1] = AppointAgain(TRUE, b, y, narrow)
    BY <1>4, <2>1
  <2>5. x \in Int /\ a.start <= x /\ y \in Int /\ b.start <= y
    <3> HIDE DEF a, b
    <3>1. a.start <= a.start /\ b.start <= b.start
      BY <2>3
    <3> QED BY <1>2, <2>3, <3>1, SoonerReady
  <2>6. b.feasible => x <= y
    <3> HIDE DEF a, b
    <3> QED BY <1>2, <2>3, SoonerReady
  <2> HIDE DEF a, b, x, y
  <2> QED BY <2>2, <2>4, <2>5, <2>6, SoonerAgain
<1>7. n \in T
  <2> HIDE DEF T
  <2>1. Nat \subseteq T
    BY <1>5, <1>6, NatSet
  <2> QED BY <1>1, <2>1
<1>8. NoLater(g[n], h[n])
  BY <1>1, <1>7
<1> QED BY <1>4, <1>8

(* A problem with wider windows and a shift that ends later.                *)
IsLooser(q, p) ==
  /\ IsProblem(q) /\ IsProblem(p) /\ AreBreaks(p.breaks) /\ Len(q.stops) = Len(p.stops)
  /\ \A i \in 1 .. Len(p.stops) : IsWider(q.stops[i], p.stops[i])
  /\ q.min = p.min /\ q.back = p.back /\ q.breaks = p.breaks /\ q.leave = p.leave
  /\ p.shift = <<>> => q.shift = <<>>
  /\ p.shift # <<>> => q.shift[1] = p.shift[1] /\ p.shift[2] <= q.shift[2]

(* Of two runs over the same stops the first misses no window unless the    *)
(* second does, and is no later.                                            *)
InTime(a, b) ==
  /\ a.place = b.place /\ 0 <= b.broken
  /\ b.broken = 0 => a.broken = 0 /\ a.at <= b.at

(* What a visit makes of a run.                                             *)
IsVisit(v, p, run, stop, ev) ==
  /\ v.place = stop /\ v.at = ev.start + p.stops[stop].service
  /\ ev.feasible => v.broken = run.broken + 0
  /\ ~ev.feasible => v.broken = run.broken + 1

Serviced(p, run, stop) ==
  Service(TravelEnd(run.at, p.min[<<run.place, stop>>], p.breaks), p.stops[stop], p.breaks, TRUE)

(* A visit ends where and when its service does, and counts a broken        *)
(* appointment once.                                                        *)
LEMMA VisitIs ==
  ASSUME NEW p, NEW run, NEW stop
  PROVE  IsVisit(Visit(p, TRUE, run, stop), p, run, stop, Serviced(p, run, stop))
<1> DEFINE arrival == TravelEnd(run.at, p.min[<<run.place, stop>>], p.breaks)
           ev == Service(arrival, p.stops[stop], p.breaks, TRUE)
           v == Unloaded(p, run, stop, arrival, ev)
<1>1. Visit(p, TRUE, run, stop) = v /\ Serviced(p, run, stop) = ev
  BY DEF Visit, Reached, Serviced
<1> HIDE DEF arrival, ev
<1>2. v.place = stop /\ v.at = ev.start + p.stops[stop].service
  BY DEF Unloaded
<1>3. v.broken = run.broken + (IF ev.feasible THEN 0 ELSE 1)
  BY DEF Unloaded
<1> HIDE DEF v
<1>4. IsVisit(v, p, run, stop, ev)
  BY <1>2, <1>3, Zenon DEF IsVisit
<1> QED BY <1>1, <1>4

(* A visit on looser terms.                                                 *)
LEMMA VisitInTime ==
  ASSUME NEW q, NEW p, IsLooser(q, p), NEW n, n = Len(p.stops), NEW a \in RunSet(n), NEW b \in RunSet(n), InTime(a, b), NEW stop \in 1 .. n
  PROVE  InTime(Visit(q, TRUE, a, stop), Visit(p, TRUE, b, stop))
<1>1. /\ IsProblem(q) /\ IsProblem(p) /\ AreBreaks(p.breaks) /\ Len(q.stops) = n /\ q.min = p.min /\ q.breaks = p.breaks
      /\ IsWider(q.stops[stop], p.stops[stop])
  BY DEF IsLooser
<1>2. a.at \in Int /\ b.at \in Int /\ a.broken \in Int /\ b.broken \in Int /\ a.place = b.place /\ b.place \in 0 .. n
  BY DEF RunSet, InTime
<1> DEFINE road == p.min[<<b.place, stop>>]
           from == TravelEnd(a.at, road, p.breaks)
           to == TravelEnd(b.at, road, p.breaks)
           x == Service(from, q.stops[stop], p.breaks, TRUE)
           y == Service(to, p.stops[stop], p.breaks, TRUE)
           c == Visit(q, TRUE, a, stop)
           d == Visit(p, TRUE, b, stop)
<1>3. road \in Nat /\ p.breaks \in Seq(WindowSet)
  BY <1>1, <1>2, ProblemIs
<1>4. from \in Int /\ to \in Int
  <2> HIDE DEF road
  <2> QED BY <1>2, <1>3, TravelTyped
<1>5. a.at <= b.at => from <= to
  <2> HIDE DEF road
  <2> QED BY <1>1, <1>2, <1>3, SoonerArrives
<1>6. IsStop(q.stops[stop]) /\ IsStop(p.stops[stop]) /\ q.stops[stop].service = p.stops[stop].service
      /\ p.stops[stop].service \in Nat
  BY <1>1 DEF IsWider, IsStop
<1>7. x \in AppointmentSet /\ y \in AppointmentSet
  <2> HIDE DEF from, to
  <2> QED BY <1>3, <1>4, <1>6, ServiceTyped
<1>8. from <= to => NoLater(x, y)
  <2> HIDE DEF from, to
  <2> QED BY <1>1, <1>4, SoonerServed
<1>9. IsVisit(c, q, a, stop, x)
  <2>1. Serviced(q, a, stop) = x
    BY <1>1, <1>2 DEF Serviced
  <2>2. IsVisit(Visit(q, TRUE, a, stop), q, a, stop, Serviced(q, a, stop))
    BY VisitIs
  <2> QED BY <2>1, <2>2
<1>10. IsVisit(d, p, b, stop, y)
  <2>1. Serviced(p, b, stop) = y
    BY DEF Serviced
  <2>2. IsVisit(Visit(p, TRUE, b, stop), p, b, stop, Serviced(p, b, stop))
    BY VisitIs
  <2> QED BY <2>1, <2>2
<1>11. x.start \in Int /\ y.start \in Int /\ x.feasible \in BOOLEAN /\ y.feasible \in BOOLEAN
  BY <1>7 DEF AppointmentSet
<1> HIDE DEF c, d, x, y, from, to, road
<1>12. 0 <= d.broken /\ (d.broken = 0 => b.broken = 0 /\ y.feasible)
  BY <1>2, <1>10, <1>11 DEF InTime, IsVisit
<1>13. ASSUME d.broken = 0 PROVE c.broken = 0 /\ c.at <= d.at
  <2>1. a.broken = 0 /\ NoLater(x, y) /\ y.feasible
    BY <1>5, <1>8, <1>12, <1>13 DEF InTime
  <2>2. x.feasible /\ x.start <= y.start
    BY <2>1 DEF NoLater
  <2> QED BY <1>6, <1>9, <1>10, <1>11, <2>1, <2>2 DEF IsVisit
<1>14. InTime(c, d)
  BY <1>9, <1>10, <1>12, <1>13 DEF InTime, IsVisit
<1> QED BY <1>14 DEF c, d

(* The whole run on looser terms.                                           *)
LEMMA RunInTime ==
  ASSUME NEW q, NEW p, IsLooser(q, p), NEW order \in Seq(1 .. Len(p.stops))
  PROVE  InTime(Visited(q, order, TRUE), Visited(p, order, TRUE))
<1> DEFINE n == Len(p.stops)
           len == Len(order)
<1>1. /\ IsProblem(q) /\ IsProblem(p) /\ Len(q.stops) = n /\ q.leave = p.leave /\ p.leave \in Int
      /\ len \in Nat /\ \A k \in 1 .. len : order[k] \in 1 .. n
  BY ProblemIs DEF IsLooser
<1>2. (\E g : RunOf(g, q, order, TRUE)) /\ \E h : RunOf(h, p, order, TRUE)
  BY <1>1, RunOfOrder
<1> PICK g : RunOf(g, q, order, TRUE)
  BY <1>2
<1> PICK h : RunOf(h, p, order, TRUE)
  BY <1>2
<1>3. /\ g[0] = AtDepot(q) /\ h[0] = AtDepot(p) /\ Visited(q, order, TRUE) = g[len] /\ Visited(p, order, TRUE) = h[len]
      /\ \A k \in 0 .. len : g[k] \in RunSet(n) /\ h[k] \in RunSet(n)
      /\ \A k \in 1 .. len : g[k] = Visit(q, TRUE, g[k - 1], order[k]) /\ h[k] = Visit(p, TRUE, h[k - 1], order[k])
  BY <1>1 DEF RunOf
<1> DEFINE T == {k \in Nat : k <= len => InTime(g[k], h[k])}
<1>4. 0 \in T
  BY <1>1, <1>3 DEF InTime, AtDepot
<1>5. \A k \in Nat : k \in T => k + 1 \in T
  <2> SUFFICES ASSUME NEW k \in Nat, k \in T, k + 1 <= len PROVE InTime(g[k + 1], h[k + 1])
    OBVIOUS
  <2>1. k \in 0 .. len /\ k + 1 \in 1 .. len /\ (k + 1) - 1 = k
    BY <1>1
  <2>2. g[k] \in RunSet(n) /\ h[k] \in RunSet(n) /\ InTime(g[k], h[k]) /\ order[k + 1] \in 1 .. n
    BY <1>1, <1>3, <2>1
  <2>3. g[k + 1] = Visit(q, TRUE, g[k], order[k + 1]) /\ h[k + 1] = Visit(p, TRUE, h[k], order[k + 1])
    BY <1>3, <2>1
  <2> HIDE DEF n
  <2> QED BY <2>2, <2>3, VisitInTime DEF n
<1>6. len \in T
  <2> HIDE DEF T
  <2>1. Nat \subseteq T
    BY <1>4, <1>5, NatSet
  <2> QED BY <1>1, <2>1
<1>7. InTime(g[len], h[len])
  BY <1>1, <1>6
<1> HIDE DEF T, n
<1> QED BY <1>3, <1>7

(* What a report says of the run that it is about.                          *)
ReportIs(r, p, home) ==
  /\ r.minutes = home.at - p.leave
  /\ OutsideShift(p, p.leave, home.at) => r.violations = home.broken + 1
  /\ ~OutsideShift(p, p.leave, home.at) => r.violations = home.broken + 0

(* The report of an order counts its minutes from the departure to the return*)
(* and a violation more for a day that leaves the shift.                    *)
LEMMA EvaluationIs ==
  ASSUME NEW p, NEW order, NEW home, home = Back(p, order, Visited(p, order, TRUE))
  PROVE  ReportIs(EvaluateFixedSequence(p, order, TRUE), p, home)
<1>1. EvaluateFixedSequence(p, order, TRUE) = Returned(p, order, home)
  BY DEF EvaluateFixedSequence, Visited
<1>2. Returned(p, order, home).minutes = home.at - p.leave
  BY DEF Returned, Judged, Report
<1>3. EvaluateFixedSequence(p, order, TRUE).violations = home.broken + (IF OutsideShift(p, p.leave, home.at) THEN 1 ELSE 0)
  BY ViolationsAre
<1>4. OutsideShift(p, p.leave, home.at) \in BOOLEAN
  BY DEF OutsideShift
<1> QED BY <1>1, <1>2, <1>3, <1>4 DEF ReportIs

(* What can be worked can be worked on looser terms, in no more time.       *)
LEMMA LooserWorks ==
  ASSUME NEW q, NEW p, IsLooser(q, p), NEW order \in Seq(1 .. Len(p.stops)),
         EvaluateFixedSequence(p, order, TRUE).violations <= 0
  PROVE  /\ EvaluateFixedSequence(q, order, TRUE).violations <= 0
         /\ EvaluateFixedSequence(q, order, TRUE).minutes <= EvaluateFixedSequence(p, order, TRUE).minutes
<1> DEFINE n == Len(p.stops)
           a == Visited(q, order, TRUE)
           b == Visited(p, order, TRUE)
           c == Back(q, order, a)
           d == Back(p, order, b)
<1>1. /\ IsProblem(q) /\ IsProblem(p) /\ Len(q.stops) = n /\ q.leave = p.leave /\ p.leave \in Int /\ AreBreaks(p.breaks)
      /\ q.min = p.min /\ q.back = p.back /\ q.breaks = p.breaks
  BY ProblemIs DEF IsLooser
<1>2. a \in RunSet(n) /\ b \in RunSet(n)
  <2>1. (\E g : RunOf(g, q, order, TRUE)) /\ \E h : RunOf(h, p, order, TRUE)
    BY <1>1, RunOfOrder
  <2>2. Len(order) \in 0 .. Len(order)
    OBVIOUS
  <2> QED BY <1>1, <2>1, <2>2 DEF RunOf
<1>3. InTime(a, b)
  BY RunInTime
<1> HIDE DEF a, b
<1>4. /\ a.at \in Int /\ b.at \in Int /\ a.place = b.place /\ b.place \in 0 .. n /\ 0 \in 0 .. n
      /\ DOMAIN a = DOMAIN b /\ DOMAIN b = {"at", "place", "km", "wait", "opening", "late", "broken", "warned"}
      /\ a.broken \in Int /\ b.broken \in Int
  BY <1>1, <1>2, <1>3, ProblemIs DEF RunSet, InTime
<1> DEFINE road == p.min[<<b.place, 0>>]
<1>5. road \in Nat /\ p.breaks \in Seq(WindowSet)
  BY <1>1, <1>4, ProblemIs
<1>6. c.broken = a.broken /\ d.broken = b.broken
  BY <1>4 DEF Back
<1>7. IF p.back /\ order # <<>> THEN c.at = TravelEnd(a.at, road, p.breaks) /\ d.at = TravelEnd(b.at, road, p.breaks)
      ELSE c.at = a.at /\ d.at = b.at
  BY <1>1, <1>4 DEF Back
<1>8. a.at <= b.at => TravelEnd(a.at, road, p.breaks) <= TravelEnd(b.at, road, p.breaks)
  <2> HIDE DEF road
  <2> QED BY <1>1, <1>4, <1>5, SoonerArrives
<1>9. c \in RunSet(n) /\ d \in RunSet(n)
  BY <1>1, <1>2, BackRouteTyped
<1>10. c.at \in Int /\ d.at \in Int
  BY <1>9 DEF RunSet
<1>11. ReportIs(EvaluateFixedSequence(q, order, TRUE), q, c) /\ ReportIs(EvaluateFixedSequence(p, order, TRUE), p, d)
  BY EvaluationIs DEF a, b
<1> DEFINE s == EvaluateFixedSequence(q, order, TRUE)
           r == EvaluateFixedSequence(p, order, TRUE)
<1>12. r.violations <= 0 /\ ReportIs(s, q, c) /\ ReportIs(r, p, d)
  BY <1>11
<1> HIDE DEF c, d, road, r, s
<1>13. d.broken = 0 /\ ~OutsideShift(p, p.leave, d.at)
  BY <1>3, <1>4, <1>6, <1>12 DEF InTime, ReportIs
<1>14. c.broken = 0 /\ c.at <= d.at
  BY <1>3, <1>4, <1>6, <1>7, <1>8, <1>13 DEF InTime
<1>15. ~OutsideShift(q, q.leave, c.at)
  <2>1. CASE p.shift = <<>>
    BY <2>1 DEF IsLooser, OutsideShift
  <2>2. CASE p.shift # <<>> /\ q.shift = <<>>
    BY <2>2 DEF OutsideShift
  <2>3. CASE p.shift # <<>> /\ q.shift # <<>>
    <3>1. /\ p.shift[1] \in Int /\ p.shift[2] \in Int /\ q.shift[2] \in Int
          /\ q.shift[1] = p.shift[1] /\ p.shift[2] <= q.shift[2]
      BY <1>1, <2>3 DEF IsProblem, IsLooser
    <3>2. ~(p.leave < p.shift[1]) /\ ~(d.at > p.shift[2])
      BY <1>13, <2>3 DEF OutsideShift
    <3> QED BY <1>1, <1>10, <1>14, <3>1, <3>2 DEF OutsideShift
  <2> QED BY <2>1, <2>2, <2>3
<1>16. s.violations <= 0 /\ s.minutes <= r.minutes
  BY <1>1, <1>10, <1>12, <1>14, <1>15 DEF ReportIs
<1> QED BY <1>16 DEF r, s

=============================================================================
