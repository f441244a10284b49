---------------------------- MODULE FleetProofs ----------------------------
(***************************************************************************)
(* Theorems about the search of a plan and the calculation of a preview:   *)
(* for every set of fleets, assignments, islands and roads with traffic,   *)
(* what a division makes of a fleet stays a plan of its vehicles, every    *)
(* stop is answered for, and a division that is made again serves no fewer *)
(* deliveries and none of them later; and for every fleet and objective    *)
(* the search keeps what it promises, up to the best plan there is when it *)
(* is exhaustive.                                                          *)
(***************************************************************************)
EXTENDS FleetProposal, FleetSearch, ClockProofs

-----------------------------------------------------------------------------
(* Sums.                                                                    *)

Taken(s) == CHOOSE x \in s : TRUE

(* What the sum over each part of a finite set is.                          *)
SumsUp(g, D, f) ==
  /\ g \in [SUBSET D -> Int] /\ g[{}] = 0
  /\ \A s \in (SUBSET D) \ {{}} : g[s] = f[Taken(s)] + g[s \ {Taken(s)}]

(* The sum of a function over a finite set is the sum over one part of it   *)
(* after the other.                                                         *)
LEMMA TotalRun ==
  ASSUME NEW D, IsFiniteSet(D), NEW f \in [D -> Int]
  PROVE  \E g : SumsUp(g, D, f) /\ Total(f) = g[D]
<1> DEFINE S == SUBSET D
           m == [s \in S |-> Cardinality(s)]
           Phi == [gs \in [S -> Int] \X S |->
                     IF gs[2] = {} THEN 0 ELSE f[Taken(gs[2])] + gs[1][gs[2] \ {Taken(gs[2])}]]
           E(g) == g = [s \in SUBSET D |-> IF s = {} THEN 0 ELSE f[Taken(s)] + g[s \ {Taken(s)}]]
           iter == CHOOSE g : E(g)
<1>1. m \in [S -> Nat] /\ Cardinality(D) \in Nat /\ \A s \in S : m[s] <= Cardinality(D)
  <2>1. ASSUME NEW s \in S PROVE Cardinality(s) \in Nat /\ Cardinality(s) <= Cardinality(D)
    BY FS_Subset, FS_CardinalityType
  <2> QED BY <2>1, FS_CardinalityType
<1>2. ASSUME NEW s \in S, s # {} PROVE Taken(s) \in s /\ s \ {Taken(s)} \in S /\ m[s \ {Taken(s)}] < m[s]
  <2>1. Taken(s) \in s /\ IsFiniteSet(s)
    BY <1>2, FS_Subset DEF Taken
  <2>2. Cardinality(s \ {Taken(s)}) = Cardinality(s) - 1
    BY <2>1, FS_RemoveElement
  <2>3. s \ {Taken(s)} \in S /\ Cardinality(s) \in Nat
    BY <2>1, FS_CardinalityType
  <2> QED BY <2>1, <2>2, <2>3
<1>3. Phi \in [[S -> Int] \X S -> Int]
  <2> SUFFICES ASSUME NEW gs \in [S -> Int] \X S
               PROVE  (IF gs[2] = {} THEN 0 ELSE f[Taken(gs[2])] + gs[1][gs[2] \ {Taken(gs[2])}]) \in Int
    OBVIOUS
  <2>1. gs[1] \in [S -> Int] /\ gs[2] \in S
    OBVIOUS
  <2>2. gs[2] # {} => gs[1][gs[2] \ {Taken(gs[2])}] \in Int /\ f[Taken(gs[2])] \in Int
    BY <1>2, <2>1
  <2> QED BY <2>2
<1>4. ASSUME NEW g \in [S -> Int], NEW h \in [S -> Int], NEW s \in S, \A u \in S : m[u] < m[s] => g[u] = h[u]
      PROVE  Phi[<<g, s>>] = Phi[<<h, s>>]
  <2>1. s # {} => g[s \ {Taken(s)}] = h[s \ {Taken(s)}]
    BY <1>2, <1>4
  <2> QED BY <2>1
<1>5. Solvable(S, Int, Phi)
  <2> HIDE DEF S, m, Phi
  <2>1. Descends(S, Int, 0, m, Cardinality(D), Phi)
    <3>1. 0 \in Int /\ m \in [S -> Nat] /\ Cardinality(D) \in Nat /\ \A x \in S : m[x] <= Cardinality(D)
      BY <1>1
    <3>2. Phi \in [[S -> Int] \X S -> Int]
      BY <1>3
    <3>3. \A g, h \in [S -> Int], x \in S :
            (\A y \in S : m[y] < m[x] => g[y] = h[y]) => Phi[<<g, x>>] = Phi[<<h, x>>]
      BY <1>4
    <3> QED BY <3>1, <3>2, <3>3, Zenon DEF Descends
  <2> QED BY <2>1, MeasuredRecursion
<1>6. PICK h \in [S -> Int] : \A s \in S : h[s] = Phi[<<h, s>>]
  BY <1>5 DEF Solvable
<1>7. \A s \in S : h[s] = IF s = {} THEN 0 ELSE f[Taken(s)] + h[s \ {Taken(s)}]
  BY <1>6
<1>8. E(h)
  BY <1>7
<1>9. E(iter)
  BY <1>8
<1>10. Total(f) = iter[D]
  <2>1. DOMAIN f = D
    OBVIOUS
  <2> QED BY <2>1 DEF Total, FoldFunction, FoldFunctionOnSet, MapThenFoldSet, Taken
<1>11. iter \in [S -> Int]
  <2> DEFINE T == {s \in S : iter[s] \in Int}
  <2> HIDE DEF iter
  <2>1. ASSUME NEW s \in SUBSET D, \A u \in SUBSET s : u # s => u \in T PROVE s \in T
    <3>1. CASE s = {}
      BY <1>9, <3>1
    <3>2. CASE s # {}
      <4>1. iter[s] = f[Taken(s)] + iter[s \ {Taken(s)}] /\ Taken(s) \in s
        BY <1>2, <1>9, <3>2
      <4>2. s \ {Taken(s)} \in SUBSET s /\ s \ {Taken(s)} # s
        BY <4>1
      <4>3. s \ {Taken(s)} \in T
        BY <2>1, <4>2
      <4>4. f[Taken(s)] \in Int /\ iter[s \ {Taken(s)}] \in Int
        BY <4>1, <4>3
      <4> QED BY <4>1, <4>4
    <3> QED BY <3>1, <3>2
  <2>2. \A s \in SUBSET D : s \in T
    <3> HIDE DEF T
    <3> QED BY <2>1, FiniteInduction
  <2>3. \A s \in S : iter[s] \in Int
    BY <2>2
  <2>4. iter = [s \in S |-> iter[s]]
    BY <1>9
  <2> QED BY <2>3, <2>4
<1>12. SumsUp(iter, D, f)
  <2> HIDE DEF iter
  <2> QED BY <1>9, <1>11 DEF SumsUp
<1> HIDE DEF iter
<1> QED BY <1>10, <1>12

(* A sum of integers is an integer.                                         *)
LEMMA TotalTyped ==
  ASSUME NEW D, IsFiniteSet(D), NEW f \in [D -> Int]
  PROVE  Total(f) \in Int
<1>1. PICK g : SumsUp(g, D, f) /\ Total(f) = g[D]
  BY TotalRun
<1> QED BY <1>1 DEF SumsUp

-----------------------------------------------------------------------------
(* Orders and scores.                                                       *)

(* The orders of some of n stops are finitely many sequences that name each *)
(* of those stops and no other.                                             *)
LEMMA OrdersOfSome ==
  ASSUME NEW n \in Nat, NEW s \in SUBSET (1 .. n)
  PROVE  /\ IsFiniteSet(s) /\ Cardinality(s) \in Nat /\ IsFiniteSet(OrdersOf(s))
         /\ \A o \in OrdersOf(s) : o \in Seq(1 .. n) /\ Len(o) = Cardinality(s) /\ Range(o) = s
<1>1. IsFiniteSet(s) /\ Cardinality(s) \in Nat
  <2>1. IsFiniteSet(1 .. n)
    BY FS_Interval
  <2>2. IsFiniteSet(s)
    BY <2>1, FS_Subset
  <2> QED BY <2>2, FS_CardinalityType
<1>2. OrdersOf(s) = {o \in [1 .. Cardinality(s) -> s] : Range(o) = s}
  BY DEF OrdersOf
<1>3. IsFiniteSet(1 .. Cardinality(s))
  BY <1>1, FS_Interval
<1>4. IsFiniteSet([1 .. Cardinality(s) -> s])
  BY <1>1, <1>3, FunctionsAreFinite
<1>5. OrdersOf(s) \in SUBSET [1 .. Cardinality(s) -> s]
  BY <1>2
<1>6. IsFiniteSet(OrdersOf(s))
  BY <1>4, <1>5, FS_Subset
<1>7. \A o \in [1 .. Cardinality(s) -> s] : o \in Seq(1 .. n) /\ Len(o) = Cardinality(s)
  <2> DEFINE c == Cardinality(s)
  <2>1. c \in Nat
    BY <1>1
  <2> HIDE DEF c
  <2>2. ASSUME NEW o \in [1 .. c -> s] PROVE o \in Seq(1 .. n) /\ Len(o) = c
    <3>1. o \in [1 .. c -> 1 .. n]
      OBVIOUS
    <3>2. o \in Seq(1 .. n)
      BY <2>1, <3>1, SeqDef
    <3>3. DOMAIN o = 1 .. c
      OBVIOUS
    <3> QED BY <2>1, <3>2, <3>3
  <2> QED BY <2>2 DEF c
<1> QED BY <1>1, <1>2, <1>6, <1>7

(* The orders of a fleet with n stops: some of the stops, once each.        *)
LEMMA OrdersWithinAre ==
  ASSUME NEW n \in Nat, NEW o
  PROVE  o \in OrdersWithin(1 .. n) =>
           /\ o \in Seq(1 .. n) /\ Len(o) \in Nat /\ Range(o) \in SUBSET (1 .. n)
           /\ o \in OrdersOf(Range(o)) /\ OrdersOf(Range(o)) \subseteq OrdersWithin(1 .. n)
<1> SUFFICES ASSUME o \in OrdersWithin(1 .. n)
             PROVE  /\ o \in Seq(1 .. n) /\ Len(o) \in Nat /\ Range(o) \in SUBSET (1 .. n)
                    /\ o \in OrdersOf(Range(o)) /\ OrdersOf(Range(o)) \subseteq OrdersWithin(1 .. n)
  OBVIOUS
<1>1. PICK s \in SUBSET (1 .. n) : o \in OrdersOf(s)
  BY DEF OrdersWithin
<1>2. o \in Seq(1 .. n) /\ Range(o) = s
  BY <1>1, OrdersOfSome
<1>3. OrdersOf(s) \subseteq OrdersWithin(1 .. n)
  <2> SUFFICES ASSUME NEW q \in OrdersOf(s) PROVE q \in OrdersWithin(1 .. n)
    OBVIOUS
  <2>1. OrdersOf(s) \in {OrdersOf(members) : members \in SUBSET (1 .. n)}
    OBVIOUS
  <2> QED BY <2>1, Zenon DEF OrdersWithin
<1>4. Len(o) \in Nat
  BY <1>2
<1> QED BY <1>1, <1>2, <1>3, <1>4

-----------------------------------------------------------------------------
(* The evaluations of one vehicle.                                          *)

(* The compiled evaluation of an order is a score, or none.                 *)
LEMMA CompiledTyped ==
  ASSUME NEW p, IsProblem(p), NEW order \in Seq(1 .. Len(p.stops))
  PROVE  FixedRouteEvaluator(p, order) \in ScoreSet \cup {NoScore}
<1> DEFINE n == Len(order)
           V == RunSet(Len(p.stops)) \cup {NoScore}
           Next(run, stop) == IF run = NoScore THEN NoScore ELSE UnlessBroken(Visit(p, TRUE, run, stop))
           Finish(run) == IF run = NoScore THEN NoScore ELSE ReturnedCompiled(p, order, Back(p, order, run))
           Step == [vk \in V \X (1 .. n) |-> Next(vk[1], order[vk[2]])]
           E(g) == g = [s \in SUBSET DOMAIN order |->
                          IF s = {} THEN AtDepot(p) ELSE Next(g[s \ {Max(s)}], order[Max(s)])]
           iter == CHOOSE g : E(g)
<1>1. n \in Nat /\ DOMAIN order = 1 .. n /\ \A k \in 1 .. n : order[k] \in 1 .. Len(p.stops)
  OBVIOUS
<1>2. \A v \in V, stop \in 1 .. Len(p.stops) : Next(v, stop) \in V
  <2> SUFFICES ASSUME NEW v \in V, NEW stop \in 1 .. Len(p.stops) PROVE Next(v, stop) \in V
    OBVIOUS
  <2>1. v # NoScore => Visit(p, TRUE, v, stop) \in RunSet(Len(p.stops))
    BY VisitTyped
  <2> QED BY <2>1 DEF UnlessBroken
<1>3. AtDepot(p) \in V
  BY AtDepotTyped
<1>4. Steps(n, V, AtDepot(p), Step)
  <2> HIDE DEF V, Next
  <2>1. \A vk \in V \X (1 .. n) : Next(vk[1], order[vk[2]]) \in V
    BY <1>1, <1>2
  <2> QED BY <1>1, <1>3, <2>1 DEF Steps
<1>5. FixedRouteEvaluator(p, order) =
        IF p.shift # <<>> /\ p.leave < p.shift[1] THEN NoScore ELSE Finish(iter[1 .. n])
  BY <1>1 DEF FixedRouteEvaluator, FoldLeft, MapThenFoldSet
<1>6. \E g : E(g)
  <2> HIDE DEF V, Next
  <2>1. PICK g : LeftFold(g, n, V, AtDepot(p), Step)
    <3> HIDE DEF Step, n
    <3> QED BY <1>4, FoldLeftExists
  <2>2. ASSUME NEW s \in (SUBSET (1 .. n)) \ {{}}
        PROVE  Max(s) \in 1 .. n /\ g[s \ {Max(s)}] \in V
    BY <1>1, <2>1, UpToIs DEF LeftFold
  <2>3. E(g)
    BY <1>1, <2>1, <2>2 DEF LeftFold
  <2> QED BY <2>3
<1>7. E(iter)
  <2> HIDE DEF V, Next
  <2> QED BY <1>6
<1>8. FoldsLeft(iter, n, V, AtDepot(p), Step)
  <2> HIDE DEF V, Next
  <2>1. \A s \in (SUBSET (1 .. n)) \ {{}} : Max(s) \in 1 .. n
    BY <1>1, UpToIs
  <2> HIDE DEF iter
  <2> QED BY <1>1, <1>7, <2>1 DEF FoldsLeft
<1>9. PICK h : RunsForward(h, n, V, AtDepot(p), Step) /\ iter[1 .. n] = h[n]
  <2> HIDE DEF iter, Step, n, V
  <2> QED BY <1>4, <1>8, FoldLeftRun
<1>10. iter[1 .. n] \in V
  <2> HIDE DEF iter, Step, n, V
  <2> QED BY <1>1, <1>9 DEF RunsForward
<1>11. \A run \in RunSet(Len(p.stops)) : ReturnedCompiled(p, order, run) \in ScoreSet \cup {NoScore}
  <2> SUFFICES ASSUME NEW run \in RunSet(Len(p.stops))
               PROVE  ReturnedCompiled(p, order, run) \in ScoreSet \cup {NoScore}
    OBVIOUS
  <2>1. run.at \in Int /\ run.km \in Int /\ run.opening \in Int /\ p.leave \in Int
    BY ProblemIs DEF RunSet
  <2> DEFINE slack == RealizableSlack(p, order, p.leave, run.at, run.opening)
             worked == run.at - p.leave - slack
  <2>2. slack \in Int
    BY <2>1, SlackTyped
  <2> HIDE DEF slack
  <2>3. worked \in Int /\ run.at - p.leave \in Int /\ RouteCost(run.km, worked) \in Int
    BY <2>1, <2>2 DEF RouteCost
  <2> HIDE DEF worked
  <2>4. [km |-> run.km, minutes |-> run.at - p.leave, cost |-> RouteCost(run.km, worked), work |-> worked] \in ScoreSet
    BY <2>1, <2>3 DEF ScoreSet
  <2> QED BY <2>4 DEF ReturnedCompiled, worked, slack
<1>12. Finish(iter[1 .. n]) \in ScoreSet \cup {NoScore}
  <2> HIDE DEF iter
  <2>1. iter[1 .. n] # NoScore => Back(p, order, iter[1 .. n]) \in RunSet(Len(p.stops))
    BY <1>10, BackRouteTyped
  <2> QED BY <1>11, <2>1
<1> HIDE DEF iter, Finish
<1> QED BY <1>5, <1>12

(* A departure from which the route takes less time and misses no window.   *)
IsKept(p, order, earliest, leave) ==
  \/ leave = p.leave
  \/ /\ EvaluateFixedSequence(At(p, leave), order, earliest).violations = 0
     /\ EvaluateFixedSequence(At(p, leave), order, earliest).minutes < EvaluateFixedSequence(p, order, earliest).minutes

(* A later departure is not an earlier one than the first: it is found in   *)
(* steps down to the first, and the route can be worked from it.            *)
LEMMA LaterTyped ==
  ASSUME NEW p, IsProblem(p), p.leave \in Nat, NEW order \in Seq(1 .. Len(p.stops)), NEW earliest \in BOOLEAN
  PROVE  /\ LaterDeparture(p, order, earliest) \in Nat /\ LaterDeparture(p, order, earliest) >= p.leave
         /\ IsKept(p, order, earliest, LaterDeparture(p, order, earliest))
<1> DEFINE base == EvaluateFixedSequence(p, order, earliest)
           Keeps(shift) == KeepsReturn(base, shift, EvaluateFixedSequence(At(p, p.leave + shift), order, earliest))
           Half(shift) == (shift \div (2 * Grid)) * Grid
           D == 0 .. base.slack
           E(g) == g = [shift \in 0 .. base.slack |->
                          IF shift < Grid THEN p.leave
                          ELSE IF Keeps(shift) THEN p.leave + shift ELSE g[Half(shift)]]
           try == CHOOSE g : E(g)
           V == {v \in Nat : v >= p.leave /\ IsKept(p, order, earliest, v)}
           m == [x \in D |-> x]
           Phi == [gx \in [D -> V] \X D |->
                     IF gx[2] < Grid THEN p.leave
                     ELSE IF Keeps(gx[2]) THEN p.leave + gx[2] ELSE gx[1][Half(gx[2])]]
<1>1. LaterDeparture(p, order, earliest) =
        IF base.violations > 0 THEN p.leave ELSE try[(base.slack \div Grid) * Grid]
  BY DEF LaterDeparture, Later
<1>2. base.slack \in Nat
  BY EvaluateTyped DEF ReportSet
<1>0. \A x : Keeps(x) => IsKept(p, order, earliest, p.leave + x)
  BY DEF KeepsReturn, IsKept
<1> HIDE DEF base, Keeps
<1>3. \A x \in D : x >= Grid => Half(x) \in D /\ Half(x) < x
  <2> SUFFICES ASSUME NEW x \in D, x >= Grid PROVE Half(x) \in D /\ Half(x) < x
    OBVIOUS
  <2>1. x \in Nat /\ Grid \in Nat /\ Grid > 0 /\ 2 * Grid \in Nat /\ 2 * Grid > 0
    BY <1>2, GridAssumption
  <2> DEFINE q == x \div (2 * Grid)
  <2>2. q \in Nat /\ (2 * Grid) * q <= x
    BY <2>1
  <2> HIDE DEF q
  <2>3. q * Grid \in Nat /\ 2 * (q * Grid) = (2 * Grid) * q
    BY <2>1, <2>2
  <2>4. q * Grid < x
    BY <2>1, <2>2, <2>3
  <2> QED BY <1>2, <2>1, <2>3, <2>4 DEF q
<1> HIDE DEF Half
<1>4. \A x \in D : Keeps(x) => p.leave + x \in V
  <2>1. \A x \in D : p.leave + x \in Nat /\ p.leave + x >= p.leave
    BY <1>2
  <2> HIDE DEF D
  <2> QED BY <1>0, <2>1
<1>5. p.leave \in V
  <2>1. IsKept(p, order, earliest, p.leave)
    BY DEF IsKept
  <2> QED BY <2>1
<1>6. Phi \in [[D -> V] \X D -> V]
  <2> SUFFICES ASSUME NEW gx \in [D -> V] \X D
               PROVE  (IF gx[2] < Grid THEN p.leave
                       ELSE IF Keeps(gx[2]) THEN p.leave + gx[2] ELSE gx[1][Half(gx[2])]) \in V
    OBVIOUS
  <2> HIDE DEF V
  <2>1. gx[2] \in D /\ gx[1] \in [D -> V] /\ gx[2] \in Int
    BY <1>2
  <2>2. gx[2] >= Grid => gx[1][Half(gx[2])] \in V
    BY <1>3, <2>1
  <2>3. gx[2] < Grid \/ gx[2] >= Grid
    BY <2>1, GridAssumption
  <2> QED BY <1>4, <1>5, <2>1, <2>2, <2>3
<1>7. \A g, h \in [D -> V], x \in D :
        (\A y \in D : m[y] < m[x] => g[y] = h[y]) => Phi[<<g, x>>] = Phi[<<h, x>>]
  <2> SUFFICES ASSUME NEW g \in [D -> V], NEW h \in [D -> V], NEW x \in D, \A y \in D : m[y] < m[x] => g[y] = h[y]
               PROVE  Phi[<<g, x>>] = Phi[<<h, x>>]
    BY Zenon
  <2> HIDE DEF V
  <2>1. x >= Grid => g[Half(x)] = h[Half(x)]
    BY <1>3
  <2>2. x < Grid \/ x >= Grid
    BY <1>2, GridAssumption
  <2> QED BY <2>1, <2>2
<1>8. Descends(D, V, p.leave, m, base.slack, Phi)
  <2>1. m \in [D -> Nat] /\ \A x \in D : m[x] <= base.slack
    BY <1>2
  <2> HIDE DEF V, m, Phi, D
  <2> QED BY <1>2, <1>5, <1>6, <1>7, <2>1, Zenon DEF Descends
<1>9. PICK h \in [D -> V] : \A x \in D : h[x] = Phi[<<h, x>>]
  <2>1. Solvable(D, V, Phi)
    <3> HIDE DEF D, V, m, Phi
    <3> QED BY <1>8, MeasuredRecursion
  <2> HIDE DEF D, V, m, Phi
  <2> QED BY <2>1 DEF Solvable
<1>10. E(h)
  <2> HIDE DEF V
  <2>1. \A x \in D : h[x] = IF x < Grid THEN p.leave ELSE IF Keeps(x) THEN p.leave + x ELSE h[Half(x)]
    BY <1>9
  <2> QED BY <2>1
<1>11. E(try)
  <2> HIDE DEF D, V, m, Phi
  <2> QED BY <1>10
<1>12. D \subseteq {x \in D : try[x] \in V}
  <2> DEFINE T == {x \in D : try[x] \in V}
  <2>1. m \in [D -> Nat] /\ \A x \in D : m[x] = x
    BY <1>2
  <2>2. ASSUME NEW x \in D, \A y \in D : m[y] < m[x] => y \in T PROVE x \in T
    <3> HIDE DEF try, m, V
    <3>1. try[x] = IF x < Grid THEN p.leave ELSE IF Keeps(x) THEN p.leave + x ELSE try[Half(x)]
      BY <1>11
    <3>2. x >= Grid => try[Half(x)] \in V
      BY <1>3, <2>1, <2>2
    <3>3. x < Grid \/ x >= Grid
      BY <1>2, GridAssumption
    <3>4. try[x] \in V
      BY <1>4, <1>5, <3>1, <3>2, <3>3
    <3> QED BY <3>4
  <2> HIDE DEF T, m, try, D
  <2>3. D \subseteq T
    BY <2>1, <2>2, MeasuredInduction
  <2> QED BY <2>3 DEF T
<1>13. (base.slack \div Grid) * Grid \in D
  <2>1. (base.slack \div Grid) * Grid \in Nat /\ (base.slack \div Grid) * Grid <= base.slack
    BY <1>2, DivisionIs, GridAssumption
  <2> QED BY <1>2, <2>1
<1>14. try[(base.slack \div Grid) * Grid] \in V
  <2> HIDE DEF try, V
  <2> QED BY <1>12, <1>13
<1> HIDE DEF try
<1> QED BY <1>1, <1>5, <1>14

-----------------------------------------------------------------------------
(* The fleets of a calculation.                                             *)

(* The parts of a fleet the proofs use.                                     *)
LEMMA FleetIs ==
  ASSUME NEW f, IsFleet(f)
  PROVE  /\ Len(f.stops) \in Nat /\ Len(f.trucks) \in Nat /\ f.leave \in Nat
         /\ Jobs(f) = 1 .. Len(f.stops) /\ DOMAIN f.stops = 1 .. Len(f.stops)
         /\ Trucks(f) = 1 .. Len(f.trucks) /\ DOMAIN f.trucks = 1 .. Len(f.trucks)
         /\ \A i \in Jobs(f) : IsCall(f.stops[i])
         /\ \A t \in Trucks(f) : IsTruck(f.trucks[t])
BY DEF IsFleet, Jobs, Trucks

(* A driver leaves at a time, never before the common departure.            *)
LEMMA ResourceStartTyped ==
  ASSUME NEW f, IsFleet(f), NEW t \in Trucks(f)
  PROVE  ResourceStart(f, t) \in Nat
<1> DEFINE shift == f.trucks[t].shift
<1>1. shift \in {<<>>} \cup (Nat \X Nat) /\ f.leave \in Nat
  BY FleetIs DEF IsTruck, IsSchedule
<1>2. shift # <<>> => shift[1] \in Nat
  BY <1>1
<1>3. shift # <<>> => Greater(f.leave, shift[1]) \in Nat
  BY <1>1, <1>2 DEF Greater
<1> HIDE DEF shift
<1> QED BY <1>1, <1>3 DEF ResourceStart, shift

(* The problem of a vehicle is a problem of the clock, with the stops of    *)
(* the fleet.                                                               *)
LEMMA ProblemTyped ==
  ASSUME NEW f, IsFleet(f), NEW t \in Trucks(f)
  PROVE  /\ IsProblem(Problem(f, t)) /\ Problem(f, t).stops = f.stops
         /\ Problem(f, t).leave = ResourceStart(f, t) /\ Problem(f, t).leave \in Nat
         /\ Problem(f, t).shift \in {<<>>} \cup (Nat \X Nat)
<1> DEFINE p == Problem(f, t)
<1>1. ResourceStart(f, t) \in Nat
  BY ResourceStartTyped
<1>2. f.trucks[t].shift \in {<<>>} \cup (Nat \X Nat) /\ f.trucks[t].breaks \in Seq(WindowSet)
  BY FleetIs DEF IsTruck, IsSchedule
<1>3. /\ DOMAIN p = Fields /\ p.stops = f.stops /\ p.km = f.km /\ p.min = f.min
      /\ p.leave = ResourceStart(f, t) /\ p.shift = f.trucks[t].shift /\ p.breaks = f.trucks[t].breaks
  BY DEF Problem, Fields
<1>4. /\ Len(f.stops) \in Nat /\ DOMAIN f.stops = 1 .. Len(f.stops)
      /\ f.km \in [Legs(Len(f.stops)) -> Nat] /\ f.min \in [Legs(Len(f.stops)) -> Nat]
      /\ \A i \in DOMAIN f.stops : IsStop(f.stops[i])
  BY DEF IsFleet, IsCall
<1> HIDE DEF p
<1>5. IsProblem(p)
  BY <1>1, <1>2, <1>3, <1>4 DEF IsProblem
<1> QED BY <1>1, <1>2, <1>3, <1>5 DEF p

(* The roads of a fleet may be slower: it stays a fleet, with the same      *)
(* deliveries and the same vehicles.                                        *)
LEMMA SlowerTyped ==
  ASSUME NEW f, IsFleet(f), NEW rate \in Nat
  PROVE  /\ IsFleet([f EXCEPT !.min = Slower(@, rate)])
         /\ [f EXCEPT !.min = Slower(@, rate)].stops = f.stops
         /\ [f EXCEPT !.min = Slower(@, rate)].trucks = f.trucks
         /\ [f EXCEPT !.min = Slower(@, rate)].leave = f.leave
<1> DEFINE roads == Slower(f.min, rate)
           g == [f EXCEPT !.min = roads]
<1>1. f.min \in [Legs(Len(f.stops)) -> Nat]
  BY DEF IsFleet
<1>2. roads \in [Legs(Len(f.stops)) -> Nat]
  <2>1. \A leg \in Legs(Len(f.stops)) : f.min[leg] * rate \in Nat
    <3> SUFFICES ASSUME NEW leg \in Legs(Len(f.stops)) PROVE f.min[leg] * rate \in Nat
      OBVIOUS
    <3>1. f.min[leg] \in Nat
      BY <1>1
    <3> QED BY <3>1
  <2> QED BY <1>1, <2>1 DEF Slower
<1>3. g = [f EXCEPT !.min = Slower(@, rate)]
  OBVIOUS
<1> HIDE DEF roads
<1>4. DOMAIN g = {"stops", "km", "min", "back", "leave", "trucks"} /\ g.stops = f.stops /\ g.km = f.km
      /\ g.min = roads /\ g.leave = f.leave /\ g.trucks = f.trucks
  BY DEF IsFleet
<1> HIDE DEF g
<1>5. IsFleet(g)
  BY <1>2, <1>4 DEF IsFleet
<1> QED BY <1>3, <1>4, <1>5

(* A customer whose windows close earlier is a customer.                    *)
LEMMA ClosedEarlierTyped ==
  ASSUME NEW s, IsCall(s), NEW minutes \in Nat
  PROVE  IsCall(ClosedEarlier(s, minutes))
<1> DEFINE Early(w) == [w EXCEPT !.close = Smaller(@, Greater(@ - minutes, w.open + s.service))]
           f == [w \in s.windows |-> Early(w)]
           windows == {Early(w) : w \in s.windows}
<1>1. DOMAIN s = {"windows", "service", "load", "needs"} /\ IsFiniteSet(s.needs)
      /\ s.windows \in SUBSET WindowSet /\ IsFiniteSet(s.windows) /\ s.service \in Nat
  BY DEF IsCall, IsStop
<1>2. \A w \in s.windows : Early(w) \in WindowSet
  <2> SUFFICES ASSUME NEW w \in s.windows PROVE Early(w) \in WindowSet
    OBVIOUS
  <2>1. w \in WindowSet /\ w.open \in Nat /\ w.close \in Nat
    BY <1>1 DEF WindowSet
  <2>2. Smaller(w.close, Greater(w.close - minutes, w.open + s.service)) \in Nat
    BY <1>1, <2>1 DEF Smaller, Greater
  <2> QED BY <2>1, <2>2 DEF WindowSet
<1>3. IsFiniteSet(windows)
  <2>1. windows = {f[w] : w \in s.windows}
    OBVIOUS
  <2> HIDE DEF f, windows
  <2> QED BY <1>1, <2>1, ImageIsFinite
<1>4. windows \in SUBSET WindowSet
  BY <1>2
<1>5. ClosedEarlier(s, minutes) = [s EXCEPT !.windows = windows]
  BY DEF ClosedEarlier
<1> HIDE DEF windows
<1> DEFINE q == [s EXCEPT !.windows = windows]
<1>6. q.windows = windows /\ q.service = s.service /\ q.needs = s.needs /\ DOMAIN q = DOMAIN s
  BY <1>1
<1> HIDE DEF q
<1>7. IsCall(q)
  BY <1>1, <1>3, <1>4, <1>6 DEF IsCall, IsStop
<1> QED BY <1>5, <1>7 DEF q

(* The greatest of a number and of others, in bounds they all have.         *)
LEMMA GreatestAmong ==
  ASSUME NEW a \in Int, NEW b \in Nat, NEW c \in Int, a <= c, b <= c, NEW s, IsFiniteSet(s), s \subseteq Nat,
         \A y \in s : y <= c
  PROVE  /\ Greatest({a, b} \cup s) \in Nat /\ b <= Greatest({a, b} \cup s) /\ Greatest({a, b} \cup s) <= c
         /\ \A y \in s : y <= Greatest({a, b} \cup s)
<1> DEFINE all == {a, b} \cup s
<1>1. IsFiniteSet({a}) /\ IsFiniteSet({b})
  BY FS_Singleton
<1>2. IsFiniteSet({a} \cup {b})
  BY <1>1, FS_Union
<1>3. IsFiniteSet(({a} \cup {b}) \cup s)
  BY <1>2, FS_Union
<1>4. all = ({a} \cup {b}) \cup s
  OBVIOUS
<1>5. IsFiniteSet(all)
  BY <1>3, <1>4
<1>6. all # {} /\ all \subseteq Int /\ b \in all /\ s \subseteq all /\ \A y \in all : y <= c
  OBVIOUS
<1> HIDE DEF all
<1>7. Greatest(all) \in all /\ b <= Greatest(all) /\ \A y \in all : y <= Greatest(all)
  BY <1>5, <1>6, GreatestIs
<1>8. Greatest(all) \in Int /\ Greatest(all) <= c
  BY <1>6, <1>7
<1>9. Greatest(all) \in Nat
  BY <1>7, <1>8
<1> QED BY <1>6, <1>7, <1>8, <1>9 DEF all

(* The shift that ends earlier.                                             *)
IsShortened(short, truck) ==
  /\ short.breaks = truck.breaks /\ short.booked = truck.booked /\ short.capacity = truck.capacity
  /\ truck.shift = <<>> => short.shift = <<>>
  /\ truck.shift # <<>> => /\ short.shift # <<>> /\ short.shift[1] = truck.shift[1]
                           /\ short.shift[2] <= truck.shift[2]

(* A driver whose shift ends earlier is a driver: the shift keeps its first *)
(* half and its breaks.                                                     *)
LEMMA ShortenedShiftTyped ==
  ASSUME NEW truck, IsTruck(truck), NEW minutes \in Nat
  PROVE  IsTruck(ShortenedShift(truck, minutes)) /\ IsShortened(ShortenedShift(truck, minutes), truck)
<1>1. truck.shift \in {<<>>} \cup (Nat \X Nat)
  BY DEF IsTruck, IsSchedule
<1>2. CASE truck.shift = <<>> \/ minutes = 0
  <2>1. truck.shift # <<>> => truck.shift[2] \in Nat
    BY <1>1
  <2>2. ShortenedShift(truck, minutes) = truck
    BY <1>2 DEF ShortenedShift
  <2> QED BY <2>1, <2>2 DEF IsShortened
<1>3. CASE ~(truck.shift = <<>> \/ minutes = 0)
  <2> DEFINE shift == truck.shift
             half == shift[1] + (shift[2] - shift[1]) \div 2
             n == Len(truck.breaks)
             ends == {p.close : p \in Range(truck.breaks)}
             all == {shift[2] - minutes, half} \cup ends
             q == [truck EXCEPT !.shift[2] = Greatest(all)]
  <2>1. /\ shift \in Nat \X Nat /\ shift[1] \in Nat /\ shift[2] \in Nat /\ shift[1] <= shift[2]
        /\ truck.breaks \in Seq(WindowSet) /\ DOMAIN truck = {"shift", "breaks", "gear", "capacity", "booked"}
        /\ n \in Nat /\ DOMAIN truck.breaks = 1 .. n /\ \A k \in 1 .. n : truck.breaks[k] \in WindowSet
    BY <1>1, <1>3 DEF IsTruck, IsSchedule
  <2>2. \A k \in 1 .. n : truck.breaks[k].close \in Nat /\ truck.breaks[k].close <= shift[2]
    BY <1>3, <2>1 DEF IsTruck, IsSchedule, WindowSet
  <2>3. half \in Nat /\ shift[1] <= half /\ half <= shift[2]
    <3> HIDE DEF shift
    <3> QED BY <2>1
  <2>4. IsFiniteSet(ends) /\ ends \subseteq Nat /\ (\A y \in ends : y <= shift[2])
        /\ \A k \in 1 .. n : truck.breaks[k].close \in ends
    <3> DEFINE closes == [k \in 1 .. n |-> truck.breaks[k].close]
    <3>1. ends = {closes[k] : k \in 1 .. n}
      BY <2>1 DEF Range
    <3>2. IsFiniteSet(1 .. n)
      BY <2>1, FS_Interval
    <3>3. IsFiniteSet(ends)
      <4> HIDE DEF closes, ends, n
      <4> QED BY <3>1, <3>2, ImageIsFinite
    <3>4. \A k \in 1 .. n : closes[k] \in Nat /\ closes[k] <= shift[2] /\ closes[k] = truck.breaks[k].close
      BY <2>2
    <3>5. \A k \in 1 .. n : closes[k] \in ends
      BY <3>1
    <3>6. ends \subseteq Nat
      <4> HIDE DEF closes, shift, n
      <4> QED BY <3>1, <3>4
    <3>7. \A y \in ends : y <= shift[2]
      <4> HIDE DEF closes, shift, n
      <4> QED BY <3>1, <3>4
    <3>8. \A k \in 1 .. n : truck.breaks[k].close \in ends
      <4> HIDE DEF closes, ends, n
      <4> QED BY <3>4, <3>5
    <3> HIDE DEF closes, ends, shift, n
    <3> QED BY <3>3, <3>6, <3>7, <3>8
  <2> DEFINE early == shift[2] - minutes
             last == shift[2]
  <2>5. /\ Greatest(all) \in Nat /\ half <= Greatest(all) /\ Greatest(all) <= last
        /\ \A y \in ends : y <= Greatest(all)
    <3>1. early \in Int /\ last \in Int /\ early <= last
      BY <2>1
    <3>2. all = {early, half} \cup ends
      OBVIOUS
    <3>3. half \in Nat /\ half <= last
      BY <2>3
    <3>4. IsFiniteSet(ends) /\ ends \subseteq Nat /\ (\A y \in ends : y <= last)
      BY <2>4
    <3> HIDE DEF half, shift, ends, early, last, all
    <3>5. /\ Greatest({early, half} \cup ends) \in Nat /\ half <= Greatest({early, half} \cup ends)
          /\ Greatest({early, half} \cup ends) <= last
          /\ \A y \in ends : y <= Greatest({early, half} \cup ends)
      BY <3>1, <3>3, <3>4, GreatestAmong
    <3> QED BY <3>2, <3>5
  <2>6. ShortenedShift(truck, minutes) = q
    BY <1>3 DEF ShortenedShift
  <2> DEFINE end == Greatest(all)
             short == [shift EXCEPT ![2] = end]
  <2>7. end \in Nat /\ shift[1] <= end /\ end <= shift[2] /\ \A k \in 1 .. n : truck.breaks[k].close <= end
    <3>1. end \in Nat /\ half <= end /\ end <= shift[2] /\ \A y \in ends : y <= end
      BY <2>5
    <3> HIDE DEF end, all, half, ends, shift, n, early, last
    <3>2. shift[1] <= end
      BY <2>1, <2>3, <3>1
    <3> QED BY <2>4, <3>1, <3>2
  <2> HIDE DEF all, end
  <2>8. DOMAIN q = DOMAIN truck /\ q.breaks = truck.breaks /\ q.booked = truck.booked /\ q.capacity = truck.capacity
        /\ q.shift = short
    BY <2>1 DEF end
  <2>9. short \in Nat \X Nat /\ short # <<>> /\ short[1] = shift[1] /\ short[2] = end
    BY <2>1, <2>7
  <2> HIDE DEF q, short
  <2>10. IsShortened(q, truck)
    BY <1>3, <2>7, <2>8, <2>9 DEF IsShortened
  <2>11. IsSchedule(q.shift, q.breaks)
    <3>1. \A k \in 1 .. n : short[1] <= truck.breaks[k].open
      BY <1>3, <2>1, <2>9 DEF IsTruck, IsSchedule
    <3>2. /\ \A i, j \in DOMAIN truck.breaks : i < j => truck.breaks[i].close <= truck.breaks[j].open
          /\ \A i \in DOMAIN truck.breaks : truck.breaks[i].open < truck.breaks[i].close
      BY DEF IsTruck, IsSchedule
    <3> HIDE DEF shift, n
    <3> QED BY <2>1, <2>7, <2>8, <2>9, <3>1, <3>2 DEF IsSchedule
  <2>12. IsTruck(q)
    BY <2>1, <2>8, <2>11 DEF IsTruck
  <2> QED BY <2>6, <2>10, <2>12
<1> QED BY <1>2, <1>3

(* What an attempt changes: natural numbers.                                *)
IsHow(how) == how.rate \in Nat /\ how.buffer \in Nat /\ how.shift \in Nat

(* A fleet that is tightened for the search is a fleet, with as many        *)
(* deliveries and vehicles.                                                 *)
LEMMA TightenedTyped ==
  ASSUME NEW f, IsFleet(f), NEW how, IsHow(how)
  PROVE  /\ IsFleet(Tightened(f, how))
         /\ Jobs(Tightened(f, how)) = Jobs(f) /\ Trucks(Tightened(f, how)) = Trucks(f)
<1> DEFINE n == Len(f.stops)
           v == Len(f.trucks)
           stops == [i \in 1 .. n |-> ClosedEarlier(f.stops[i], how.buffer)]
           trucks == [t \in 1 .. v |-> ShortenedShift(f.trucks[t], how.shift)]
           roads == Slower(f.min, how.rate)
           g == [f EXCEPT !.min = roads, !.stops = stops, !.trucks = trucks]
<1>1. /\ n \in Nat /\ v \in Nat /\ f.leave \in Nat /\ DOMAIN f.stops = 1 .. n /\ DOMAIN f.trucks = 1 .. v
      /\ \A i \in 1 .. n : IsCall(f.stops[i])
      /\ \A t \in 1 .. v : IsTruck(f.trucks[t])
  BY FleetIs
<1>2. DOMAIN f = {"stops", "km", "min", "back", "leave", "trucks"}
      /\ f.km \in [Legs(n) -> Nat]
  BY DEF IsFleet
<1>3. how.rate \in Nat /\ how.buffer \in Nat /\ how.shift \in Nat
  BY DEF IsHow
<1>4. \A i \in 1 .. n : IsCall(stops[i])
  BY <1>1, <1>3, ClosedEarlierTyped
<1>5. \A t \in 1 .. v : IsTruck(trucks[t])
  BY <1>1, <1>3, ShortenedShiftTyped
<1>6. roads \in [Legs(n) -> Nat]
  <2>1. IsFleet([f EXCEPT !.min = Slower(@, how.rate)]) /\ [f EXCEPT !.min = Slower(@, how.rate)].stops = f.stops
    BY <1>3, SlowerTyped
  <2>2. [f EXCEPT !.min = Slower(@, how.rate)].min = roads
    BY <1>2
  <2> HIDE DEF roads
  <2> QED BY <2>1, <2>2 DEF IsFleet
<1>7. Tightened(f, how) = g
  BY <1>1 DEF Tightened
<1>8. DOMAIN stops = 1 .. n /\ Len(stops) = n /\ DOMAIN trucks = 1 .. v /\ Len(trucks) = v
  <2> HIDE DEF n, v
  <2> QED BY <1>1
<1> HIDE DEF stops, trucks, roads
<1>9. DOMAIN g = DOMAIN f /\ g.stops = stops /\ g.trucks = trucks /\ g.min = roads /\ g.km = f.km /\ g.leave = f.leave
  BY <1>2
<1> HIDE DEF g, n, v
<1>10. IsFleet(g)
  BY <1>1, <1>2, <1>4, <1>5, <1>6, <1>8, <1>9 DEF IsFleet
<1>11. Jobs(g) = 1 .. n /\ Trucks(g) = 1 .. v
  BY <1>8, <1>9 DEF Jobs, Trucks
<1> QED BY <1>1, <1>7, <1>10, <1>11, FleetIs DEF n, v

(* One delivery after the other is kept or not.                             *)
LeftStep(S, order, removed) ==
  [vk \in Seq(S) \X (1 .. Len(order)) |->
     IF order[vk[2]] \in removed THEN vk[1] ELSE Append(vk[1], order[vk[2]])]

(* The deliveries left over by an answer are read in their order, one by one.*)
LEMMA LeftOverRun ==
  ASSUME NEW S, NEW order \in Seq(S), NEW removed
  PROVE  \E h : /\ RunsForward(h, Len(order), Seq(S), <<>>, LeftStep(S, order, removed))
                /\ LeftOver(order, removed) = h[Len(order)]
<1> DEFINE n == Len(order)
           V == Seq(S)
           Next(some, job) == IF job \in removed THEN some ELSE Append(some, job)
           Step == [vk \in V \X (1 .. n) |-> Next(vk[1], order[vk[2]])]
           E(g) == g = [s \in SUBSET DOMAIN order |->
                          IF s = {} THEN <<>> ELSE Next(g[s \ {Max(s)}], order[Max(s)])]
           iter == CHOOSE g : E(g)
<1>1. n \in Nat /\ DOMAIN order = 1 .. n /\ \A k \in 1 .. n : order[k] \in S
  OBVIOUS
<1>2. \A some \in V, job \in S : Next(some, job) \in V
  OBVIOUS
<1>3. <<>> \in V
  OBVIOUS
<1>4. LeftOver(order, removed) = iter[1 .. n]
  BY <1>1 DEF LeftOver, FoldLeft, MapThenFoldSet
<1>11. Step = LeftStep(S, order, removed)
  BY DEF LeftStep
<1> HIDE DEF V, Next
<1>5. Steps(n, V, <<>>, Step)
  <2>1. \A vk \in V \X (1 .. n) : Next(vk[1], order[vk[2]]) \in V
    BY <1>1, <1>2
  <2> QED BY <1>1, <1>3, <2>1 DEF Steps
<1>6. \E g : E(g)
  <2>1. PICK g : LeftFold(g, n, V, <<>>, Step)
    <3> HIDE DEF Step, n
    <3> QED BY <1>5, FoldLeftExists
  <2>2. ASSUME NEW s \in (SUBSET (1 .. n)) \ {{}}
        PROVE  Max(s) \in 1 .. n /\ g[s \ {Max(s)}] \in V
    BY <1>1, <2>1, UpToIs DEF LeftFold
  <2>3. E(g)
    BY <1>1, <2>1, <2>2 DEF LeftFold
  <2> QED BY <2>3
<1>7. E(iter)
  BY <1>6
<1>8. FoldsLeft(iter, n, V, <<>>, Step)
  <2>1. \A s \in (SUBSET (1 .. n)) \ {{}} : Max(s) \in 1 .. n
    BY <1>1, UpToIs
  <2> HIDE DEF iter
  <2> QED BY <1>1, <1>7, <2>1 DEF FoldsLeft
<1>9. PICK h : RunsForward(h, n, V, <<>>, Step) /\ iter[1 .. n] = h[n]
  <2> HIDE DEF iter, Step, n
  <2> QED BY <1>5, <1>8, FoldLeftRun
<1> HIDE DEF iter, Step
<1> QED BY <1>4, <1>9, <1>11 DEF V

(* What is left of an order is an order of the same deliveries.             *)
LEMMA LeftOverTyped ==
  ASSUME NEW S, NEW order \in Seq(S), NEW removed
  PROVE  LeftOver(order, removed) \in Seq(S)
<1> DEFINE n == Len(order)
<1>1. PICK h : RunsForward(h, n, Seq(S), <<>>, LeftStep(S, order, removed)) /\ LeftOver(order, removed) = h[n]
  BY LeftOverRun
<1>2. n \in Nat
  OBVIOUS
<1> HIDE DEF n
<1>3. h \in [0 .. n -> Seq(S)]
  BY <1>1 DEF RunsForward
<1> QED BY <1>1, <1>2, <1>3

(* A part of a fleet, without some of its deliveries, is a fleet with the   *)
(* same vehicles.                                                           *)
LEMMA SubsetTyped ==
  ASSUME NEW f, IsFleet(f), NEW jobs \in Seq(Jobs(f))
  PROVE  /\ IsFleet(Subset(f, jobs))
         /\ Len(Subset(f, jobs).stops) = Len(jobs) /\ Subset(f, jobs).trucks = f.trucks
<1> DEFINE n == Len(jobs)
           Old(i) == IF i = 0 THEN 0 ELSE jobs[i]
           Part(roads) == [ij \in (0 .. n) \X (0 .. n) |-> roads[<<Old(ij[1]), Old(ij[2])>>]]
           stops == [i \in 1 .. n |-> f.stops[jobs[i]]]
           g == [f EXCEPT !.stops = stops, !.km = Part(f.km), !.min = Part(f.min)]
<1>1. /\ Len(f.stops) \in Nat /\ Jobs(f) = 1 .. Len(f.stops)
      /\ \A i \in Jobs(f) : IsCall(f.stops[i])
  BY FleetIs
<1>2. n \in Nat /\ \A i \in 1 .. n : jobs[i] \in Jobs(f)
  OBVIOUS
<1>3. DOMAIN f = {"stops", "km", "min", "back", "leave", "trucks"} /\ f.leave \in Nat
      /\ f.km \in [Legs(Len(f.stops)) -> Nat] /\ f.min \in [Legs(Len(f.stops)) -> Nat]
      /\ Len(f.trucks) \in Nat /\ DOMAIN f.trucks = 1 .. Len(f.trucks)
      /\ \A t \in DOMAIN f.trucks : IsTruck(f.trucks[t])
  BY DEF IsFleet
<1>4. \A roads \in [Legs(Len(f.stops)) -> Nat] : Part(roads) \in [Legs(n) -> Nat]
  <2> SUFFICES ASSUME NEW roads \in [Legs(Len(f.stops)) -> Nat], NEW i \in 0 .. n, NEW j \in 0 .. n
               PROVE  roads[<<Old(i), Old(j)>>] \in Nat
    BY DEF Legs
  <2>1. Old(i) \in 0 .. Len(f.stops) /\ Old(j) \in 0 .. Len(f.stops)
    BY <1>1, <1>2
  <2> HIDE DEF Old
  <2> QED BY <2>1 DEF Legs
<1>5. Subset(f, jobs) = g
  BY DEF Subset
<1>6. DOMAIN stops = 1 .. n /\ Len(stops) = n /\ \A i \in 1 .. n : IsCall(stops[i])
  <2> HIDE DEF n
  <2> QED BY <1>1, <1>2
<1>7. Part(f.km) \in [Legs(n) -> Nat] /\ Part(f.min) \in [Legs(n) -> Nat]
  <2> HIDE DEF Part, n
  <2> QED BY <1>3, <1>4
<1> HIDE DEF stops, Part, n
<1>8. /\ DOMAIN g = DOMAIN f /\ g.stops = stops /\ g.km = Part(f.km) /\ g.min = Part(f.min)
      /\ g.leave = f.leave /\ g.trucks = f.trucks
  BY <1>3
<1> HIDE DEF g
<1>9. IsFleet(g)
  BY <1>2, <1>3, <1>6, <1>7, <1>8 DEF IsFleet
<1> QED BY <1>5, <1>6, <1>8, <1>9 DEF n

-----------------------------------------------------------------------------
(* The orders and the plans of a fleet.                                     *)
Plans(f) == [Trucks(f) -> OrdersWithin(Jobs(f))]

Answers == ScoreSet \cup {NoScore}

(* An order of some deliveries of a fleet is a sequence of them, and every  *)
(* order of the same deliveries is one too.                                 *)
LEMMA OrdersTyped ==
  ASSUME NEW f, IsFleet(f), NEW o \in OrdersWithin(Jobs(f))
  PROVE  /\ o \in Seq(1 .. Len(f.stops)) /\ Len(o) \in Nat /\ IsFiniteSet(OrdersOf(Range(o)))
         /\ o \in OrdersOf(Range(o)) /\ OrdersOf(Range(o)) \subseteq OrdersWithin(Jobs(f))
         /\ o # <<>> => <<>> \notin OrdersOf(Range(o))
<1> DEFINE n == Len(f.stops)
<1>1. n \in Nat /\ Jobs(f) = 1 .. n
  BY FleetIs
<1> HIDE DEF n
<1>2. /\ o \in Seq(1 .. n) /\ Len(o) \in Nat /\ Range(o) \in SUBSET (1 .. n)
      /\ o \in OrdersOf(Range(o)) /\ OrdersOf(Range(o)) \subseteq OrdersWithin(1 .. n)
  BY <1>1, OrdersWithinAre
<1>3. IsFiniteSet(OrdersOf(Range(o))) /\ \A q \in OrdersOf(Range(o)) : Len(q) = Cardinality(Range(o))
  BY <1>1, <1>2, OrdersOfSome
<1>4. o # <<>> => <<>> \notin OrdersOf(Range(o))
  <2>1. Len(o) = Cardinality(Range(o))
    BY <1>2, <1>3
  <2>2. o # <<>> => Len(o) # 0
    BY <1>2
  <2>3. Len(<<>>) = 0
    OBVIOUS
  <2> QED BY <1>3, <2>1, <2>2, <2>3
<1> QED BY <1>1, <1>2, <1>3, <1>4 DEF n

(* Vehicles that cannot be told apart have the evaluations of one of them.  *)
LEMMA AliasTyped ==
  ASSUME NEW f, IsFleet(f), NEW t \in Trucks(f)
  PROVE  Alias(f, t) \in Trucks(f)
<1> DEFINE S == {u \in Trucks(f) : Signature(f, u) = Signature(f, t)}
<1>1. Trucks(f) = 1 .. Len(f.trucks) /\ Len(f.trucks) \in Nat
  BY FleetIs
<1>2. IsFiniteSet(Trucks(f))
  BY <1>1, FS_Interval
<1>3. S \in SUBSET Trucks(f) /\ t \in S
  OBVIOUS
<1>4. S \subseteq Int
  BY <1>1, <1>3
<1> HIDE DEF S
<1>5. IsFiniteSet(S)
  BY <1>2, <1>3, FS_Subset
<1>6. Least(S) \in S
  BY <1>3, <1>4, <1>5, LeastIs
<1>7. Alias(f, t) = Least(S)
  BY DEF Alias, S
<1> QED BY <1>3, <1>6, <1>7

(* The evaluations of a fleet are scores, or none.                          *)
LEMMA ScoresTyped ==
  ASSUME NEW f, IsFleet(f), NEW t \in Trucks(f), NEW o \in OrdersWithin(Jobs(f)), o # <<>>
  PROVE  ScoresOf(f)[t][o] \in Answers
<1>1. ScoresOf(f)[t][o] = ScoreOf(f, Alias(f, t), o)
  BY DEF ScoresOf
<1>2. Alias(f, t) \in Trucks(f)
  BY AliasTyped
<1>3. IsProblem(Problem(f, Alias(f, t))) /\ Problem(f, Alias(f, t)).stops = f.stops
  BY <1>2, ProblemTyped
<1>4. o \in Seq(1 .. Len(f.stops))
  BY OrdersTyped
<1>5. Evaluate(Problem(f, Alias(f, t)), o) \in ScoreSet \cup {NoScore}
  BY <1>3, <1>4, AcceptedTyped
<1> QED BY <1>1, <1>5 DEF ScoreOf, Answers

(* The best of some orders is one of them, or the order that was there.     *)
LEMMA BestOrderIs ==
  ASSUME NEW objective \in {"balanced", "distance", "efficient"}, NEW S, IsFiniteSet(S),
         NEW score \in [S -> Answers], NEW order
  PROVE  \/ BestOrder(objective, score, order) = order
         \/ BestOrder(objective, score, order) \in S /\ score[BestOrder(objective, score, order)] # NoScore
<1> DEFINE fit == {o \in S : score[o] # NoScore}
           top == CHOOSE o \in fit : \A q \in fit : ~Before(RouteKey(objective, score[q]), RouteKey(objective, score[o]))
           key == [o \in fit |-> RouteKey(objective, score[o])]
<1>1. BestOrder(objective, score, order) = IF fit = {} THEN order ELSE top
  BY DEF BestOrder
<1>2. CASE fit = {}
  BY <1>1, <1>2
<1>3. CASE fit # {}
  <2>1. IsFiniteSet(fit)
    BY FS_Subset
  <2> DEFINE width == IF objective = "efficient" THEN 3 ELSE 2
  <2>2. width \in Nat
    OBVIOUS
  <2>3. key \in [fit -> KeysOf(width)]
    <3> SUFFICES ASSUME NEW o \in fit PROVE RouteKey(objective, score[o]) \in KeysOf(width)
      OBVIOUS
    <3>1. score[o] \in ScoreSet
      BY DEF Answers
    <3>2. score[o].km \in Int /\ score[o].minutes \in Int /\ score[o].cost \in Int /\ score[o].work \in Int
      BY <3>1 DEF ScoreSet
    <3>3. <<score[o].work, score[o].km>> \in KeysOf(2) /\ <<score[o].km, score[o].minutes>> \in KeysOf(2)
      BY <3>2 DEF KeysOf
    <3>4. <<score[o].cost, score[o].km, score[o].minutes>> \in KeysOf(3)
      BY <3>2 DEF KeysOf
    <3> QED BY <3>3, <3>4 DEF RouteKey
  <2>4. \E o \in fit : \A q \in fit : ~Before(key[q], key[o])
    <3> HIDE DEF fit, key, width
    <3> QED BY <1>3, <2>1, <2>2, <2>3, MinimumExists
  <2>5. \E o \in fit : \A q \in fit : ~Before(RouteKey(objective, score[q]), RouteKey(objective, score[o]))
    <3>1. \A o \in fit : key[o] = RouteKey(objective, score[o])
      OBVIOUS
    <3> HIDE DEF fit, key
    <3> QED BY <2>4, <3>1
  <2>6. top \in fit
    <3> HIDE DEF fit
    <3> QED BY <2>5
  <2> HIDE DEF top
  <2> QED BY <1>1, <1>3, <2>6
<1> QED BY <1>2, <1>3

(* Orders of the same deliveries, that can be worked where the others can.  *)
Refines(scores, result, routes) ==
  \A t \in DOMAIN routes :
    /\ Range(result[t]) = Range(routes[t])
    /\ routes[t] # <<>> /\ scores[t][routes[t]] # NoScore => scores[t][result[t]] # NoScore

(* The last pass gives each vehicle an order of the same deliveries: a plan *)
(* stays a plan, and what can be worked stays so.                           *)
LEMMA RefinedTyped ==
  ASSUME NEW f, IsFleet(f), NEW objective \in {"balanced", "distance", "efficient"},
         NEW routes \in Plans(f)
  PROVE  /\ RefineRoutes(objective, f, ScoresOf(f), routes) \in Plans(f)
         /\ Refines(ScoresOf(f), RefineRoutes(objective, f, ScoresOf(f), routes), routes)
<1> DEFINE scores == ScoresOf(f)
           Confirmed(t, fast, order) ==
             IF fast[order] = scores[t][order] THEN order
             ELSE BestOrder(objective, [o \in DOMAIN fast |-> scores[t][o]], routes[t])
           Refined(t, fast) == Confirmed(t, fast, BestOrder(objective, fast, routes[t]))
           Fast(t) == [o \in OrdersOf(Range(routes[t])) |-> FixedRouteEvaluator(Problem(f, t), o)]
           Result(t) == IF Len(routes[t]) \in 1 .. RefineStops THEN Refined(t, Fast(t)) ELSE routes[t]
<1>1. RefineRoutes(objective, f, scores, routes) = [t \in DOMAIN routes |-> Result(t)]
  BY DEF RefineRoutes
<1>2. DOMAIN routes = Trucks(f) /\ \A t \in Trucks(f) : routes[t] \in OrdersWithin(Jobs(f))
  BY DEF Plans
<1> DEFINE Stays(t, o) == routes[t] # <<>> /\ scores[t][routes[t]] # NoScore => scores[t][o] # NoScore
<1>3. ASSUME NEW t \in Trucks(f)
      PROVE  Result(t) \in OrdersWithin(Jobs(f)) /\ Range(Result(t)) = Range(routes[t]) /\ Stays(t, Result(t))
  <2>1. CASE Len(routes[t]) \notin 1 .. RefineStops
    BY <1>2, <2>1
  <2>2. CASE Len(routes[t]) \in 1 .. RefineStops
    <3> DEFINE S == OrdersOf(Range(routes[t]))
               again == [o \in S |-> scores[t][o]]
    <3>1. routes[t] # <<>>
      <4>1. Len(<<>>) = 0 /\ 0 \notin 1 .. RefineStops
        BY FleetsAssumption
      <4> QED BY <2>2, <4>1
    <3>2. /\ IsFiniteSet(S) /\ routes[t] \in S /\ S \subseteq OrdersWithin(Jobs(f)) /\ <<>> \notin S
      BY <1>2, <3>1, OrdersTyped
    <3>3. Fast(t) \in [S -> Answers]
      <4>1. \A o \in S : FixedRouteEvaluator(Problem(f, t), o) \in Answers
        <5> SUFFICES ASSUME NEW o \in S PROVE FixedRouteEvaluator(Problem(f, t), o) \in Answers
          OBVIOUS
        <5>1. o \in OrdersWithin(Jobs(f))
          BY <3>2
        <5>2. o \in Seq(1 .. Len(f.stops))
          BY <5>1, OrdersTyped
        <5>3. IsProblem(Problem(f, t)) /\ Problem(f, t).stops = f.stops
          BY ProblemTyped
        <5> QED BY <5>2, <5>3, CompiledTyped DEF Answers
      <4> HIDE DEF S
      <4> QED BY <4>1 DEF S
    <3>4. again \in [S -> Answers]
      <4>1. \A o \in S : scores[t][o] \in Answers
        <5> HIDE DEF S
        <5> QED BY <3>2, ScoresTyped
      <4> HIDE DEF S
      <4> QED BY <4>1
    <3> HIDE DEF S, Fast, scores
    <3> DEFINE x == BestOrder(objective, Fast(t), routes[t])
               y == BestOrder(objective, again, routes[t])
    <3>5. x = routes[t] \/ (x \in S /\ Fast(t)[x] # NoScore)
      <4> HIDE DEF again
      <4> QED BY <3>2, <3>3, BestOrderIs
    <3>6. y = routes[t] \/ (y \in S /\ scores[t][y] # NoScore)
      <4>1. \A o \in S : again[o] = scores[t][o]
        OBVIOUS
      <4>2. y = routes[t] \/ (y \in S /\ again[y] # NoScore)
        <5> HIDE DEF again
        <5> QED BY <3>2, <3>4, BestOrderIs
      <4> HIDE DEF again, y
      <4> QED BY <4>1, <4>2
    <3>7. Refined(t, Fast(t)) = IF Fast(t)[x] = scores[t][x] THEN x ELSE y
      <4>1. DOMAIN Fast(t) = S
        BY <3>3
      <4> QED BY <4>1
    <3> HIDE DEF Refined, x, y
    <3>8. \A o \in S : Range(o) = Range(routes[t])
      BY DEF S, OrdersOf
    <3>9. x \in S /\ y \in S
      BY <3>2, <3>5, <3>6
    <3>10. Stays(t, y) /\ (Fast(t)[x] = scores[t][x] => Stays(t, x))
      BY <3>5, <3>6
    <3> DEFINE z == Refined(t, Fast(t))
    <3>11. z \in S /\ Stays(t, z)
      <4> HIDE DEF Stays, z
      <4> QED BY <3>7, <3>9, <3>10 DEF z
    <3>12. Result(t) = z
      BY <2>2
    <3> HIDE DEF Result, z, Stays
    <3> QED BY <3>2, <3>8, <3>11, <3>12
  <2> HIDE DEF Refined, Fast
  <2> QED BY <2>1, <2>2
<1> DEFINE result == RefineRoutes(objective, f, scores, routes)
<1>4. result \in Plans(f)
  <2> HIDE DEF Result, scores
  <2> QED BY <1>1, <1>2, <1>3 DEF Plans
<1>5. \A t \in Trucks(f) : result[t] = Result(t)
  <2> HIDE DEF Result, scores
  <2> QED BY <1>1, <1>2
<1>6. Refines(scores, result, routes)
  <2> HIDE DEF Result, scores, result
  <2> QED BY <1>2, <1>3, <1>5 DEF Refines
<1> QED BY <1>4, <1>6

-----------------------------------------------------------------------------
(* The routes that are shown.                                               *)

Route(f) ==
  [order : OrdersWithin(Jobs(f)) \ {<<>>}, leave : Nat, factor : Nat, late : Int, lateness : Int,
   worst : Int, overtime : Int, updated : BOOLEAN]

IsOffer(f, routes) == DOMAIN routes \subseteq Trucks(f) /\ routes \in [DOMAIN routes -> Route(f)]

(* The parts of a route the proofs use.                                     *)
LEMMA RouteIs ==
  ASSUME NEW f, IsFleet(f), NEW r \in Route(f)
  PROVE  /\ r.order \in OrdersWithin(Jobs(f)) /\ r.order # <<>> /\ r.order \in Seq(1 .. Len(f.stops))
         /\ Len(r.order) \in Nat /\ r.leave \in Nat /\ r.factor \in Nat
         /\ r.late \in Int /\ r.lateness \in Int /\ r.worst \in Int /\ r.overtime \in Int
<1>1. /\ r.order \in OrdersWithin(Jobs(f)) /\ r.order # <<>> /\ r.leave \in Nat /\ r.factor \in Nat
      /\ r.late \in Int /\ r.lateness \in Int /\ r.worst \in Int /\ r.overtime \in Int
  BY DEF Route
<1> QED BY <1>1, OrdersTyped

(* The vehicles of an offer are finitely many.                              *)
LEMMA OfferIs ==
  ASSUME NEW f, IsFleet(f), NEW routes, IsOffer(f, routes)
  PROVE  IsFiniteSet(DOMAIN routes) /\ \A t \in DOMAIN routes : t \in Trucks(f) /\ routes[t] \in Route(f)
<1>1. IsFiniteSet(Trucks(f))
  <2>1. Trucks(f) = 1 .. Len(f.trucks) /\ Len(f.trucks) \in Nat
    BY FleetIs
  <2> QED BY <2>1, FS_Interval
<1>2. DOMAIN routes \subseteq Trucks(f) /\ routes \in [DOMAIN routes -> Route(f)]
  BY DEF IsOffer
<1>3. IsFiniteSet(DOMAIN routes)
  BY <1>1, <1>2, FS_Subset
<1> QED BY <1>2, <1>3

(* The delays of an offer are a key of two integers, and what it serves is  *)
(* an integer.                                                              *)
LEMMA DelayTyped ==
  ASSUME NEW f, IsFleet(f), NEW routes, IsOffer(f, routes)
  PROVE  Delay(routes) \in KeysOf(2) /\ Served(OrdersOfOffer(routes)) \in Int
<1> DEFINE D == DOMAIN routes
           late == [t \in D |-> routes[t].late]
           lateness == [t \in D |-> routes[t].lateness]
           overtime == [t \in D |-> routes[t].overtime]
           over == {t \in D : routes[t].overtime > 0}
           lengths == [t \in D |-> Len(routes[t].order)]
<1>1. IsFiniteSet(D) /\ \A t \in D : routes[t] \in Route(f)
  BY OfferIs
<1>2. \A t \in D : /\ routes[t].late \in Int /\ routes[t].lateness \in Int /\ routes[t].overtime \in Int
                   /\ Len(routes[t].order) \in Int
  <2> SUFFICES ASSUME NEW t \in D
               PROVE /\ routes[t].late \in Int /\ routes[t].lateness \in Int /\ routes[t].overtime \in Int
                     /\ Len(routes[t].order) \in Int
    OBVIOUS
  <2> HIDE DEF D
  <2>1. Len(routes[t].order) \in Nat
    BY <1>1, RouteIs
  <2> QED BY <1>1, <2>1, RouteIs
<1>3. late \in [D -> Int] /\ lateness \in [D -> Int] /\ overtime \in [D -> Int] /\ lengths \in [D -> Int]
  BY <1>2
<1>4. Total(late) \in Int /\ Total(lateness) \in Int /\ Total(overtime) \in Int /\ Total(lengths) \in Int
  <2> HIDE DEF late, lateness, overtime, lengths, D
  <2> QED BY <1>1, <1>3, TotalTyped
<1>5. Cardinality(over) \in Int
  <2>1. IsFiniteSet(over)
    BY <1>1, FS_Subset
  <2> HIDE DEF over
  <2>2. Cardinality(over) \in Nat
    BY <2>1, FS_CardinalityType
  <2> QED BY <2>2
<1>6. Delay(routes) = <<Total(late) + Cardinality(over), Total(lateness) + Total(overtime)>>
  BY DEF Delay
<1>7. Served(OrdersOfOffer(routes)) = Total(lengths)
  <2>1. DOMAIN OrdersOfOffer(routes) = D /\ \A t \in D : OrdersOfOffer(routes)[t] = routes[t].order
    BY DEF OrdersOfOffer
  <2>2. [t \in DOMAIN OrdersOfOffer(routes) |-> Len(OrdersOfOffer(routes)[t])] = lengths
    BY <2>1
  <2> QED BY <2>2 DEF Served
<1> HIDE DEF late, lateness, overtime, lengths, over
<1>8. Total(late) + Cardinality(over) \in Int /\ Total(lateness) + Total(overtime) \in Int
  BY <1>4, <1>5
<1> DEFINE a == Total(late) + Cardinality(over)
           b == Total(lateness) + Total(overtime)
<1>9. a \in Int /\ b \in Int
  BY <1>8
<1> HIDE DEF a, b
<1>10. <<a, b>> \in KeysOf(2)
  BY <1>9 DEF KeysOf
<1> QED BY <1>4, <1>6, <1>7, <1>10 DEF a, b

(* The greatest of an integer and of others is at least that integer.       *)
LEMMA GreatestAbove ==
  ASSUME NEW b \in Int, NEW s, IsFiniteSet(s), s \subseteq Int
  PROVE  Greatest({b} \cup s) \in Int /\ b <= Greatest({b} \cup s)
<1> DEFINE all == {b} \cup s
<1>1. IsFiniteSet({b})
  BY FS_Singleton
<1>2. IsFiniteSet(all)
  BY <1>1, FS_Union
<1>3. all # {} /\ all \subseteq Int /\ b \in all
  OBVIOUS
<1> HIDE DEF all
<1>4. Greatest(all) \in all /\ b <= Greatest(all)
  BY <1>2, <1>3, GreatestIs
<1>5. Greatest(all) \in Int
  BY <1>3, <1>4
<1> QED BY <1>4, <1>5 DEF all

(* The most that the routes of an offer have of something, at least b.       *)
MostWorst(b, routes) == Greatest({b} \cup {routes[t].worst : t \in DOMAIN routes})

MostOvertime(b, routes) == Greatest({b} \cup {routes[t].overtime : t \in DOMAIN routes})

(* It is an integer, and not below b.                                       *)
LEMMA GreatestOfOffer ==
  ASSUME NEW f, IsFleet(f), NEW routes, IsOffer(f, routes), NEW b \in Int
  PROVE  /\ MostWorst(b, routes) \in Int /\ b <= MostWorst(b, routes)
         /\ MostOvertime(b, routes) \in Int /\ b <= MostOvertime(b, routes)
         /\ MostFactor(routes) \in Int /\ 1 <= MostFactor(routes)
<1> DEFINE D == DOMAIN routes
           worst == [t \in D |-> routes[t].worst]
           overtime == [t \in D |-> routes[t].overtime]
           T == {u \in D : Troubled(routes[u])}
           factor == [t \in T |-> routes[t].factor]
<1>1. IsFiniteSet(D) /\ \A t \in D : routes[t] \in Route(f)
  BY OfferIs
<1>2. \A t \in D : routes[t].worst \in Int /\ routes[t].overtime \in Int /\ routes[t].factor \in Int
  BY <1>1 DEF Route
<1>3. /\ {routes[t].worst : t \in D} = {worst[t] : t \in D}
      /\ {routes[t].overtime : t \in D} = {overtime[t] : t \in D}
      /\ {routes[t].factor : t \in T} = {factor[t] : t \in T}
  OBVIOUS
<1>4. /\ {worst[t] : t \in D} \subseteq Int /\ {overtime[t] : t \in D} \subseteq Int
      /\ {factor[t] : t \in T} \subseteq Int
  BY <1>2
<1>9. IsFiniteSet(T)
  BY <1>1, FS_Subset
<1> HIDE DEF worst, overtime, factor, D, T
<1>5. IsFiniteSet({worst[t] : t \in D}) /\ IsFiniteSet({overtime[t] : t \in D}) /\ IsFiniteSet({factor[t] : t \in T})
  BY <1>1, <1>9, ImageIsFinite
<1>6. Greatest({b} \cup {worst[t] : t \in D}) \in Int /\ b <= Greatest({b} \cup {worst[t] : t \in D})
  BY <1>4, <1>5, GreatestAbove
<1>7. Greatest({b} \cup {overtime[t] : t \in D}) \in Int /\ b <= Greatest({b} \cup {overtime[t] : t \in D})
  BY <1>4, <1>5, GreatestAbove
<1>8. Greatest({1} \cup {factor[t] : t \in T}) \in Int /\ 1 <= Greatest({1} \cup {factor[t] : t \in T})
  BY <1>4, <1>5, GreatestAbove
<1> QED BY <1>3, <1>6, <1>7, <1>8 DEF D, T, MostWorst, MostOvertime, MostFactor

(* The margins of the next attempt are natural numbers.                     *)
LEMMA BuffersTyped ==
  ASSUME NEW f, IsFleet(f), NEW routes, IsOffer(f, routes)
  PROVE  ReplanBuffer(routes) \in Nat /\ ShiftBuffer(routes) \in Nat
<1> DEFINE worst == MostWorst(0, routes)
           extra == MostOvertime(0, routes)
<1>1. worst \in Int /\ 0 <= worst /\ extra \in Int /\ 0 <= extra
  BY GreatestOfOffer
<1>2. ReplanBuffer(routes) = IF \A t \in DOMAIN routes : routes[t].late = 0 THEN 0
                             ELSE Smaller(WidestMargin, Greater(Margin, worst))
  BY DEF ReplanBuffer, MostWorst
<1>3. ShiftBuffer(routes) = IF extra = 0 THEN 0 ELSE Smaller(WidestMargin, extra + Margin)
  BY DEF ShiftBuffer, MostOvertime
<1> HIDE DEF worst, extra
<1>4. Smaller(WidestMargin, Greater(Margin, worst)) \in Nat /\ Smaller(WidestMargin, extra + Margin) \in Nat
  BY <1>1, PreviewAssumption DEF Smaller, Greater
<1> QED BY <1>2, <1>3, <1>4

(* A problem whose route does not return is a problem.                      *)
LEMMA NoReturnTyped ==
  ASSUME NEW p, IsProblem(p)
  PROVE  IsProblem([p EXCEPT !.back = FALSE]) /\ [p EXCEPT !.back = FALSE].stops = p.stops
<1> DEFINE q == [p EXCEPT !.back = FALSE]
<1>1. DOMAIN q = Fields
  BY DEF IsProblem, Fields
<1>2. /\ q.stops = p.stops /\ q.km = p.km /\ q.min = p.min /\ q.breaks = p.breaks /\ q.shift = p.shift
      /\ q.leave = p.leave
  BY DEF IsProblem, Fields
<1> HIDE DEF q
<1> QED BY <1>1, <1>2 DEF IsProblem, q

(* A route with the traffic is a route.                                     *)
LEMMA RetimedTyped ==
  ASSUME NEW f, IsFleet(f), NEW p, IsProblem(p), p.stops = f.stops, NEW r \in Route(f), NEW timed \in ReportSet
  PROVE  Retimed(p, r, timed) \in Route(f)
<1> DEFINE q == [p EXCEPT !.back = FALSE]
           n == Len(r.order)
           Late(i) == EvaluateFixedSequence(q, SubSeq(r.order, 1, i), FALSE).late
           more == [i \in 1 .. n |-> Late(i) - Late(i - 1)]
           worst == Greatest({Late(i) - Late(i - 1) : i \in DOMAIN r.order})
           overtime == IF p.shift = <<>> THEN 0 ELSE Greater(0, r.leave + timed.minutes - p.shift[2])
<1>1. /\ r.order \in Seq(1 .. Len(p.stops)) /\ r.order # <<>> /\ n \in Nat /\ r.leave \in Nat
      /\ DOMAIN r.order = 1 .. n /\ n >= 1
  <2>1. r.order \in Seq(1 .. Len(f.stops)) /\ r.order # <<>> /\ r.leave \in Nat
    BY RouteIs
  <2> QED BY <2>1
<1>2. IsProblem(q) /\ q.stops = p.stops
  BY NoReturnTyped
<1>3. ASSUME NEW i \in 0 .. n PROVE Late(i) \in Int
  <2> HIDE DEF q
  <2>1. SubSeq(r.order, 1, i) \in Seq(1 .. Len(q.stops))
    <3>1. \A k \in 1 .. i : r.order[k] \in 1 .. Len(p.stops)
      BY <1>1
    <3> QED BY <1>1, <1>2, <3>1, SubSeqProperties
  <2>2. EvaluateFixedSequence(q, SubSeq(r.order, 1, i), FALSE) \in ReportSet
    BY <1>2, <2>1, EvaluateTyped
  <2> QED BY <2>2 DEF ReportSet
<1>4. worst \in Int
  <2> HIDE DEF Late, n
  <2>1. \A i \in 1 .. n : Late(i) - Late(i - 1) \in Int
    BY <1>1, <1>3
  <2>2. {Late(i) - Late(i - 1) : i \in DOMAIN r.order} = {more[i] : i \in 1 .. n}
    BY <1>1
  <2>3. \A i \in 1 .. n : more[i] \in Int
    BY <2>1
  <2>4. IsFiniteSet(1 .. n) /\ 1 \in 1 .. n
    BY <1>1, FS_Interval
  <2> HIDE DEF more
  <2>5. IsFiniteSet({more[i] : i \in 1 .. n})
    BY <2>4, ImageIsFinite
  <2>6. {more[i] : i \in 1 .. n} # {} /\ {more[i] : i \in 1 .. n} \subseteq Int
    BY <2>3, <2>4
  <2>7. Greatest({more[i] : i \in 1 .. n}) \in {more[i] : i \in 1 .. n}
    BY <2>5, <2>6, GreatestIs
  <2>8. Greatest({more[i] : i \in 1 .. n}) \in Int
    BY <2>6, <2>7
  <2> QED BY <2>2, <2>8
<1>5. overtime \in Int /\ timed.broken \in Int /\ timed.late \in Int
  <2>1. timed.broken \in Int /\ timed.late \in Int /\ timed.minutes \in Int
    BY DEF ReportSet
  <2>2. p.shift \in {<<>>} \cup (Nat \X Nat)
    BY DEF IsProblem
  <2>3. p.shift # <<>> => p.shift[2] \in Int
    BY <2>2
  <2>4. p.shift # <<>> => Greater(0, r.leave + timed.minutes - p.shift[2]) \in Int
    BY <1>1, <2>1, <2>3 DEF Greater
  <2> QED BY <2>1, <2>4
<1>6. Retimed(p, r, timed) =
        [r EXCEPT !.updated = TRUE, !.late = timed.broken, !.lateness = timed.late, !.worst = worst,
                  !.overtime = overtime]
  BY DEF Retimed
<1> HIDE DEF worst, overtime
<1> QED BY <1>4, <1>5, <1>6 DEF Route

(* The request is a fleet: the deliveries that need no ferry.               *)
LEMMA RequestedTyped ==
  ASSUME asked.fleet \in DOMAIN Fleets
  PROVE  IsFleet(Requested) /\ Reachable \in Seq(Jobs(Fleets[asked.fleet]))
<1> DEFINE f == Fleets[asked.fleet]
           all == [i \in Jobs(f) |-> i]
<1>1. IsFleet(f)
  BY FleetsAssumption
<1>2. all \in Seq(Jobs(f))
  <2>1. Jobs(f) = 1 .. Len(f.stops) /\ Len(f.stops) \in Nat
    BY <1>1, FleetIs
  <2> HIDE DEF f
  <2> QED BY <2>1
<1>3. Reachable = LeftOver(all, asked.ferry)
  BY DEF Reachable
<1> HIDE DEF f, all
<1>4. Reachable \in Seq(Jobs(f))
  BY <1>2, <1>3, LeftOverTyped
<1>5. IsFleet(Subset(f, Reachable))
  BY <1>1, <1>4, SubsetTyped
<1> QED BY <1>4, <1>5 DEF Requested, f

(* A request that is a fleet, and an attempt of natural numbers.            *)
Asked ==
  /\ asked.fleet \in DOMAIN Fleets /\ asked.strategy \in Strategies
  /\ pass \in [rate : Nat, buffer : Nat, shift : Nat] /\ pass.rate >= 1

(* The fleets of the traffic and of the true windows are the request with   *)
(* slower roads.                                                            *)
LEMMA SlowedTyped ==
  ASSUME Asked, NEW t \in Trucks(Requested), NEW route \in Route(Requested), NEW rate \in Nat
  PROVE  /\ IsFleet(Final) /\ Final.stops = Requested.stops /\ Final.trucks = Requested.trucks
         /\ IsProblem(Slowed(t, route, rate)) /\ Slowed(t, route, rate).stops = Requested.stops
<1>1. IsFleet(Requested) /\ pass.rate \in Nat
  BY RequestedTyped DEF Asked
<1>2. IsFleet(Final) /\ Final.stops = Requested.stops /\ Final.trucks = Requested.trucks
  BY <1>1, SlowerTyped DEF Final, Restored
<1> DEFINE g == [Requested EXCEPT !.min = Slower(@, rate)]
<1>3. IsFleet(g) /\ g.stops = Requested.stops /\ g.trucks = Requested.trucks
  BY <1>1, SlowerTyped
<1> HIDE DEF g
<1>4. t \in Trucks(g)
  BY <1>3 DEF Trucks
<1>5. IsProblem(Problem(g, t)) /\ Problem(g, t).stops = g.stops
  BY <1>3, <1>4, ProblemTyped
<1>6. route.leave \in Nat
  BY <1>1, RouteIs
<1>7. IsProblem(At(Problem(g, t), route.leave)) /\ At(Problem(g, t), route.leave).stops = Problem(g, t).stops
  BY <1>5, <1>6, AtTyped
<1> QED BY <1>2, <1>3, <1>5, <1>7 DEF Slowed, g

(* A route whose traffic was asked for is a route.                          *)
LEMMA PreviewTrafficTyped ==
  ASSUME Asked, NEW t \in Trucks(Requested), NEW route \in Route(Requested), NEW rate \in Nat
  PROVE  PreviewTraffic(t, route, rate) \in Route(Requested)
<1> DEFINE p == Slowed(t, route, rate)
           timed == EvaluateFixedSequence(p, route.order, FALSE)
<1>1. IsFleet(Requested)
  BY RequestedTyped DEF Asked
<1>2. IsProblem(p) /\ p.stops = Requested.stops
  BY SlowedTyped
<1>3. route.order \in Seq(1 .. Len(p.stops))
  BY <1>1, <1>2, RouteIs
<1> HIDE DEF p
<1>4. timed \in ReportSet
  BY <1>2, <1>3, EvaluateTyped
<1> HIDE DEF timed
<1>5. Retimed(p, route, timed) \in Route(Requested)
  BY <1>1, <1>2, <1>4, RetimedTyped
<1> QED BY <1>5 DEF PreviewTraffic, p, timed

(* Another order of a route is an order of the same deliveries.             *)
LEMMA ReorderedTyped ==
  ASSUME Asked, NEW t \in Trucks(Requested), NEW route \in Route(Requested), NEW factor
  PROVE  \A o \in ReorderedFor(t, route, factor) : o \in OrdersWithin(Jobs(Requested)) /\ o # <<>>
<1>1. IsFleet(Requested)
  BY RequestedTyped DEF Asked
<1>2. ReorderedFor(t, route, factor) \subseteq OrdersOf(Range(route.order))
  BY DEF ReorderedFor
<1>3. route.order \in OrdersWithin(Jobs(Requested)) /\ route.order # <<>>
  BY <1>1, RouteIs
<1>4. OrdersOf(Range(route.order)) \subseteq OrdersWithin(Jobs(Requested)) /\ <<>> \notin OrdersOf(Range(route.order))
  BY <1>1, <1>3, OrdersTyped
<1> QED BY <1>2, <1>4

(* A route that is late with the traffic stays a route.                     *)
LEMMA SecondPassTyped ==
  ASSUME Asked, NEW t \in Trucks(Requested), NEW route \in Route(Requested), NEW timed \in Route(Requested),
         NEW factor \in Nat, NEW again \in Nat
  PROVE  SecondPass(t, route, timed, factor, again) \subseteq Route(Requested)
<1> DEFINE known == [timed EXCEPT !.factor = factor]
           Other(o) == [known EXCEPT !.order = o, !.updated = FALSE]
<1>1. known \in Route(Requested)
  BY DEF Route
<1>2. ASSUME NEW o \in ReorderedFor(t, route, known.factor)
      PROVE  LessLate(PreviewTraffic(t, Other(o), again), known) \in Route(Requested)
  <2>1. o \in OrdersWithin(Jobs(Requested)) /\ o # <<>>
    BY <1>2, ReorderedTyped
  <2> HIDE DEF known
  <2>2. Other(o) \in Route(Requested)
    BY <1>1, <2>1 DEF Route
  <2> HIDE DEF Other
  <2>3. PreviewTraffic(t, Other(o), again) \in Route(Requested)
    BY <2>2, PreviewTrafficTyped
  <2> QED BY <1>1, <2>3 DEF LessLate
<1> HIDE DEF known
<1>3. AnotherOrder(t, route, known, again) \subseteq Route(Requested)
  BY <1>1, <1>2 DEF AnotherOrder
<1> QED BY <1>3 DEF SecondPass, known

(* How much slower the roads are is a natural number.                       *)
LEMMA TravelFactorTyped ==
  ASSUME Asked, NEW rate \in Nat
  PROVE  TravelFactor(rate) \in Nat
<1>1. pass.rate \in Nat /\ pass.rate >= 1
  BY DEF Asked
<1> DEFINE r == pass.rate
           q == (rate + r - 1) \div r
<1>2. r \in Nat /\ r >= 1
  BY <1>1
<1> HIDE DEF r
<1>3. q \in Nat
  <2>1. rate + r - 1 \in Nat /\ r \in Nat \ {0}
    BY <1>2
  <2> DEFINE x == rate + r - 1
  <2>2. x \in Nat
    BY <2>1
  <2> HIDE DEF x
  <2>3. x \div r \in Nat
    BY <2>1, <2>2, DivisionIs
  <2> QED BY <2>3 DEF x
<1> HIDE DEF q
<1>4. Smaller(3, q) \in Nat
  BY <1>3 DEF Smaller
<1> QED BY <1>4 DEF TravelFactor, q, r

(* A route with its times is a route.                                       *)
LEMMA TimedTyped ==
  ASSUME NEW f, IsFleet(f), NEW p, IsProblem(p), p.stops = f.stops, p.leave \in Nat,
         NEW order \in OrdersWithin(Jobs(f)), order # <<>>
  PROVE  Timed(p, order) \in Route(f)
<1>1. order \in Seq(1 .. Len(p.stops))
  BY OrdersTyped
<1>2. LaterDeparture(p, order, TRUE) \in Nat
  BY <1>1, LaterTyped
<1> DEFINE leave == IF Evaluate(p, order) = NoScore THEN p.leave ELSE LaterDeparture(p, order, TRUE)
<1>3. leave \in Nat
  BY <1>2
<1>4. Timed(p, order) = [order |-> order, leave |-> leave, factor |-> 1, late |-> 0, lateness |-> 0,
                         worst |-> 0, overtime |-> 0, updated |-> FALSE]
  BY DEF Timed
<1> HIDE DEF leave
<1> QED BY <1>3, <1>4 DEF Route

-----------------------------------------------------------------------------
(* The calculation.                                                         *)

(* The stages of an attempt, and those after the first division.            *)
Working == {"divide", "distance", "recover", "repair", "refine", "engines", "time", "traffic", "judge"}

Divided == Working \ {"divide"}

(* An attempt is made only for deliveries that can be reached.              *)
AttemptsAreReachable == stage \in Working \/ first # <<>> => Reachable # <<>>

(* The search sees the fleet of this attempt, tightened from the request.   *)
BookIsOfAttempt ==
  stage \in Working => book = Book(Tightened(Requested, pass)) /\ clocked \subseteq Plans(Requested)

(* What is decided, and what is repaired, is a plan of the request.         *)
DivisionIsPlan ==
  /\ stage \in Divided => division \in Plans(Requested)
  /\ stage = "repair" => seed \in Plans(Requested)

(* What is shown is routes of its vehicles.                                 *)
OfferIsShown == stage \in {"traffic", "judge"} => IsOffer(Requested, offer)

(* The attempt that is kept is not worse than the first, at every moment.   *)
KeptIsNoWorse ==
  first # <<>> =>
    /\ IsOffer(Requested, first.offer) /\ IsOffer(Requested, kept.offer)
    /\ Served(OrdersOfOffer(kept.offer)) >= Served(OrdersOfOffer(first.offer))
    /\ ~Before(Delay(first.offer), Delay(kept.offer))

ReplanInv ==
  Asked /\ AttemptsAreReachable /\ BookIsOfAttempt /\ DivisionIsPlan /\ OfferIsShown /\ KeptIsNoWorse

(* The request does not change while it is calculated.                      *)
LEMMA RequestStays ==
  ASSUME asked' = asked
  PROVE  Requested' = Requested /\ Reachable' = Reachable
BY DEF Requested, Reachable

(* What the search knows of an attempt: a fleet with the deliveries and the *)
(* vehicles of the request, its evaluations, and plans of the request.      *)
LEMMA BookIs ==
  ASSUME Asked, book = Book(Tightened(Requested, pass))
  PROVE  /\ IsFleet(book.fleet) /\ Plans(book.fleet) = Plans(Requested)
         /\ Trucks(book.fleet) = Trucks(Requested) /\ Jobs(book.fleet) = Jobs(Requested)
         /\ book.scores = ScoresOf(book.fleet) /\ book.plans \subseteq Plans(Requested)
<1> DEFINE f == Tightened(Requested, pass)
<1>1. IsFleet(Requested) /\ IsHow(pass)
  BY RequestedTyped DEF Asked, IsHow
<1>2. IsFleet(f) /\ Jobs(f) = Jobs(Requested) /\ Trucks(f) = Trucks(Requested)
  BY <1>1, TightenedTyped
<1> HIDE DEF f
<1>3. Book(f).fleet = f /\ Book(f).scores = ScoresOf(f) /\ Book(f).plans \subseteq Plans(f)
  BY DEF Book, ScoredBook, BookOf, Plans
<1>4. Plans(f) = Plans(Requested)
  BY <1>2 DEF Plans
<1>5. book = Book(f)
  BY DEF f
<1> QED BY <1>2, <1>3, <1>4, <1>5

(* The engines propose plans of the request.                                *)
LEMMA ClockedIs ==
  ASSUME Asked
  PROVE  Clocked(Tightened(Requested, pass)) \subseteq Plans(Requested)
<1> DEFINE f == Tightened(Requested, pass)
<1>1. IsFleet(Requested) /\ IsHow(pass)
  BY RequestedTyped DEF Asked, IsHow
<1>2. Jobs(f) = Jobs(Requested) /\ Trucks(f) = Trucks(Requested)
  BY <1>1, TightenedTyped
<1> HIDE DEF f
<1>3. Clocked(f) \subseteq Plans(f)
  BY DEF Clocked, Plans
<1>4. Plans(f) = Plans(Requested)
  BY <1>2 DEF Plans
<1> QED BY <1>3, <1>4 DEF f

(* A plan that is refined is a plan of the request.                         *)
LEMMA RefinedIsPlan ==
  ASSUME Asked, book = Book(Tightened(Requested, pass)), NEW routes \in Plans(Requested)
  PROVE  RefineRoutes(Strategy, book.fleet, book.scores, routes) \in Plans(Requested)
<1>1. Strategy \in {"balanced", "distance", "efficient"}
  BY FleetsAssumption DEF Asked, Strategy
<1>2. IsFleet(book.fleet) /\ Plans(book.fleet) = Plans(Requested) /\ book.scores = ScoresOf(book.fleet)
  BY BookIs
<1>3. RefineRoutes(Strategy, book.fleet, ScoresOf(book.fleet), routes) \in Plans(book.fleet)
  BY <1>1, <1>2, RefinedTyped
<1> QED BY <1>2, <1>3

(* A step of the division leaves a plan of the request.                     *)
LEMMA DivisionStep ==
  ASSUME ReplanInv, UNCHANGED <<asked, pass, book, clocked, kept, first>>, stage \in Working,
         stage' \in {"refused", "distance", "recover", "repair", "refine", "engines", "time"},
         division' \in Plans(Requested), stage' = "repair" => seed' \in Plans(Requested)
  PROVE  ReplanInv'
<1>1. Requested' = Requested /\ Reachable' = Reachable
  BY RequestStays
<1>2. Asked'
  BY DEF ReplanInv, Asked
<1>3. AttemptsAreReachable'
  BY <1>1 DEF ReplanInv, AttemptsAreReachable
<1>4. BookIsOfAttempt'
  BY <1>1 DEF ReplanInv, BookIsOfAttempt
<1>5. DivisionIsPlan'
  BY <1>1 DEF DivisionIsPlan
<1>6. OfferIsShown'
  BY DEF OfferIsShown
<1>7. KeptIsNoWorse'
  BY <1>1 DEF ReplanInv, KeptIsNoWorse
<1> QED BY <1>2, <1>3, <1>4, <1>5, <1>6, <1>7 DEF ReplanInv

(* The better of two plans is one of them.                                  *)
LEMMA BetterIsOneOf ==
  ASSUME NEW objective, NEW a, NEW b, NEW S, a \in S, b \in S
  PROVE  BetterOf(book, objective, a, b) \in S
BY DEF BetterOf

(* The divisions: by a search, by the operator, or by an engine.            *)
LEMMA DividingKeeps ==
  ASSUME ReplanInv,
         \/ Assign \/ Search \/ SearchDistance \/ SkipRecovery \/ SearchAlternate
         \/ PairExchangeRepair \/ SolveFleetMilp \/ EndRecovery \/ RefineAll \/ EndEngines
         \/ stage = "engines" /\ \E proposal \in clocked : Improve(proposal)
  PROVE  ReplanInv'
<1>1. Asked /\ (stage \in Working => book = Book(Tightened(Requested, pass)) /\ clocked \subseteq Plans(Requested))
      /\ (stage \in Divided => division \in Plans(Requested)) /\ (stage = "repair" => seed \in Plans(Requested))
  BY DEF ReplanInv, BookIsOfAttempt, DivisionIsPlan
<1>2. stage \in Working => /\ Plans(book.fleet) = Plans(Requested) /\ book.plans \subseteq Plans(Requested)
  BY <1>1, BookIs
<1>3. \A objective : stage \in Working => FoundUnder(objective) \subseteq Plans(Requested)
  BY <1>2 DEF FoundUnder
<1>4. CASE Assign
  <2>1. stage \in Working /\ stage' \in {"refused", "refine"} /\ division' \in Plans(book.fleet)
    BY <1>4 DEF Assign, Working, Plans
  <2>2. UNCHANGED <<asked, pass, book, clocked, kept, first>>
    BY <1>4 DEF Assign
  <2> QED BY <1>2, <2>1, <2>2, DivisionStep
<1>5. CASE Search
  <2>1. stage \in Working /\ stage' \in {"distance", "recover"} /\ division' \in FoundUnder(Strategy)
    BY <1>5 DEF Search, Working
  <2>2. UNCHANGED <<asked, pass, book, clocked, kept, first>>
    BY <1>5 DEF Search
  <2> QED BY <1>3, <2>1, <2>2, DivisionStep
<1>6. CASE SearchDistance
  <2>1. stage \in Working /\ stage \in Divided /\ stage' = "recover"
    BY <1>6 DEF SearchDistance, Working, Divided
  <2>2. PICK other \in FoundUnder("distance") : division' = BetterOf(book, Strategy, other, division)
    BY <1>6 DEF SearchDistance
  <2>3. division' \in Plans(Requested)
    BY <1>1, <1>3, <2>1, <2>2, BetterIsOneOf
  <2>4. UNCHANGED <<asked, pass, book, clocked, kept, first>>
    BY <1>6 DEF SearchDistance
  <2> QED BY <2>1, <2>3, <2>4, DivisionStep
<1>7. CASE SkipRecovery
  <2>1. stage \in Working /\ stage \in Divided /\ stage' = "refine" /\ division' = division
    BY <1>7 DEF SkipRecovery, Working, Divided
  <2>2. UNCHANGED <<asked, pass, book, clocked, kept, first>>
    BY <1>7 DEF SkipRecovery
  <2> QED BY <1>1, <2>1, <2>2, DivisionStep
<1>8. CASE SearchAlternate
  <2>1. stage \in Working /\ stage \in Divided /\ stage' \in {"repair", "refine"}
    BY <1>8 DEF SearchAlternate, Working, Divided
  <2>2. PICK objective : \E other \in FoundUnder(objective) :
                          /\ division' = BetterOf(book, Strategy, other, division)
                          /\ seed' = BetterOf(book, "efficient", other, division)
    BY <1>8 DEF SearchAlternate
  <2>3. division' \in Plans(Requested) /\ seed' \in Plans(Requested)
    BY <1>1, <1>3, <2>1, <2>2, BetterIsOneOf
  <2>4. UNCHANGED <<asked, pass, book, clocked, kept, first>>
    BY <1>8 DEF SearchAlternate
  <2> QED BY <2>1, <2>3, <2>4, DivisionStep
<1>9. CASE PairExchangeRepair
  <2>1. stage \in Working /\ stage \in Divided /\ stage = "repair" /\ stage' = "repair" /\ division' = division
    BY <1>9 DEF PairExchangeRepair, Working, Divided
  <2>2. PICK p \in PairExchanges(seed) : seed' = BetterOf(book, Strategy, p, seed)
    BY <1>9 DEF PairExchangeRepair
  <2>3. p \in Plans(Requested)
    BY <1>2, <2>1, <2>2 DEF PairExchanges
  <2>4. seed' \in Plans(Requested)
    BY <1>1, <2>1, <2>2, <2>3, BetterIsOneOf
  <2>5. UNCHANGED <<asked, pass, book, clocked, kept, first>>
    BY <1>9 DEF PairExchangeRepair
  <2> QED BY <1>1, <2>1, <2>4, <2>5, DivisionStep
<1>10. CASE SolveFleetMilp
  <2>1. stage \in Working /\ stage \in Divided /\ stage = "repair" /\ stage' = "repair" /\ division' = division
    BY <1>10 DEF SolveFleetMilp, Working, Divided
  <2>2. PICK p \in clocked :
          seed' = IF ValidPlan(book.scores, p) THEN BetterOf(book, Strategy, p, seed) ELSE seed
    BY <1>10 DEF SolveFleetMilp
  <2>3. p \in Plans(Requested)
    BY <1>1, <2>1, <2>2
  <2>4. seed' \in Plans(Requested)
    BY <1>1, <2>1, <2>2, <2>3, BetterIsOneOf
  <2>5. UNCHANGED <<asked, pass, book, clocked, kept, first>>
    BY <1>10 DEF SolveFleetMilp
  <2> QED BY <1>1, <2>1, <2>4, <2>5, DivisionStep
<1>11. CASE EndRecovery
  <2>1. stage \in Working /\ stage \in Divided /\ stage = "repair" /\ stage' = "refine"
        /\ division' = BetterOf(book, Strategy, seed, division)
    BY <1>11 DEF EndRecovery, Working, Divided
  <2>2. division' \in Plans(Requested)
    BY <1>1, <2>1, BetterIsOneOf
  <2>3. UNCHANGED <<asked, pass, book, clocked, kept, first>>
    BY <1>11 DEF EndRecovery
  <2> QED BY <2>1, <2>2, <2>3, DivisionStep
<1>12. CASE RefineAll
  <2>1. stage \in Working /\ stage \in Divided /\ stage' \in {"refused", "time", "engines"}
        /\ division' = RefineRoutes(Strategy, book.fleet, book.scores, division)
    BY <1>12 DEF RefineAll, Working, Divided
  <2>2. division' \in Plans(Requested)
    BY <1>1, <2>1, RefinedIsPlan
  <2>3. UNCHANGED <<asked, pass, book, clocked, kept, first>>
    BY <1>12 DEF RefineAll
  <2> QED BY <2>1, <2>2, <2>3, DivisionStep
<1>13. CASE EndEngines
  <2>1. stage \in Working /\ stage \in Divided /\ stage' = "time" /\ division' = division
    BY <1>13 DEF EndEngines, Working, Divided
  <2>2. UNCHANGED <<asked, pass, book, clocked, kept, first>>
    BY <1>13 DEF EndEngines
  <2> QED BY <1>1, <2>1, <2>2, DivisionStep
<1>14. CASE stage = "engines" /\ \E proposal \in clocked : Improve(proposal)
  <2>1. stage \in Working /\ stage \in Divided /\ stage' = "engines"
    BY <1>14 DEF Improve, Working, Divided
  <2>2. PICK proposal \in clocked : Improve(proposal)
    BY <1>14
  <2> DEFINE refined == RefineRoutes(Strategy, book.fleet, book.scores, proposal)
  <2>3. refined \in Plans(Requested)
    BY <1>1, <2>1, <2>2, RefinedIsPlan
  <2>4. division' = IF ValidPlan(book.scores, proposal) THEN BetterOf(book, Strategy, refined, division) ELSE division
    BY <2>2 DEF Improve
  <2> HIDE DEF refined
  <2>5. division' \in Plans(Requested)
    BY <1>1, <2>1, <2>3, <2>4, BetterIsOneOf
  <2>6. UNCHANGED <<asked, pass, book, clocked, kept, first>>
    BY <2>2 DEF Improve
  <2> QED BY <2>1, <2>5, <2>6, DivisionStep
<1> QED BY <1>4, <1>5, <1>6, <1>7, <1>8, <1>9, <1>10, <1>11, <1>12, <1>13, <1>14

(* An attempt begins with the fleet of the request, tightened.              *)
LEMMA BeginKeeps ==
  ASSUME ReplanInv, Begin
  PROVE  ReplanInv'
<1>1. UNCHANGED <<asked, pass, division, seed, offer, first>> /\ stage = "begin"
  BY DEF Begin
<1>2. Requested' = Requested /\ Reachable' = Reachable
  BY <1>1, RequestStays
<1>3. Asked'
  BY <1>1 DEF ReplanInv, Asked
<1>4. CASE Reachable = <<>>
  <2>1. stage' = "answered"
    BY <1>4 DEF Begin
  <2>2. first = <<>>
    BY <1>4 DEF ReplanInv, AttemptsAreReachable
  <2> QED BY <1>1, <1>3, <2>1, <2>2
        DEF ReplanInv, AttemptsAreReachable, BookIsOfAttempt, DivisionIsPlan, OfferIsShown, KeptIsNoWorse,
            Working, Divided
<1>5. CASE Reachable # <<>>
  <2>1. stage' = "divide" /\ book' = Book(Tightened(Requested, pass))
        /\ clocked' = Clocked(Tightened(Requested, pass)) /\ kept' = kept
    BY <1>5 DEF Begin
  <2>2. clocked' \subseteq Plans(Requested)
    BY <2>1, ClockedIs DEF ReplanInv
  <2>3. AttemptsAreReachable'
    BY <1>2, <1>5 DEF AttemptsAreReachable
  <2>4. BookIsOfAttempt'
    BY <1>1, <1>2, <2>1, <2>2 DEF BookIsOfAttempt
  <2>5. DivisionIsPlan' /\ OfferIsShown'
    BY <2>1 DEF DivisionIsPlan, OfferIsShown, Divided
  <2>6. KeptIsNoWorse'
    BY <1>1, <1>2, <2>1 DEF ReplanInv, KeptIsNoWorse
  <2> QED BY <1>3, <2>3, <2>4, <2>5, <2>6 DEF ReplanInv
<1> QED BY <1>4, <1>5

(* A step that makes the offer of an attempt.                               *)
LEMMA OfferStep ==
  ASSUME ReplanInv, UNCHANGED <<asked, pass, book, clocked, division, kept, first>>, stage \in Divided,
         stage' \in {"traffic", "judge"}, IsOffer(Requested, offer')
  PROVE  ReplanInv'
<1>1. Requested' = Requested /\ Reachable' = Reachable
  BY RequestStays
<1>2. stage \in Working
  BY DEF Divided
<1>3. Asked'
  BY DEF ReplanInv, Asked
<1>4. AttemptsAreReachable'
  BY <1>1, <1>2 DEF ReplanInv, AttemptsAreReachable
<1>5. BookIsOfAttempt'
  BY <1>1, <1>2 DEF ReplanInv, BookIsOfAttempt
<1>6. DivisionIsPlan'
  BY <1>1 DEF ReplanInv, DivisionIsPlan
<1>7. OfferIsShown'
  BY <1>1 DEF OfferIsShown
<1>8. KeptIsNoWorse'
  BY <1>1 DEF ReplanInv, KeptIsNoWorse
<1> QED BY <1>3, <1>4, <1>5, <1>6, <1>7, <1>8 DEF ReplanInv

(* The routes with their times are an offer.                                *)
LEMMA TimeKeeps ==
  ASSUME ReplanInv, TimeAll
  PROVE  ReplanInv'
<1>1. UNCHANGED <<asked, pass, book, clocked, division, kept, first>> /\ stage \in Divided /\ stage' = "traffic"
  BY DEF TimeAll, Divided, Working
<1>2. Asked /\ division \in Plans(Requested)
  BY <1>1 DEF ReplanInv, DivisionIsPlan
<1>3. IsFleet(Requested)
  BY <1>2, RequestedTyped DEF Asked
<1> DEFINE D == {u \in DOMAIN division : division[u] # <<>>}
           timed == [t \in D |-> Timed(Problem(Final, t), division[t])]
<1>4. IsFleet(Final) /\ Final.stops = Requested.stops /\ Final.trucks = Requested.trucks
  <2>1. pass.rate \in Nat
    BY <1>2 DEF Asked
  <2> QED BY <1>3, <2>1, SlowerTyped DEF Final, Restored
<1>5. ASSUME NEW t \in D PROVE t \in Trucks(Requested) /\ Timed(Problem(Final, t), division[t]) \in Route(Requested)
  <2>1. t \in Trucks(Requested) /\ division[t] \in OrdersWithin(Jobs(Requested)) /\ division[t] # <<>>
    BY <1>2 DEF Plans
  <2>2. t \in Trucks(Final)
    BY <1>4, <2>1 DEF Trucks
  <2>3. IsProblem(Problem(Final, t)) /\ Problem(Final, t).stops = Requested.stops /\ Problem(Final, t).leave \in Nat
    BY <1>4, <2>2, ProblemTyped
  <2> QED BY <1>3, <2>1, <2>3, TimedTyped
<1>6. IsOffer(Requested, timed)
  <2>1. DOMAIN timed = D
    OBVIOUS
  <2>2. \A t \in D : t \in Trucks(Requested) /\ timed[t] \in Route(Requested)
    BY <1>5
  <2>3. timed \in [D -> Route(Requested)]
    BY <1>5
  <2> HIDE DEF timed, D
  <2> QED BY <2>1, <2>2, <2>3 DEF IsOffer
<1>7. offer' = Standing(timed)
  BY DEF TimeAll
<1> HIDE DEF timed, D
<1>8. IsOffer(Requested, Standing(timed))
  <2> DEFINE S == {u \in DOMAIN timed : Stands(u, timed[u])}
  <2>1. S \subseteq DOMAIN timed /\ Standing(timed) = [t \in S |-> timed[t]]
    BY DEF Standing
  <2>2. \A t \in S : t \in Trucks(Requested) /\ timed[t] \in Route(Requested)
    BY <1>6, <2>1 DEF IsOffer
  <2> HIDE DEF S
  <2>3. DOMAIN Standing(timed) = S /\ Standing(timed) \in [S -> Route(Requested)]
    BY <2>1, <2>2
  <2> QED BY <2>2, <2>3 DEF IsOffer
<1> QED BY <1>1, <1>7, <1>8, OfferStep

(* The routes with the traffic are an offer.                                *)
LEMMA TrafficKeeps ==
  ASSUME ReplanInv, TrafficAll
  PROVE  ReplanInv'
<1>1. UNCHANGED <<asked, pass, book, clocked, division, kept, first>> /\ stage \in Divided /\ stage' = "judge"
      /\ stage = "traffic"
  BY DEF TrafficAll, Divided, Working
<1>2. Asked /\ IsOffer(Requested, offer)
  BY <1>1 DEF ReplanInv, OfferIsShown
<1>3. IsFleet(Requested)
  BY <1>2, RequestedTyped DEF Asked
<1> DEFINE D == DOMAIN offer
<1>4. PICK rate \in [D -> Rates], again \in Rates :
        offer' \in OneOfEach([t \in D |->
          SecondPass(t, offer[t], PreviewTraffic(t, offer[t], rate[t]), TravelFactor(rate[t]), again)])
  BY DEF TrafficAll
<1>5. \A t \in D : t \in Trucks(Requested) /\ offer[t] \in Route(Requested)
  BY <1>2 DEF IsOffer
<1> DEFINE shown == [t \in D |->
             SecondPass(t, offer[t], PreviewTraffic(t, offer[t], rate[t]), TravelFactor(rate[t]), again)]
<1> HIDE DEF D
<1>6. ASSUME NEW t \in D PROVE shown[t] \subseteq Route(Requested)
  <2>1. rate[t] \in Nat /\ again \in Nat
    BY PreviewAssumption
  <2>2. PreviewTraffic(t, offer[t], rate[t]) \in Route(Requested) /\ TravelFactor(rate[t]) \in Nat
    BY <1>2, <1>5, <2>1, PreviewTrafficTyped, TravelFactorTyped
  <2> QED BY <1>2, <1>5, <2>1, <2>2, SecondPassTyped
<1>7. DOMAIN shown = D /\ offer' \in OneOfEach(shown)
  BY <1>4
<1> HIDE DEF shown
<1>8. DOMAIN offer' = D /\ (\A t \in D : offer'[t] \in shown[t]) /\ offer' = [t \in D |-> offer'[t]]
  BY <1>7 DEF OneOfEach
<1>9. IsOffer(Requested, offer')
  <2>1. \A t \in D : offer'[t] \in Route(Requested)
    BY <1>6, <1>8
  <2>2. D \subseteq Trucks(Requested)
    BY <1>5
  <2> QED BY <1>8, <2>1, <2>2 DEF IsOffer
<1> QED BY <1>1, <1>9, OfferStep

(* A judgement of an attempt, as the invariant asks: the attempt that is    *)
(* kept is not worse than the first, and the next is tightened by natural   *)
(* numbers.                                                                 *)
LEMMA JudgeStep ==
  ASSUME ReplanInv, asked' = asked, stage = "judge", stage' \in {"answered", "begin"},
         pass' \in [rate : Nat, buffer : Nat, shift : Nat], pass'.rate >= 1, KeptIsNoWorse'
  PROVE  ReplanInv'
<1>1. Requested' = Requested /\ Reachable' = Reachable
  BY RequestStays
<1>2. stage \in Working /\ stage' \notin Working /\ stage' \notin Divided
  BY DEF Working, Divided
<1>3. Asked'
  BY DEF ReplanInv, Asked
<1>4. AttemptsAreReachable'
  BY <1>1, <1>2 DEF ReplanInv, AttemptsAreReachable
<1>5. BookIsOfAttempt' /\ DivisionIsPlan' /\ OfferIsShown'
  BY <1>2 DEF BookIsOfAttempt, DivisionIsPlan, OfferIsShown
<1> QED BY <1>3, <1>4, <1>5 DEF ReplanInv

(* The first attempt is not worse than itself.                              *)
LEMMA JudgeFirstKeeps ==
  ASSUME ReplanInv, JudgeFirst
  PROVE  ReplanInv'
<1>1. stage = "judge" /\ asked' = asked /\ kept' = This /\ first' = This /\ offer' = offer
      /\ stage' \in {"answered", "begin"}
  BY DEF JudgeFirst
<1>2. Asked /\ IsOffer(Requested, offer)
  BY <1>1 DEF ReplanInv, OfferIsShown
<1>3. IsFleet(Requested)
  BY <1>2, RequestedTyped DEF Asked
<1>4. Delay(offer) \in KeysOf(2) /\ Served(OrdersOfOffer(offer)) \in Int
  BY <1>2, <1>3, DelayTyped
<1>5. ~Before(Delay(offer), Delay(offer))
  BY <1>4, BeforeIrreflexive
<1>6. KeptIsNoWorse'
  <2>1. Requested' = Requested /\ first'.offer = offer /\ kept'.offer = offer
    BY <1>1, RequestStays DEF This
  <2> QED BY <1>2, <1>4, <1>5, <2>1 DEF KeptIsNoWorse
<1>7. pass' \in [rate : Nat, buffer : Nat, shift : Nat] /\ pass'.rate >= 1
  <2>1. CASE pass' = pass
    BY <1>2, <2>1 DEF Asked
  <2>2. CASE pass' # pass
    <3>1. pass' = [rate |-> MostFactor(offer), buffer |-> 0, shift |-> ShiftBuffer(offer)]
      BY <2>2 DEF JudgeFirst
    <3>2. MostFactor(offer) \in Int /\ 1 <= MostFactor(offer)
      BY <1>2, <1>3, GreatestOfOffer
    <3>3. ShiftBuffer(offer) \in Nat
      BY <1>2, <1>3, BuffersTyped
    <3> QED BY <3>1, <3>2, <3>3
  <2> QED BY <2>1, <2>2
<1> QED BY <1>1, <1>6, <1>7, JudgeStep

(* Another attempt is kept only if it serves as many, and fewer late.       *)
LEMMA JudgeAgainKeeps ==
  ASSUME ReplanInv, JudgeAgain
  PROVE  ReplanInv'
<1>1. stage = "judge" /\ asked' = asked /\ first' = first /\ first # <<>> /\ stage' \in {"answered", "begin"}
      /\ kept' = IF Improved(This, kept) THEN This ELSE kept
  BY DEF JudgeAgain
<1>2. /\ Asked /\ IsOffer(Requested, offer)
      /\ IsOffer(Requested, first.offer) /\ IsOffer(Requested, kept.offer)
      /\ Served(OrdersOfOffer(kept.offer)) >= Served(OrdersOfOffer(first.offer))
      /\ ~Before(Delay(first.offer), Delay(kept.offer))
  BY <1>1 DEF ReplanInv, OfferIsShown, KeptIsNoWorse
<1>3. IsFleet(Requested)
  BY <1>2, RequestedTyped DEF Asked
<1>4. /\ Delay(offer) \in KeysOf(2) /\ Served(OrdersOfOffer(offer)) \in Int
      /\ Delay(first.offer) \in KeysOf(2) /\ Served(OrdersOfOffer(first.offer)) \in Int
      /\ Delay(kept.offer) \in KeysOf(2) /\ Served(OrdersOfOffer(kept.offer)) \in Int
  BY <1>2, <1>3, DelayTyped
<1>5. Requested' = Requested
  BY <1>1, RequestStays
<1>6. KeptIsNoWorse'
  <2>1. CASE Improved(This, kept)
    <3>1. kept' = This /\ This.offer = offer
      BY <1>1, <2>1 DEF This
    <3>2. Served(OrdersOfOffer(offer)) >= Served(OrdersOfOffer(kept.offer)) /\ Before(Delay(offer), Delay(kept.offer))
      BY <2>1, <3>1 DEF Improved
    <3>3. Served(OrdersOfOffer(offer)) >= Served(OrdersOfOffer(first.offer))
      BY <1>2, <1>4, <3>2
    <3>4. ~Before(Delay(first.offer), Delay(offer))
      <4>1. Before(Delay(first.offer), Delay(offer)) => Before(Delay(first.offer), Delay(kept.offer))
        BY <1>4, <3>2, BeforeTransitive
      <4> QED BY <1>2, <4>1
    <3>5. kept'.offer = offer
      BY <3>1
    <3> QED BY <1>1, <1>2, <1>5, <3>3, <3>4, <3>5 DEF KeptIsNoWorse
  <2>2. CASE ~Improved(This, kept)
    <3>1. kept' = kept
      BY <1>1, <2>2
    <3> QED BY <1>1, <1>2, <1>5, <3>1 DEF KeptIsNoWorse
  <2> QED BY <2>1, <2>2
<1>7. pass' \in [rate : Nat, buffer : Nat, shift : Nat] /\ pass'.rate >= 1
  <2>1. CASE pass' = pass
    BY <1>2, <2>1 DEF Asked
  <2>2. CASE pass' # pass
    <3>1. pass' = [pass EXCEPT !.buffer = ReplanBuffer(first.offer)]
      BY <2>2 DEF JudgeAgain
    <3>2. ReplanBuffer(first.offer) \in Nat
      BY <1>2, <1>3, BuffersTyped
    <3> QED BY <1>2, <3>1, <3>2 DEF Asked
  <2> QED BY <2>1, <2>2
<1> QED BY <1>1, <1>6, <1>7, JudgeStep

-----------------------------------------------------------------------------

ProposalSpec == ProposalInit /\ [][ProposalNext]_proposalVars

(* Before the first division nothing is worse.                              *)
LEMMA ReplanBegins == ProposalInit => ReplanInv
<1> SUFFICES ASSUME ProposalInit PROVE ReplanInv
  OBVIOUS
<1>1. asked.fleet \in DOMAIN Fleets /\ asked.strategy \in Strategies /\ pass = Loose /\ stage = "begin" /\ first = <<>>
  BY DEF ProposalInit
<1>2. Asked
  BY <1>1 DEF Asked, Loose
<1> QED BY <1>1, <1>2
      DEF ReplanInv, AttemptsAreReachable, BookIsOfAttempt, DivisionIsPlan, OfferIsShown, KeptIsNoWorse,
          Working, Divided

(* No step makes it worse.                                                  *)
LEMMA ReplanKeeps == ReplanInv /\ [ProposalNext]_proposalVars => ReplanInv'
<1> SUFFICES ASSUME ReplanInv, [ProposalNext]_proposalVars PROVE ReplanInv'
  OBVIOUS
<1>1. CASE UNCHANGED proposalVars
  <2>1. UNCHANGED <<asked, pass, stage, book, clocked, division, seed, offer, kept, first>>
    BY <1>1 DEF proposalVars
  <2>2. Requested' = Requested /\ Reachable' = Reachable
    BY <2>1, RequestStays
  <2>3. Asked' /\ AttemptsAreReachable' /\ BookIsOfAttempt'
    BY <2>1, <2>2 DEF ReplanInv, Asked, AttemptsAreReachable, BookIsOfAttempt
  <2>4. DivisionIsPlan' /\ OfferIsShown' /\ KeptIsNoWorse'
    BY <2>1, <2>2 DEF ReplanInv, DivisionIsPlan, OfferIsShown, KeptIsNoWorse
  <2> QED BY <2>3, <2>4 DEF ReplanInv
<1>2. CASE Begin
  BY <1>2, BeginKeeps
<1>3. CASE \/ Assign \/ Search \/ SearchDistance \/ SkipRecovery \/ SearchAlternate
           \/ PairExchangeRepair \/ SolveFleetMilp \/ EndRecovery \/ RefineAll \/ EndEngines
           \/ stage = "engines" /\ \E proposal \in clocked : Improve(proposal)
  BY <1>3, DividingKeeps
<1>4. CASE TimeAll
  BY <1>4, TimeKeeps
<1>5. CASE TrafficAll
  BY <1>5, TrafficKeeps
<1>6. CASE JudgeFirst
  BY <1>6, JudgeFirstKeeps
<1>7. CASE JudgeAgain
  BY <1>7, JudgeAgainKeeps
<1> QED BY <1>1, <1>2, <1>3, <1>4, <1>5, <1>6, <1>7, Zenon DEF ProposalNext

(* Dividing a fleet again, with slower roads and tighter hours, answers     *)
(* with no fewer deliveries and no more delay than the first division: for  *)
(* every fleet, every traffic and whatever the searches and the engines     *)
(* find.                                                                    *)
THEOREM ReplanNeverWorsens == ProposalSpec => []ReplanIsNoWorse
<1>1. ReplanInv => ReplanIsNoWorse
  BY DEF ReplanInv, KeptIsNoWorse, ReplanIsNoWorse
<1> QED BY <1>1, ReplanBegins, ReplanKeeps, PTL DEF ProposalSpec

-----------------------------------------------------------------------------
(* What the search can work the driver can work.                            *)

(* When a route has a score.                                                *)
LEMMA ScoredIs ==
  ASSUME NEW p, IsProblem(p), p.limit \in Int, NEW order \in Seq(1 .. Len(p.stops))
  PROVE  Evaluate(p, order) # NoScore <=>
           /\ EvaluateFixedSequence(p, order, TRUE).violations <= 0
           /\ EvaluateFixedSequence(p, order, TRUE).minutes <= p.limit
<1> DEFINE r == EvaluateFixedSequence(p, order, TRUE)
           e == [km |-> r.km, minutes |-> r.minutes, cost |-> r.cost, work |-> r.work]
<1>1. r.violations \in Int /\ r.minutes \in Int
  BY EvaluateTyped DEF ReportSet
<1>2. Evaluate(p, order) = IF r.violations > 0 \/ r.minutes > p.limit THEN NoScore ELSE e
  BY DEF Evaluate, Accepted
<1>3. e # NoScore
  <2>1. "cost" \in DOMAIN e /\ "cost" \notin DOMAIN NoScore
    BY DEF NoScore
  <2> QED BY <2>1
<1> HIDE DEF r, e
<1>4. Evaluate(p, order) # NoScore <=> r.violations <= 0 /\ r.minutes <= p.limit
  BY <1>1, <1>2, <1>3
<1> QED BY <1>4 DEF r

(* The same departure, that may not move, is not stricter.                  *)
LEMMA FixedIsLooser ==
  ASSUME NEW p, IsProblem(p), p.leave \in Nat, AreBreaks(p.breaks)
  PROVE  IsLooser(At(p, p.leave), p)
<1> DEFINE q == At(p, p.leave)
<1>1. DOMAIN p = Fields
  BY DEF IsProblem
<1>2. /\ q.stops = p.stops /\ q.min = p.min /\ q.back = p.back /\ q.breaks = p.breaks /\ q.leave = p.leave
      /\ q.shift = p.shift
  BY <1>1 DEF At, Fields
<1>3. IsProblem(q)
  BY AtTyped
<1>4. Len(p.stops) \in Nat /\ \A i \in 1 .. Len(p.stops) : IsWider(p.stops[i], p.stops[i])
  BY ProblemIs DEF IsWider
<1>5. p.shift # <<>> => p.shift[2] \in Int
  BY DEF IsProblem
<1> HIDE DEF q
<1>6. p.shift # <<>> => q.shift[1] = p.shift[1] /\ p.shift[2] <= q.shift[2]
  BY <1>2, <1>5
<1>7. IsLooser(q, p)
  BY <1>2, <1>3, <1>4, <1>6 DEF IsLooser
<1> QED BY <1>7 DEF q

(* A route that can be worked can be worked from the departure it is given. *)
LEMMA TimedStands ==
  ASSUME NEW p, IsProblem(p), p.leave \in Nat, p.limit \in Int, AreBreaks(p.breaks),
         NEW order \in Seq(1 .. Len(p.stops)), Evaluate(p, order) # NoScore
  PROVE  Evaluate(At(p, Timed(p, order).leave), order) # NoScore
<1> DEFINE leave == LaterDeparture(p, order, TRUE)
           q == At(p, leave)
           base == EvaluateFixedSequence(p, order, TRUE)
           r == EvaluateFixedSequence(q, order, TRUE)
<1>1. Timed(p, order).leave = leave
  BY DEF Timed
<1>2. leave \in Nat /\ IsKept(p, order, TRUE, leave)
  BY LaterTyped
<1>3. base.violations <= 0 /\ base.minutes <= p.limit
  BY ScoredIs
<1> HIDE DEF leave
<1>4. IsProblem(q) /\ q.stops = p.stops
  BY <1>2, AtTyped
<1>5. q.limit = p.limit
  BY DEF At, IsProblem, Fields
<1>6. base \in ReportSet /\ r \in ReportSet
  <2> HIDE DEF q
  <2> QED BY <1>4, EvaluateTyped DEF base, r
<1>7. base.minutes \in Int /\ r.minutes \in Int
  BY <1>6 DEF ReportSet
<1>8. r.violations <= 0 /\ r.minutes <= base.minutes
  <2>1. CASE leave = p.leave
    <3>1. q = At(p, p.leave) /\ IsLooser(At(p, p.leave), p)
      BY <2>1, FixedIsLooser
    <3> HIDE DEF q
    <3> QED BY <1>3, <3>1, LooserWorks
  <2>2. CASE leave # p.leave
    <3>1. r.violations = 0 /\ r.minutes < base.minutes
      BY <1>2, <2>2 DEF IsKept
    <3> HIDE DEF r, base
    <3> QED BY <1>7, <3>1
  <2> QED BY <2>1, <2>2
<1> HIDE DEF base, r, q
<1>9. r.minutes <= q.limit /\ q.limit \in Int
  BY <1>3, <1>5, <1>7, <1>8
<1>10. Evaluate(q, order) # NoScore
  BY <1>4, <1>8, <1>9, ScoredIs DEF r
<1> QED BY <1>1, <1>10 DEF q

(* The time that is free is a number.                                       *)
LEMMA FreeTimeTyped ==
  ASSUME NEW booked, NEW start \in Nat
  PROVE  FreeTime(booked, start) \in Int
<1> DEFINE Free(length) == \A b \in booked : ~(start < b.close /\ b.open < start + length)
           Middle(low, high) == (low + high + 1) \div 2
           H == 0 .. DayEnd
           D == H \X H
           E(g) == g = [x \in D |->
                          IF x[1] >= x[2] THEN x[1]
                          ELSE IF Free(Middle(x[1], x[2])) THEN g[<<Middle(x[1], x[2]), x[2]>>]
                               ELSE g[<<x[1], Middle(x[1], x[2]) - 1>>]]
           near == CHOOSE g : E(g)
           m == [x \in D |-> IF x[1] < x[2] THEN x[2] - x[1] ELSE 0]
           Phi == [gx \in [D -> Int] \X D |->
                     LET x == gx[2] IN
                     IF x[1] >= x[2] THEN x[1]
                     ELSE IF Free(Middle(x[1], x[2])) THEN gx[1][<<Middle(x[1], x[2]), x[2]>>]
                          ELSE gx[1][<<x[1], Middle(x[1], x[2]) - 1>>]]
<1>1. FreeTime(booked, start) = near[<<0, Greater(0, DayEnd - start)>>]
  BY DEF FreeTime
<1> HIDE DEF Free
<1>2. DayEnd \in Nat
  BY GridAssumption
<1>3. \A x, y \in H : x < y => /\ Middle(x, y) \in H /\ x < Middle(x, y) /\ Middle(x, y) <= y
                               /\ Middle(x, y) - 1 \in H
  <2> SUFFICES ASSUME NEW x \in H, NEW y \in H, x < y
               PROVE  Middle(x, y) \in H /\ x < Middle(x, y) /\ Middle(x, y) <= y /\ Middle(x, y) - 1 \in H
    OBVIOUS
  <2> DEFINE z == Middle(x, y)
  <2>1. z \in Int /\ 2 * z <= x + y + 1 /\ x + y + 1 < 2 * z + 2
    BY <1>2
  <2> HIDE DEF z
  <2>2. z \in H /\ x < z /\ z <= y /\ z - 1 \in H
    BY <1>2, <2>1
  <2> QED BY <2>2 DEF z
<1> HIDE DEF Middle
<1>4. \A x \in D : x[1] \in H /\ x[2] \in H /\ x = <<x[1], x[2]>>
  OBVIOUS
<1>5. \A x \in D : x[1] < x[2] =>
        /\ <<Middle(x[1], x[2]), x[2]>> \in D /\ <<x[1], Middle(x[1], x[2]) - 1>> \in D
        /\ m[<<Middle(x[1], x[2]), x[2]>>] < m[x] /\ m[<<x[1], Middle(x[1], x[2]) - 1>>] < m[x]
  <2> SUFFICES ASSUME NEW x \in D, x[1] < x[2]
               PROVE  /\ <<Middle(x[1], x[2]), x[2]>> \in D /\ <<x[1], Middle(x[1], x[2]) - 1>> \in D
                      /\ m[<<Middle(x[1], x[2]), x[2]>>] < m[x] /\ m[<<x[1], Middle(x[1], x[2]) - 1>>] < m[x]
    OBVIOUS
  <2> DEFINE z == Middle(x[1], x[2])
  <2>1. z \in H /\ x[1] < z /\ z <= x[2] /\ z - 1 \in H /\ x[1] \in H /\ x[2] \in H
    BY <1>3, <1>4
  <2> HIDE DEF z
  <2>2. <<z, x[2]>> \in D /\ <<x[1], z - 1>> \in D
    BY <2>1
  <2>3. /\ m[x] = x[2] - x[1]
        /\ m[<<z, x[2]>>] = (IF z < x[2] THEN x[2] - z ELSE 0)
        /\ m[<<x[1], z - 1>>] = (IF x[1] < z - 1 THEN (z - 1) - x[1] ELSE 0)
    <3> HIDE DEF H
    <3> QED BY <2>2
  <2>4. m[<<z, x[2]>>] < m[x] /\ m[<<x[1], z - 1>>] < m[x]
    BY <1>2, <2>1, <2>3
  <2> QED BY <2>2, <2>4 DEF z
<1>6. \A x \in D : x[1] \in Int /\ x[2] \in Int /\ (x[1] < x[2] \/ x[1] >= x[2])
  BY <1>2
<1> HIDE DEF H
<1>7. Phi \in [[D -> Int] \X D -> Int]
  <2> SUFFICES ASSUME NEW gx \in [D -> Int] \X D
               PROVE  (IF gx[2][1] >= gx[2][2] THEN gx[2][1]
                       ELSE IF Free(Middle(gx[2][1], gx[2][2])) THEN gx[1][<<Middle(gx[2][1], gx[2][2]), gx[2][2]>>]
                            ELSE gx[1][<<gx[2][1], Middle(gx[2][1], gx[2][2]) - 1>>]) \in Int
    BY Zenon
  <2> DEFINE x == gx[2]
             g == gx[1]
  <2>1. x \in D /\ g \in [D -> Int]
    OBVIOUS
  <2> HIDE DEF x, g, D
  <2>2. x[1] < x[2] => g[<<Middle(x[1], x[2]), x[2]>>] \in Int /\ g[<<x[1], Middle(x[1], x[2]) - 1>>] \in Int
    BY <1>5, <2>1
  <2>3. x[1] \in Int /\ (x[1] < x[2] \/ x[1] >= x[2])
    BY <1>6, <2>1
  <2>4. (IF x[1] >= x[2] THEN x[1]
         ELSE IF Free(Middle(x[1], x[2])) THEN g[<<Middle(x[1], x[2]), x[2]>>]
              ELSE g[<<x[1], Middle(x[1], x[2]) - 1>>]) \in Int
    BY <2>2, <2>3
  <2> QED BY <2>4 DEF x, g
<1>8. \A g, h \in [D -> Int], x \in D :
        (\A y \in D : m[y] < m[x] => g[y] = h[y]) => Phi[<<g, x>>] = Phi[<<h, x>>]
  <2> SUFFICES ASSUME NEW g \in [D -> Int], NEW h \in [D -> Int], NEW x \in D, \A y \in D : m[y] < m[x] => g[y] = h[y]
               PROVE  Phi[<<g, x>>] = Phi[<<h, x>>]
    BY Zenon
  <2> HIDE DEF D, m
  <2>1. x[1] < x[2] => /\ g[<<Middle(x[1], x[2]), x[2]>>] = h[<<Middle(x[1], x[2]), x[2]>>]
                       /\ g[<<x[1], Middle(x[1], x[2]) - 1>>] = h[<<x[1], Middle(x[1], x[2]) - 1>>]
    BY <1>5
  <2>2. x[1] < x[2] \/ x[1] >= x[2]
    BY <1>6
  <2> QED BY <2>1, <2>2
<1>9. Descends(D, Int, 0, m, DayEnd, Phi)
  <2>1. \A x \in D : m[x] \in Nat /\ m[x] <= DayEnd
    <3> SUFFICES ASSUME NEW x \in D PROVE m[x] \in Nat /\ m[x] <= DayEnd
      OBVIOUS
    <3>1. x[1] \in 0 .. DayEnd /\ x[2] \in 0 .. DayEnd
      BY <1>4 DEF H
    <3>2. m[x] = IF x[1] < x[2] THEN x[2] - x[1] ELSE 0
      OBVIOUS
    <3> HIDE DEF m
    <3> QED BY <1>2, <3>1, <3>2
  <2>2. m = [x \in D |-> m[x]]
    OBVIOUS
  <2> HIDE DEF m, Phi, D
  <2>3. m \in [D -> Nat]
    BY <2>1, <2>2
  <2>4. 0 \in Int
    OBVIOUS
  <2> QED BY <1>2, <1>7, <1>8, <2>1, <2>3, <2>4, Zenon DEF Descends
<1>10. PICK h \in [D -> Int] : \A x \in D : h[x] = Phi[<<h, x>>]
  <2>1. Solvable(D, Int, Phi)
    <3> HIDE DEF D, m, Phi
    <3> QED BY <1>9, MeasuredRecursion
  <2> HIDE DEF D, m, Phi
  <2> QED BY <2>1 DEF Solvable
<1> HIDE DEF m
<1>11. E(h)
  <2>1. \A x \in D : h[x] = IF x[1] >= x[2] THEN x[1]
                          ELSE IF Free(Middle(x[1], x[2])) THEN h[<<Middle(x[1], x[2]), x[2]>>]
                               ELSE h[<<x[1], Middle(x[1], x[2]) - 1>>]
    BY <1>10
  <2> HIDE DEF D, Phi
  <2> QED BY <2>1
<1>12. E(near)
  <2> HIDE DEF D, Phi
  <2> QED BY <1>11
<1>13. \A x \in D : near[x] = IF x[1] >= x[2] THEN x[1]
                          ELSE IF Free(Middle(x[1], x[2])) THEN near[<<Middle(x[1], x[2]), x[2]>>]
                               ELSE near[<<x[1], Middle(x[1], x[2]) - 1>>]
  <2> HIDE DEF D, Phi, near
  <2> QED BY <1>12
<1> HIDE DEF near
<1>14. D \subseteq {x \in D : near[x] \in Int}
  <2> DEFINE T == {x \in D : near[x] \in Int}
  <2>1. m \in [D -> Nat]
    <3> HIDE DEF D, Phi
    <3> QED BY <1>9 DEF Descends
  <2>2. ASSUME NEW x \in D, \A y \in D : m[y] < m[x] => y \in T PROVE x \in T
    <3> HIDE DEF D
    <3>1. x[1] < x[2] => /\ near[<<Middle(x[1], x[2]), x[2]>>] \in Int /\ near[<<x[1], Middle(x[1], x[2]) - 1>>] \in Int
      BY <1>5, <2>2
    <3>2. x[1] \in Int /\ (x[1] < x[2] \/ x[1] >= x[2])
      BY <1>6
    <3>3. near[x] \in Int
      BY <1>13, <3>1, <3>2
    <3> QED BY <3>3
  <2> HIDE DEF T, D
  <2>3. D \subseteq T
    BY <2>1, <2>2, MeasuredInduction
  <2> QED BY <2>3 DEF T
<1>15. <<0, Greater(0, DayEnd - start)>> \in D
  <2>1. Greater(0, DayEnd - start) \in 0 .. DayEnd
    BY <1>2 DEF Greater
  <2> QED BY <1>2, <2>1 DEF H
<1> HIDE DEF D
<1> QED BY <1>1, <1>14, <1>15

(* A stop is not stricter than itself with windows that close earlier.      *)
LEMMA ClosedEarlierIsStricter ==
  ASSUME NEW s, IsCall(s), NEW minutes \in Nat
  PROVE  IsWider(s, ClosedEarlier(s, minutes))
<1> DEFINE n == ClosedEarlier(s, minutes)
           Sooner(w) == Smaller(w.close, Greater(w.close - minutes, w.open + s.service))
           narrow == {[w EXCEPT !.close = Sooner(w)] : w \in s.windows}
<1>1. IsStop(s) /\ s.windows \subseteq WindowSet /\ s.service \in Nat /\ DOMAIN s = {"windows", "service", "load", "needs"}
  BY DEF IsCall, IsStop
<1>2. IsStop(n)
  <2>1. IsCall(n)
    BY ClosedEarlierTyped
  <2> QED BY <2>1 DEF IsCall
<1>3. n.windows = narrow /\ n.service = s.service
  BY <1>1 DEF ClosedEarlier
<1>4. \A w \in s.windows : /\ w.open \in Int /\ w.close \in Int /\ DOMAIN w = {"open", "close"}
                           /\ Sooner(w) \in Int /\ Sooner(w) <= w.close
  <2> SUFFICES ASSUME NEW w \in s.windows
               PROVE  /\ w.open \in Int /\ w.close \in Int /\ DOMAIN w = {"open", "close"}
                      /\ Sooner(w) \in Int /\ Sooner(w) <= w.close
    OBVIOUS
  <2>1. w.open \in Int /\ w.close \in Int /\ DOMAIN w = {"open", "close"}
    BY <1>1 DEF WindowSet
  <2>2. w.close - minutes \in Int /\ w.open + s.service \in Int
    BY <1>1, <2>1
  <2> DEFINE a == w.close - minutes
             b == w.open + s.service
  <2>3. Greater(a, b) \in Int
    <3> HIDE DEF a, b
    <3> QED BY <2>2, GreaterIs DEF a, b
  <2>4. Smaller(w.close, Greater(a, b)) \in Int /\ Smaller(w.close, Greater(a, b)) <= w.close
    <3> HIDE DEF a, b
    <3> QED BY <2>1, <2>3, GreaterIs
  <2> QED BY <2>1, <2>4
<1> HIDE DEF Sooner, n
<1>5. ASSUME NEW t \in Int, CanBegin(n, t) PROVE CanBegin(s, t)
  <2>1. CASE s.windows = {}
    BY <2>1 DEF CanBegin
  <2>2. CASE s.windows # {}
    <3>1. n.windows # {}
      <4>1. PICK w \in s.windows : TRUE
        BY <2>2
      <4>2. [w EXCEPT !.close = Sooner(w)] \in narrow
        OBVIOUS
      <4> HIDE DEF narrow
      <4> QED BY <1>3, <4>2
    <3>2. PICK v \in n.windows : v.open <= t /\ t + n.service <= v.close
      BY <1>5, <3>1 DEF CanBegin
    <3>3. PICK w \in s.windows : v = [w EXCEPT !.close = Sooner(w)]
      BY <1>3, <3>2
    <3>4. v.open = w.open /\ v.close = Sooner(w)
      BY <1>4, <3>3
    <3>5. w.open <= t /\ t + s.service <= w.close
      BY <1>1, <1>3, <1>4, <3>2, <3>4
    <3> QED BY <3>5 DEF CanBegin
  <2> QED BY <2>1, <2>2
<1>6. IsWider(s, n)
  BY <1>1, <1>2, <1>3, <1>5 DEF IsWider
<1> QED BY <1>6 DEF n

(* A vehicle has a number of minutes and breaks that are spells.            *)
LEMMA ProblemIsTimed ==
  ASSUME NEW f, IsFleet(f), NEW t \in Trucks(f)
  PROVE  Problem(f, t).limit \in Int /\ AreBreaks(Problem(f, t).breaks)
<1>1. WorkLimit(f, t) \in Int
  BY ResourceStartTyped, FreeTimeTyped DEF WorkLimit
<1>2. IsTruck(f.trucks[t])
  BY FleetIs
<1>3. f.trucks[t].breaks \in Seq(WindowSet) /\ \A i \in DOMAIN f.trucks[t].breaks : f.trucks[t].breaks[i].open < f.trucks[t].breaks[i].close
  BY <1>2 DEF IsTruck, IsSchedule
<1>4. AreBreaks(f.trucks[t].breaks)
  <2> DEFINE breaks == f.trucks[t].breaks
  <2>1. breaks \in Seq(WindowSet) /\ Len(breaks) \in Nat /\ \A k \in 1 .. Len(breaks) : breaks[k] \in WindowSet /\ breaks[k].open < breaks[k].close
    BY <1>3
  <2> HIDE DEF breaks
  <2>2. \A k \in 1 .. Len(breaks) : breaks[k].open \in Nat /\ breaks[k].close \in Nat
    BY <2>1 DEF WindowSet
  <2>3. \A k \in 1 .. Len(breaks) : breaks[k].open <= breaks[k].close
    BY <2>1, <2>2
  <2>4. AreBreaks(breaks)
    BY <2>1, <2>3 DEF AreBreaks
  <2> QED BY <2>4 DEF breaks
<1> QED BY <1>1, <1>4 DEF Problem

(* The search sees a stricter problem than the driver has.                  *)
LEMMA TightenedIsStricter ==
  ASSUME NEW f, IsFleet(f), NEW how, IsHow(how), NEW t \in Trucks(f)
  PROVE  /\ IsLooser(Problem(Restored(f, how), t), Problem(Tightened(f, how), t))
         /\ Problem(Restored(f, how), t).limit = Problem(Tightened(f, how), t).limit
<1> DEFINE g == Restored(f, how)
           h == Tightened(f, how)
           q == Problem(g, t)
           p == Problem(h, t)
           loose == f.trucks[t]
           short == ShortenedShift(loose, how.shift)
<1>1. how.rate \in Nat /\ how.buffer \in Nat /\ how.shift \in Nat
  BY DEF IsHow
<1>2. IsFleet(g) /\ g.stops = f.stops /\ g.trucks = f.trucks /\ g.leave = f.leave
  BY <1>1, SlowerTyped DEF Restored
<1>3. IsFleet(h) /\ Trucks(h) = Trucks(f) /\ Trucks(g) = Trucks(f)
  BY <1>2, TightenedTyped DEF Trucks
<1>4. DOMAIN f = {"stops", "km", "min", "back", "leave", "trucks"} /\ t \in DOMAIN f.trucks
  BY DEF IsFleet, Trucks
<1>5. g.min = Slower(f.min, how.rate) /\ g.back = f.back /\ g.km = f.km
  BY <1>4 DEF Restored
<1>6. /\ h.min = Slower(f.min, how.rate) /\ h.back = f.back /\ h.leave = f.leave
      /\ h.stops = [i \in DOMAIN f.stops |-> ClosedEarlier(f.stops[i], how.buffer)]
      /\ h.trucks = [u \in DOMAIN f.trucks |-> ShortenedShift(f.trucks[u], how.shift)]
  BY <1>4 DEF Tightened
<1>7. h.trucks[t] = short /\ g.trucks[t] = loose
  BY <1>2, <1>4, <1>6
<1>8. IsTruck(loose)
  BY FleetIs
<1>9. IsShortened(short, loose) /\ IsTruck(short)
  <2> HIDE DEF loose
  <2> QED BY <1>1, <1>8, ShortenedShiftTyped
<1> HIDE DEF loose, short
<1>10. IsProblem(q) /\ q.stops = g.stops /\ IsProblem(p) /\ p.stops = h.stops
  <2> HIDE DEF g, h
  <2> QED BY <1>2, <1>3, ProblemTyped
<1>11. AreBreaks(p.breaks)
  <2> HIDE DEF h
  <2> QED BY <1>3, ProblemIsTimed
<1>12. Len(f.stops) \in Nat /\ DOMAIN f.stops = 1 .. Len(f.stops) /\ \A i \in DOMAIN f.stops : IsCall(f.stops[i])
  BY DEF IsFleet
<1> HIDE DEF g, h
<1>13. Len(q.stops) = Len(p.stops) /\ Len(p.stops) = Len(f.stops)
  BY <1>2, <1>6, <1>10, <1>12
<1>14. \A i \in 1 .. Len(p.stops) : IsWider(q.stops[i], p.stops[i])
  <2> SUFFICES ASSUME NEW i \in 1 .. Len(p.stops) PROVE IsWider(q.stops[i], p.stops[i])
    OBVIOUS
  <2>1. i \in DOMAIN f.stops
    BY <1>12, <1>13
  <2>2. q.stops[i] = f.stops[i] /\ p.stops[i] = ClosedEarlier(f.stops[i], how.buffer) /\ IsCall(f.stops[i])
    BY <1>2, <1>6, <1>10, <1>12, <2>1
  <2> HIDE DEF p, q
  <2> QED BY <1>1, <2>2, ClosedEarlierIsStricter
<1>15. ResourceStart(g, t) = ResourceStart(h, t)
  BY <1>2, <1>6, <1>7, <1>9 DEF ResourceStart, IsShortened
<1>16. q.limit = p.limit
  BY <1>7, <1>9, <1>15 DEF Problem, WorkLimit, IsShortened
<1>17. q.min = p.min /\ q.back = p.back /\ q.breaks = p.breaks /\ q.leave = p.leave
  BY <1>5, <1>6, <1>7, <1>9, <1>15 DEF Problem, IsShortened
<1>18. q.shift = loose.shift /\ p.shift = short.shift
  BY <1>7 DEF Problem
<1> HIDE DEF p, q
<1>19. /\ p.shift = <<>> => q.shift = <<>>
       /\ p.shift # <<>> => q.shift[1] = p.shift[1] /\ p.shift[2] <= q.shift[2]
  BY <1>9, <1>18 DEF IsShortened
<1>20. IsLooser(q, p)
  BY <1>10, <1>11, <1>13, <1>14, <1>17, <1>19 DEF IsLooser
<1> QED BY <1>16, <1>20 DEF p, q, g, h

(* Vehicles that cannot be told apart have the same problem and carry the   *)
(* same.                                                                    *)
LEMMA AliasIsAlike ==
  ASSUME NEW f, IsFleet(f), NEW t \in Trucks(f)
  PROVE  Problem(f, Alias(f, t)) = Problem(f, t) /\ f.trucks[Alias(f, t)].capacity = f.trucks[t].capacity
<1> DEFINE u == Alias(f, t)
           same == {v \in Trucks(f) : Signature(f, v) = Signature(f, t)}
<1>1. Trucks(f) \subseteq Int /\ IsFiniteSet(Trucks(f))
  <2>1. Trucks(f) = 1 .. Len(f.trucks) /\ Len(f.trucks) \in Nat
    BY FleetIs
  <2>2. IsFiniteSet(1 .. Len(f.trucks))
    BY <2>1, FS_Interval
  <2> QED BY <2>1, <2>2
<1>2. same # {} /\ same \subseteq Trucks(f)
  OBVIOUS
<1>3. IsFiniteSet(same)
  BY <1>1, <1>2, FS_Subset
<1>4. u \in same
  <2> HIDE DEF same
  <2>1. Least(same) \in same
    BY <1>1, <1>2, <1>3, LeastIs
  <2> QED BY <2>1 DEF Alias, same
<1>5. Signature(f, u) = Signature(f, t)
  BY <1>4
<1> HIDE DEF u
<1>6. /\ f.trucks[u].shift = f.trucks[t].shift /\ f.trucks[u].breaks = f.trucks[t].breaks
      /\ f.trucks[u].capacity = f.trucks[t].capacity /\ WorkLimit(f, u) = WorkLimit(f, t)
  BY <1>5 DEF Signature
<1>7. ResourceStart(f, u) = ResourceStart(f, t)
  BY <1>6 DEF ResourceStart
<1>8. Problem(f, u) = Problem(f, t)
  BY <1>6, <1>7 DEF Problem
<1> QED BY <1>6, <1>8 DEF u

(* What the search can work, a driver can, from the departure he is given.  *)
LEMMA ScoredStands ==
  ASSUME NEW f, IsFleet(f), NEW how, IsHow(how), NEW t \in Trucks(f), NEW o \in OrdersWithin(Jobs(f)), o # <<>>,
         ScoresOf(Tightened(f, how))[t][o] # NoScore
  PROVE  LET p == Problem(Restored(f, how), t)
         IN Evaluate(At(p, Timed(p, o).leave), o) # NoScore
<1> DEFINE g == Restored(f, how)
           h == Tightened(f, how)
           q == Problem(g, t)
           p == Problem(h, t)
<1>1. IsFleet(h) /\ Jobs(h) = Jobs(f) /\ Trucks(h) = Trucks(f)
  BY TightenedTyped
<1>2. IsFleet(g) /\ Trucks(g) = Trucks(f) /\ g.stops = f.stops
  BY SlowerTyped DEF Restored, IsHow, Trucks
<1>3. ScoresOf(h)[t][o] = ScoreOf(h, Alias(h, t), o)
  <2> HIDE DEF h
  <2>1. t \in Trucks(h) /\ o \in OrdersWithin(Jobs(h)) \ {<<>>}
    BY <1>1
  <2> QED BY <2>1 DEF ScoresOf
<1>4. Evaluate(Problem(h, Alias(h, t)), o) # NoScore
  <2> HIDE DEF h
  <2>1. ScoreOf(h, Alias(h, t), o) # NoScore
    BY <1>3 DEF h
  <2> QED BY <2>1 DEF ScoreOf
<1>5. Problem(h, Alias(h, t)) = p
  <2> HIDE DEF h
  <2> QED BY <1>1, AliasIsAlike
<1>6. Evaluate(p, o) # NoScore
  BY <1>4, <1>5
<1>7. IsLooser(q, p) /\ q.limit = p.limit
  BY TightenedIsStricter
<1> HIDE DEF g, h
<1>8. /\ IsProblem(q) /\ IsProblem(p) /\ q.leave \in Nat /\ q.stops = g.stops /\ p.stops = h.stops
  BY <1>1, <1>2, ProblemTyped
<1>9. q.limit \in Int /\ AreBreaks(q.breaks) /\ p.limit \in Int
  BY <1>1, <1>2, ProblemIsTimed
<1> HIDE DEF p, q
<1>10. Len(p.stops) = Len(q.stops) /\ Len(q.stops) = Len(f.stops)
  BY <1>2, <1>7, <1>8 DEF IsLooser
<1>11. o \in Seq(1 .. Len(p.stops)) /\ o \in Seq(1 .. Len(q.stops))
  BY <1>10, OrdersTyped
<1> DEFINE r == EvaluateFixedSequence(p, o, TRUE)
           s == EvaluateFixedSequence(q, o, TRUE)
<1>12. r.violations <= 0 /\ r.minutes <= p.limit
  BY <1>6, <1>8, <1>9, <1>11, ScoredIs
<1>13. s.violations <= 0 /\ s.minutes <= r.minutes
  BY <1>7, <1>11, <1>12, LooserWorks
<1>14. r.minutes \in Int /\ s.minutes \in Int
  BY <1>8, <1>11, EvaluateTyped DEF ReportSet
<1>15. s.minutes <= q.limit
  <2> HIDE DEF r, s
  <2> QED BY <1>7, <1>9, <1>12, <1>13, <1>14
<1>16. Evaluate(q, o) # NoScore
  BY <1>8, <1>9, <1>11, <1>13, <1>15, ScoredIs
<1>17. Evaluate(At(q, Timed(q, o).leave), o) # NoScore
  BY <1>8, <1>9, <1>11, <1>16, TimedStands
<1> QED BY <1>17 DEF q, g

-----------------------------------------------------------------------------
(* Counts.                                                                  *)

(* No delivery is in two routes.                                            *)
Apart(routes) == \A t, u \in DOMAIN routes : t # u => Range(routes[t]) \cap Range(routes[u]) = {}

(* The deliveries of some of the routes.                                    *)
AboardOf(routes, s) == UNION {Range(routes[t]) : t \in s}

(* No delivery is in two of some routes.                                    *)
ApartOn(routes, s) == \A t, u \in s : t # u => Range(routes[t]) \cap Range(routes[u]) = {}

(* Every route names finitely many deliveries, each of them once.           *)
NamesOnce(routes) ==
  \A t \in DOMAIN routes :
    /\ IsFiniteSet(Range(routes[t])) /\ Len(routes[t]) \in Nat
    /\ Cardinality(Range(routes[t])) = Len(routes[t])

(* The count of the model says what it means: as many deliveries are aboard *)
(* as the routes have stops exactly when no delivery is in two routes.      *)
LEMMA CountIsApart ==
  ASSUME NEW routes, IsFiniteSet(DOMAIN routes), NamesOnce(routes)
  PROVE  Cardinality(Aboard(routes)) = Served(routes) <=> Apart(routes)
<1> DEFINE D == DOMAIN routes
           f == [t \in D |-> Len(routes[t])]
<1>1. f \in [D -> Int] /\ Served(routes) = Total(f) /\ \A t \in D : f[t] = Len(routes[t])
  BY DEF Served, NamesOnce
<1> HIDE DEF f
<1>2. PICK g : SumsUp(g, D, f) /\ Total(f) = g[D]
  BY <1>1, TotalRun
<1> DEFINE Counts(s) ==
             /\ IsFiniteSet(AboardOf(routes, s)) /\ Cardinality(AboardOf(routes, s)) <= g[s]
             /\ Cardinality(AboardOf(routes, s)) = g[s] <=> ApartOn(routes, s)
           T == {s \in SUBSET D : Counts(s)}
<1>3. ASSUME NEW s \in SUBSET D, \A u \in SUBSET s : u # s => u \in T PROVE s \in T
  <2>1. CASE s = {}
    <3>1. AboardOf(routes, s) = {} /\ g[s] = 0 /\ ApartOn(routes, s)
      BY <1>2, <2>1 DEF AboardOf, ApartOn, SumsUp
    <3>2. Counts(s)
      BY <3>1, FS_EmptySet
    <3> QED BY <3>2
  <2>2. CASE s # {}
    <3> DEFINE t == Taken(s)
               rest == s \ {t}
               A == Range(routes[t])
               B == AboardOf(routes, rest)
    <3>1. t \in s /\ t \in D
      BY <2>2 DEF Taken
    <3>2. g[s] = f[t] + g[rest]
      BY <1>2, <2>2 DEF SumsUp
    <3> HIDE DEF t
    <3>3. rest \in T
      <4>1. rest \in SUBSET s /\ rest # s
        BY <3>1
      <4> HIDE DEF T
      <4> QED BY <1>3, <4>1
    <3>4. IsFiniteSet(B) /\ Cardinality(B) <= g[rest] /\ (Cardinality(B) = g[rest] <=> ApartOn(routes, rest))
      BY <3>3
    <3>5. IsFiniteSet(A) /\ Cardinality(A) = f[t] /\ f[t] \in Nat
      BY <1>1, <3>1 DEF NamesOnce
    <3>6. AboardOf(routes, s) = A \cup B
      BY <3>1 DEF AboardOf
    <3>7. ApartOn(routes, s) <=> ApartOn(routes, rest) /\ A \cap B = {}
      <4>1. ApartOn(routes, s) => ApartOn(routes, rest) /\ A \cap B = {}
        BY <3>1 DEF ApartOn, AboardOf
      <4>2. ASSUME ApartOn(routes, rest), A \cap B = {} PROVE ApartOn(routes, s)
        <5>1. \A u \in rest : Range(routes[t]) \cap Range(routes[u]) = {}
          BY <4>2 DEF AboardOf
        <5>2. \A u \in s : u = t \/ u \in rest
          OBVIOUS
        <5> HIDE DEF rest
        <5> QED BY <4>2, <5>1, <5>2 DEF ApartOn
      <4> QED BY <4>1, <4>2
    <3> HIDE DEF A, B, rest
    <3>8. IsFiniteSet(A \cup B) /\ Cardinality(A \cup B) = Cardinality(A) + Cardinality(B) - Cardinality(A \cap B)
      BY <3>4, <3>5, FS_Union
    <3>9. IsFiniteSet(A \cap B)
      <4>1. A \cap B \in SUBSET A
        OBVIOUS
      <4> QED BY <3>5, <4>1, FS_Subset
    <3>10. Cardinality(A \cap B) \in Nat /\ (Cardinality(A \cap B) = 0 <=> A \cap B = {}) /\ Cardinality(B) \in Nat
      BY <3>4, <3>9, FS_CardinalityType, FS_EmptySet
    <3>11. g[rest] \in Int
      <4>1. rest \in SUBSET D
        BY DEF rest
      <4> QED BY <1>2, <4>1 DEF SumsUp
    <3> DEFINE a == Cardinality(A)
               b == Cardinality(B)
               c == Cardinality(A \cap B)
               all == Cardinality(A \cup B)
    <3>12. a = f[t] /\ b <= g[rest] /\ all = a + b - c /\ c \in Nat /\ b \in Nat /\ f[t] \in Nat
      BY <3>4, <3>5, <3>8, <3>10
    <3> HIDE DEF a, b, c, all
    <3>13. all <= g[s] /\ (all = g[s] <=> b = g[rest] /\ c = 0)
      BY <3>2, <3>11, <3>12
    <3>14. all = g[s] <=> ApartOn(routes, s)
      BY <3>4, <3>7, <3>10, <3>13 DEF b, c
    <3>15. Counts(s)
      BY <3>6, <3>8, <3>13, <3>14 DEF all
    <3> HIDE DEF Counts
    <3> QED BY <3>15
  <2> QED BY <2>1, <2>2
<1>4. D \in T
  <2> HIDE DEF T, D
  <2>1. \A s \in SUBSET D : s \in T
    BY <1>3, FiniteInduction DEF D
  <2> QED BY <2>1
<1>5. AboardOf(routes, D) = Aboard(routes) /\ (ApartOn(routes, D) <=> Apart(routes))
  BY DEF AboardOf, Aboard, ApartOn, Apart
<1>6. Cardinality(AboardOf(routes, D)) = g[D] <=> ApartOn(routes, D)
  BY <1>4
<1> QED BY <1>1, <1>2, <1>5, <1>6

(* There are n numbers from 1 to n.                                         *)
LEMMA CountTo ==
  ASSUME NEW n \in Nat
  PROVE  IsFiniteSet(1 .. n) /\ Cardinality(1 .. n) = n
<1>1. 1 \in Int /\ n \in Int
  OBVIOUS
<1>2. IsFiniteSet(1 .. n) /\ Cardinality(1 .. n) = IF 1 > n THEN 0 ELSE n - 1 + 1
  BY <1>1, FS_Interval
<1> QED BY <1>2

(* No element of a sequence is there twice.                                 *)
Distinct(order) == \A i, j \in DOMAIN order : i # j => order[i] # order[j]

(* A sequence without repetitions has as many elements as places.           *)
LEMMA DistinctCounts ==
  ASSUME NEW order, Len(order) \in Nat, DOMAIN order = 1 .. Len(order), Distinct(order)
  PROVE  IsFiniteSet(Range(order)) /\ Cardinality(Range(order)) = Len(order)
<1> DEFINE n == Len(order)
           f == [i \in 1 .. n |-> order[i]]
<1>1. n \in Nat /\ IsFiniteSet(1 .. n) /\ Cardinality(1 .. n) = n
  <2>1. n \in Nat
    OBVIOUS
  <2> HIDE DEF n
  <2> QED BY <2>1, CountTo
<1>2. f \in Bijection(1 .. n, Range(order))
  <2>1. DOMAIN order = 1 .. n /\ f = [i \in 1 .. n |-> order[i]]
    OBVIOUS
  <2> HIDE DEF n, f
  <2>2. f \in [1 .. n -> Range(order)] /\ \A i \in 1 .. n : f[i] = order[i]
    BY <2>1 DEF Range
  <2>3. f \in Injection(1 .. n, Range(order))
    BY <2>1, <2>2 DEF Injection, IsInjective, Distinct
  <2>4. f \in Surjection(1 .. n, Range(order))
    <3>1. \A x \in Range(order) : \E i \in 1 .. n : f[i] = x
      BY <2>1, <2>2 DEF Range
    <3> QED BY <2>2, <3>1 DEF Surjection
  <2> QED BY <2>3, <2>4 DEF Bijection
<1>3. ExistsBijection(1 .. n, Range(order))
  BY <1>2 DEF ExistsBijection
<1> HIDE DEF n
<1>4. IsFiniteSet(Range(order)) /\ Cardinality(Range(order)) = Cardinality(1 .. n)
  BY <1>1, <1>3, FS_Bijection
<1> QED BY <1>1, <1>4 DEF n

(* The orders of some of n stops have no repetitions.                       *)
LEMMA OrdersAreDistinct ==
  ASSUME NEW n \in Nat, NEW o \in OrdersWithin(1 .. n)
  PROVE  /\ IsFiniteSet(Range(o)) /\ Cardinality(Range(o)) = Len(o) /\ Len(o) \in Nat
         /\ DOMAIN o = 1 .. Len(o) /\ Distinct(o)
<1>1. o \in Seq(1 .. n) /\ Len(o) \in Nat /\ Range(o) \in SUBSET (1 .. n) /\ o \in OrdersOf(Range(o))
  BY OrdersWithinAre
<1>2. IsFiniteSet(Range(o)) /\ Len(o) = Cardinality(Range(o))
  BY <1>1, OrdersOfSome
<1>3. DOMAIN o = 1 .. Len(o) /\ o \in [1 .. Len(o) -> Range(o)]
  <2>1. DOMAIN o = 1 .. Len(o) /\ o = [i \in DOMAIN o |-> o[i]]
    BY <1>1
  <2> QED BY <2>1 DEF Range
<1>4. o \in Surjection(1 .. Len(o), Range(o))
  <2>1. \A x \in Range(o) : \E i \in 1 .. Len(o) : o[i] = x
    BY <1>3 DEF Range
  <2> QED BY <1>3, <2>1 DEF Surjection
<1>5. IsFiniteSet(1 .. Len(o)) /\ Cardinality(1 .. Len(o)) = Len(o)
  BY <1>1, CountTo
<1>6. o \in Injection(1 .. Len(o), Range(o))
  BY <1>2, <1>4, <1>5, FS_Surjection
<1>7. Distinct(o)
  BY <1>3, <1>6 DEF Injection, IsInjective, Distinct
<1> QED BY <1>1, <1>2, <1>3, <1>7

(* What is left of an order without repetitions are its other deliveries,   *)
(* each of them once.                                                       *)
LEMMA LeftOverIs ==
  ASSUME NEW S, NEW order \in Seq(S), NEW removed, Distinct(order)
  PROVE  /\ LeftOver(order, removed) \in Seq(S) /\ Distinct(LeftOver(order, removed))
         /\ Range(LeftOver(order, removed)) = Range(order) \ removed
<1> DEFINE n == Len(order)
           Step == LeftStep(S, order, removed)
           Upto(k) == {order[i] : i \in 1 .. k} \ removed
<1>1. PICK h : RunsForward(h, n, Seq(S), <<>>, Step) /\ LeftOver(order, removed) = h[n]
  BY LeftOverRun
<1>2. n \in Nat /\ DOMAIN order = 1 .. n /\ \A i \in 1 .. n : order[i] \in S
  OBVIOUS
<1>3. \A k \in 1 .. n : h[k] = IF order[k] \in removed THEN h[k - 1] ELSE Append(h[k - 1], order[k])
  <2>1. \A k \in 1 .. n : h[k - 1] \in Seq(S) /\ h[k] = Step[<<h[k - 1], k>>]
    <3> HIDE DEF Step, n
    <3>1. h \in [0 .. n -> Seq(S)] /\ \A k \in 1 .. n : h[k] = Step[<<h[k - 1], k>>]
      BY <1>1 DEF RunsForward
    <3>2. \A k \in 1 .. n : k - 1 \in 0 .. n
      BY <1>2
    <3> QED BY <3>1, <3>2
  <2>2. \A some \in Seq(S), k \in 1 .. n :
          Step[<<some, k>>] = IF order[k] \in removed THEN some ELSE Append(some, order[k])
    BY DEF LeftStep
  <2> HIDE DEF Step, n
  <2> QED BY <2>1, <2>2
<1> HIDE DEF Step, n
<1>4. h \in [0 .. n -> Seq(S)] /\ h[0] = <<>>
  BY <1>1 DEF RunsForward
<1> DEFINE IsLeft(k) == Distinct(h[k]) /\ Range(h[k]) = Upto(k)
           T == {k \in Nat : k <= n => IsLeft(k)}
<1>5. 0 \in T
  <2>1. 1 .. 0 = {} /\ DOMAIN <<>> = {}
    OBVIOUS
  <2>2. IsLeft(0)
    BY <1>4, <2>1 DEF Distinct, Range
  <2> HIDE DEF IsLeft
  <2> QED BY <2>2
<1>6. ASSUME NEW k \in Nat, k \in T PROVE k + 1 \in T
  <2> SUFFICES ASSUME k + 1 <= n PROVE IsLeft(k + 1)
    OBVIOUS
  <2>1. IsLeft(k) /\ k + 1 \in 1 .. n /\ (k + 1) - 1 = k /\ h[k] \in Seq(S)
    <3>1. k + 1 \in 1 .. n /\ (k + 1) - 1 = k /\ k \in 0 .. n /\ k <= n
      BY <1>2
    <3>2. IsLeft(k)
      <4> HIDE DEF IsLeft
      <4> QED BY <1>6, <3>1
    <3>3. h[k] \in Seq(S)
      BY <1>4, <3>1
    <3> HIDE DEF IsLeft
    <3> QED BY <3>1, <3>2, <3>3
  <2>2. h[k + 1] = IF order[k + 1] \in removed THEN h[k] ELSE Append(h[k], order[k + 1])
    BY <1>3, <2>1
  <2>3. 1 .. (k + 1) = (1 .. k) \cup {k + 1}
    OBVIOUS
  <2>4. CASE order[k + 1] \in removed
    <3>1. Upto(k + 1) = Upto(k)
      BY <2>3, <2>4
    <3> HIDE DEF Upto
    <3> QED BY <2>1, <2>2, <2>4, <3>1
  <2>5. CASE order[k + 1] \notin removed
    <3> DEFINE some == h[k]
               job == order[k + 1]
               m == Len(some)
    <3>1. some \in Seq(S) /\ job \in S /\ m \in Nat /\ DOMAIN some = 1 .. m
      BY <1>2, <2>1
    <3>2. Distinct(some) /\ Range(some) = Upto(k) /\ job \notin removed
      BY <2>1, <2>5
    <3>3. Upto(k + 1) = Upto(k) \cup {job}
      BY <2>3, <2>5
    <3>4. job \notin Upto(k)
      <4>1. \A i \in 1 .. k : i \in DOMAIN order /\ i # k + 1 /\ k + 1 \in DOMAIN order
        BY <1>2, <2>1
      <4> QED BY <4>1 DEF Distinct
    <3>5. h[k + 1] = Append(some, job)
      BY <2>2, <2>5
    <3> HIDE DEF some, job, Upto
    <3> DEFINE more == Append(some, job)
    <3>6. DOMAIN more = 1 .. (m + 1) /\ more[m + 1] = job /\ \A i \in 1 .. m : more[i] = some[i]
      BY <3>1
    <3>7. 1 .. (m + 1) = (1 .. m) \cup {m + 1}
      BY <3>1
    <3>8. \A i \in 1 .. m : some[i] \in Upto(k)
      BY <3>1, <3>2 DEF Range
    <3> HIDE DEF more
    <3>9. Range(more) = Upto(k) \cup {job}
      <4>1. Range(more) = {more[i] : i \in (1 .. m) \cup {m + 1}}
        BY <3>6, <3>7 DEF Range
      <4>2. Range(some) = {some[i] : i \in 1 .. m}
        BY <3>1 DEF Range
      <4> QED BY <3>2, <3>6, <4>1, <4>2
    <3>10. Distinct(more)
      <4> SUFFICES ASSUME NEW i \in DOMAIN more, NEW j \in DOMAIN more, i # j PROVE more[i] # more[j]
        BY DEF Distinct
      <4>1. (i \in 1 .. m \/ i = m + 1) /\ (j \in 1 .. m \/ j = m + 1)
        BY <3>6, <3>7
      <4>2. CASE i \in 1 .. m /\ j \in 1 .. m
        BY <3>1, <3>2, <3>6, <4>2 DEF Distinct
      <4>3. CASE i \in 1 .. m /\ j = m + 1
        BY <3>4, <3>6, <3>8, <4>3
      <4>4. CASE i = m + 1 /\ j \in 1 .. m
        BY <3>4, <3>6, <3>8, <4>4
      <4> QED BY <4>1, <4>2, <4>3, <4>4
    <3> QED BY <3>3, <3>5, <3>9, <3>10 DEF more
  <2> HIDE DEF IsLeft
  <2> QED BY <2>4, <2>5
<1>7. Nat \subseteq T
  <2> HIDE DEF T
  <2> QED BY <1>5, <1>6, NatSet
<1>8. IsLeft(n)
  <2>1. n \in T /\ n <= n
    BY <1>2, <1>7
  <2> HIDE DEF IsLeft
  <2> QED BY <2>1
<1>9. Upto(n) = Range(order) \ removed
  BY <1>2 DEF Range
<1>10. LeftOver(order, removed) \in Seq(S)
  BY LeftOverTyped
<1> QED BY <1>1, <1>8, <1>9, <1>10

(* What is left of the numbers from 1 to n.                                 *)
LEMMA NumbersLeft ==
  ASSUME NEW n \in Nat, NEW removed
  PROVE  /\ LeftOver([i \in 1 .. n |-> i], removed) \in Seq(1 .. n)
         /\ Distinct(LeftOver([i \in 1 .. n |-> i], removed))
         /\ Range(LeftOver([i \in 1 .. n |-> i], removed)) = (1 .. n) \ removed
<1> DEFINE all == [i \in 1 .. n |-> i]
<1>1. all \in Seq(1 .. n)
  OBVIOUS
<1>2. DOMAIN all = 1 .. n /\ \A i \in 1 .. n : all[i] = i
  OBVIOUS
<1> HIDE DEF all
<1>3. Distinct(all) /\ Range(all) = 1 .. n
  BY <1>2 DEF Distinct, Range
<1>4. /\ LeftOver(all, removed) \in Seq(1 .. n) /\ Distinct(LeftOver(all, removed))
      /\ Range(LeftOver(all, removed)) = Range(all) \ removed
  BY <1>1, <1>3, LeftOverIs
<1> QED BY <1>3, <1>4 DEF all

(* The deliveries that are searched are those that need no ferry, each once *)
LEMMA ReachableIs ==
  ASSUME asked.fleet \in DOMAIN Fleets
  PROVE  /\ Len(Reachable) \in Nat /\ DOMAIN Reachable = 1 .. Len(Reachable) /\ Distinct(Reachable)
         /\ Range(Reachable) = Jobs(Fleets[asked.fleet]) \ asked.ferry
         /\ Jobs(Requested) = 1 .. Len(Reachable)
<1> DEFINE f == Fleets[asked.fleet]
           n == Len(f.stops)
<1>1. IsFleet(f)
  BY FleetsAssumption
<1>2. Jobs(f) = 1 .. n /\ n \in Nat
  BY <1>1, FleetIs
<1>3. Reachable = LeftOver([i \in Jobs(f) |-> i], asked.ferry)
  BY DEF Reachable
<1>4. Requested = Subset(f, Reachable)
  BY DEF Requested
<1> HIDE DEF f, n
<1>5. Reachable \in Seq(1 .. n) /\ Distinct(Reachable) /\ Range(Reachable) = Jobs(f) \ asked.ferry
  BY <1>2, <1>3, NumbersLeft
<1>6. Len(Requested.stops) = Len(Reachable)
  BY <1>1, <1>2, <1>4, <1>5, SubsetTyped
<1>7. Len(Reachable) \in Nat /\ DOMAIN Reachable = 1 .. Len(Reachable)
  BY <1>5
<1> QED BY <1>5, <1>6, <1>7 DEF f, Jobs

(* The deliveries the operator has put on a vehicle.                        *)
LEMMA MembersAre ==
  ASSUME asked.fleet \in DOMAIN Fleets, NEW t
  PROVE  Range(Members(t)) = {i \in Jobs(Requested) : Chosen[i] = t}
<1> DEFINE n == Len(Reachable)
<1>1. n \in Nat /\ DOMAIN Reachable = 1 .. n /\ Jobs(Requested) = 1 .. n
  BY ReachableIs
<1>2. DOMAIN Chosen = 1 .. n
  BY <1>1 DEF Chosen
<1>3. Members(t) = LeftOver([i \in 1 .. n |-> i], {i \in 1 .. n : Chosen[i] # t})
  BY <1>2 DEF Members
<1> HIDE DEF n
<1>4. Range(Members(t)) = (1 .. n) \ {i \in 1 .. n : Chosen[i] # t}
  BY <1>1, <1>3, NumbersLeft
<1> QED BY <1>1, <1>4

-----------------------------------------------------------------------------
(* Every delivery is answered for.                                          *)

(* A division: no delivery is on two vehicles, and every driver can work    *)
(* his route as the search sees it.                                         *)
IsDivision(f, scores, p) ==
  /\ p \in Plans(f) /\ Apart(p)
  /\ \A t \in Trucks(f) : p[t] # <<>> => scores[t][p[t]] # NoScore

(* Every delivery of the request is on one vehicle or out, never both; if   *)
(* the operator has assigned them, it is on the vehicle it was assigned to. *)
Dealt(orders, out) ==
  /\ Apart(orders)
  /\ Aboard(orders) \cap out = {}
  /\ Aboard(orders) \cup out = Jobs(Requested)
  /\ Manual => \A t \in DOMAIN orders : \A i \in Range(orders[t]) : Chosen[i] = t

(* Other orders of the same deliveries deal them the same way.              *)
LEMMA DealtAgain ==
  ASSUME NEW orders, NEW out, Dealt(orders, out), NEW more,
         DOMAIN more \subseteq DOMAIN orders,
         \A t \in DOMAIN more : Range(more[t]) = Range(orders[t]),
         \A t \in DOMAIN orders : t \in DOMAIN more \/ Range(orders[t]) = {}
  PROVE  Dealt(more, out)
<1>1. Apart(more)
  BY DEF Dealt, Apart
<1>2. Aboard(more) = Aboard(orders)
  BY DEF Aboard
<1>3. Manual => \A t \in DOMAIN more : \A i \in Range(more[t]) : Chosen[i] = t
  BY DEF Dealt
<1> QED BY <1>1, <1>2, <1>3 DEF Dealt

(* A plan counts its deliveries once each.                                  *)
LEMMA PlanIsCounted ==
  ASSUME NEW f, IsFleet(f), NEW p \in Plans(f)
  PROVE  /\ DOMAIN p = Trucks(f) /\ (Cardinality(Aboard(p)) = Served(p) <=> Apart(p))
         /\ \A t \in Trucks(f) : p[t] \in Seq(Jobs(f)) /\ Range(p[t]) \subseteq Jobs(f)
<1>1. Jobs(f) = 1 .. Len(f.stops) /\ Len(f.stops) \in Nat
  BY FleetIs
<1>2. DOMAIN p = Trucks(f) /\ \A t \in Trucks(f) : p[t] \in OrdersWithin(Jobs(f))
  BY DEF Plans
<1>3. IsFiniteSet(DOMAIN p)
  <2>1. Trucks(f) = 1 .. Len(f.trucks) /\ Len(f.trucks) \in Nat
    BY FleetIs
  <2> QED BY <1>2, <2>1, FS_Interval
<1>4. NamesOnce(p)
  BY <1>1, <1>2, OrdersAreDistinct DEF NamesOnce
<1>5. \A t \in Trucks(f) : p[t] \in Seq(Jobs(f)) /\ Range(p[t]) \subseteq Jobs(f)
  <2> SUFFICES ASSUME NEW t \in Trucks(f) PROVE p[t] \in Seq(Jobs(f)) /\ Range(p[t]) \subseteq Jobs(f)
    OBVIOUS
  <2>1. p[t] \in OrdersWithin(1 .. Len(f.stops)) /\ Len(f.stops) \in Nat
    BY <1>1, <1>2
  <2>2. p[t] \in Seq(1 .. Len(f.stops)) /\ Range(p[t]) \in SUBSET (1 .. Len(f.stops))
    BY <2>1, OrdersWithinAre
  <2> QED BY <1>1, <2>2
<1> QED BY <1>2, <1>3, <1>4, <1>5, CountIsApart

(* A plan that is valid is a division.                                      *)
LEMMA ValidIsDivision ==
  ASSUME NEW f, IsFleet(f), NEW scores, NEW p \in Plans(f), ValidPlan(scores, p)
  PROVE  IsDivision(f, scores, p)
BY PlanIsCounted DEF ValidPlan, IsDivision

(* Every plan of an attempt is a division of the request.                   *)
LEMMA PlansAreDivisions ==
  ASSUME Asked, book = Book(Tightened(Requested, pass))
  PROVE  /\ \A p \in book.plans : IsDivision(Requested, book.scores, p)
         /\ \A p \in Plans(Requested) : ValidPlan(book.scores, p) => IsDivision(Requested, book.scores, p)
<1>1. IsFleet(Requested) /\ book.plans \subseteq Plans(Requested)
  BY BookIs, RequestedTyped DEF Asked
<1>2. \A p \in book.plans : ValidPlan(book.scores, p)
  BY DEF Book, ScoredBook, BookOf
<1>3. \A p \in Plans(Requested) : ValidPlan(book.scores, p) => IsDivision(Requested, book.scores, p)
  BY <1>1, ValidIsDivision
<1> QED BY <1>1, <1>2, <1>3

(* The last pass keeps what every vehicle carries, and keeps it workable.   *)
LEMMA RefinedWorks ==
  ASSUME Asked, book = Book(Tightened(Requested, pass)), NEW p \in Plans(Requested)
  PROVE  LET q == RefineRoutes(Strategy, book.fleet, book.scores, p)
         IN /\ q \in Plans(Requested) /\ \A t \in Trucks(Requested) : Range(q[t]) = Range(p[t])
            /\ Apart(p) => Apart(q)
            /\ IsDivision(Requested, book.scores, p) => IsDivision(Requested, book.scores, q)
<1> DEFINE q == RefineRoutes(Strategy, book.fleet, book.scores, p)
<1>1. Strategy \in {"balanced", "distance", "efficient"}
  BY FleetsAssumption DEF Asked, Strategy
<1>2. /\ IsFleet(book.fleet) /\ Plans(book.fleet) = Plans(Requested) /\ book.scores = ScoresOf(book.fleet)
      /\ IsFleet(Requested)
  BY BookIs, RequestedTyped DEF Asked
<1>3. q \in Plans(Requested) /\ Refines(book.scores, q, p)
  BY <1>1, <1>2, RefinedTyped
<1> HIDE DEF q
<1>4. DOMAIN p = Trucks(Requested) /\ DOMAIN q = Trucks(Requested)
      /\ \A t \in Trucks(Requested) : p[t] \in Seq(Jobs(Requested)) /\ q[t] \in Seq(Jobs(Requested))
  BY <1>2, <1>3, PlanIsCounted
<1>5. \A t \in Trucks(Requested) : Range(q[t]) = Range(p[t])
  BY <1>3, <1>4 DEF Refines
<1>6. Apart(p) => Apart(q)
  BY <1>4, <1>5 DEF Apart
<1>7. ASSUME NEW t \in Trucks(Requested), q[t] # <<>> PROVE p[t] # <<>>
  <2> DEFINE a == p[t]
             b == q[t]
  <2>1. b \in Seq(Jobs(Requested)) /\ b # <<>> /\ Range(b) = Range(a)
    BY <1>4, <1>5, <1>7
  <2> HIDE DEF a, b
  <2>2. 1 \in DOMAIN b
    BY <2>1
  <2>3. Range(b) # {}
    BY <2>2 DEF Range
  <2>4. a # <<>>
    <3>1. Range(<<>>) = {}
      BY DEF Range
    <3> QED BY <2>1, <2>3, <3>1
  <2> QED BY <2>4 DEF a
<1>8. ASSUME IsDivision(Requested, book.scores, p) PROVE IsDivision(Requested, book.scores, q)
  <2>1. \A t \in Trucks(Requested) : q[t] # <<>> => book.scores[t][q[t]] # NoScore
    BY <1>3, <1>4, <1>7, <1>8 DEF Refines, IsDivision
  <2> QED BY <1>3, <1>6, <1>8, <2>1 DEF IsDivision
<1> QED BY <1>3, <1>5, <1>6, <1>8 DEF q

-----------------------------------------------------------------------------
(* What a calculation keeps of every delivery.                              *)

(* No ferry is asked for a delivery that is not asked for.                  *)
FerryIsAsked == asked.ferry \subseteq Jobs(Fleets[asked.fleet])

(* A search divides what the operator has not, and holds a division.        *)
SearchIsDivision ==
  /\ stage \in {"distance", "recover", "repair", "engines"} => ~Manual
  /\ stage \in {"distance", "recover", "repair", "refine", "engines"} /\ ~Manual =>
       IsDivision(Requested, book.scores, division)
  /\ stage = "repair" => IsDivision(Requested, book.scores, seed)

(* What the operator has assigned is gathered on its vehicles.              *)
AssignedIsGathered ==
  stage = "refine" /\ Manual =>
    /\ \A i \in Jobs(Requested) : Chosen[i] \in {0} \cup Trucks(Requested)
    /\ \A t \in Trucks(Requested) : Range(division[t]) = {i \in Jobs(Requested) : Chosen[i] = t}
    /\ left = {i \in Jobs(Requested) : Chosen[i] = 0}

(* Once it is settled every delivery is dealt, and every route can be       *)
(* worked as the search sees it.                                            *)
DivisionIsDealt == stage = "time" => IsDivision(Requested, book.scores, division) /\ Dealt(division, left)

OfferIsDealt == stage \in {"traffic", "judge"} => Dealt(OrdersOfOffer(offer), left)

KeptIsDealt ==
  first # <<>> \/ stage = "answered" =>
    IsOffer(Requested, kept.offer) /\ Dealt(OrdersOfOffer(kept.offer), kept.left)

AnswerInv ==
  FerryIsAsked /\ SearchIsDivision /\ AssignedIsGathered /\ DivisionIsDealt /\ OfferIsDealt /\ KeptIsDealt

(* What is asked does not change while it is calculated.                    *)
LEMMA ChoiceStays ==
  ASSUME asked' = asked
  PROVE  /\ Requested' = Requested /\ Reachable' = Reachable /\ Chosen' = Chosen /\ (Manual' <=> Manual)
         /\ (FerryIsAsked => FerryIsAsked') /\ \A orders, out : Dealt(orders, out)' <=> Dealt(orders, out)
<1>1. Requested' = Requested /\ Reachable' = Reachable
  BY RequestStays
<1>2. Chosen' = Chosen /\ (Manual' <=> Manual)
  BY <1>1 DEF Chosen, Manual
<1>3. FerryIsAsked => FerryIsAsked'
  BY DEF FerryIsAsked
<1>4. \A orders, out : Dealt(orders, out)' <=> Dealt(orders, out)
  BY <1>1, <1>2 DEF Dealt
<1> QED BY <1>1, <1>2, <1>3, <1>4

(* Until it is judged, an attempt does not touch what is kept.              *)
LEMMA KeptStays ==
  ASSUME KeptIsDealt, UNCHANGED <<asked, kept, first>>, stage' # "answered"
  PROVE  KeptIsDealt'
<1>1. first' # <<>> \/ stage' = "answered" => first # <<>>
  OBVIOUS
<1>2. first # <<>> => IsOffer(Requested, kept.offer) /\ Dealt(OrdersOfOffer(kept.offer), kept.left)
  BY DEF KeptIsDealt
<1>3. first # <<>> => IsOffer(Requested', kept'.offer) /\ Dealt(OrdersOfOffer(kept.offer), kept.left)'
  BY <1>2, ChoiceStays DEF OrdersOfOffer, Dealt
<1> QED BY <1>1, <1>3 DEF KeptIsDealt

(* A step of the division leaves what an answer needs.                      *)
LEMMA DealingStep ==
  ASSUME AnswerInv, UNCHANGED <<asked, pass, book, kept, first>>,
         stage' \in {"refused", "distance", "recover", "repair", "refine", "engines", "time"},
         SearchIsDivision', AssignedIsGathered', DivisionIsDealt'
  PROVE  AnswerInv'
<1>1. FerryIsAsked'
  BY ChoiceStays DEF AnswerInv
<1>2. OfferIsDealt'
  BY DEF OfferIsDealt
<1>3. KeptIsDealt'
  BY KeptStays DEF AnswerInv
<1> QED BY <1>1, <1>2, <1>3 DEF AnswerInv

(* A step of the search leaves a division.                                  *)
LEMMA SearchStep ==
  ASSUME AnswerInv, UNCHANGED <<asked, pass, book, kept, first>>, ~Manual,
         stage' \in {"refused", "distance", "recover", "repair", "refine", "engines"},
         IsDivision(Requested, book.scores, division'),
         stage' = "repair" => IsDivision(Requested, book.scores, seed')
  PROVE  AnswerInv'
<1>1. Requested' = Requested /\ ~Manual' /\ book' = book
  BY ChoiceStays
<1>2. SearchIsDivision'
  BY <1>1 DEF SearchIsDivision
<1>3. AssignedIsGathered'
  BY <1>1 DEF AssignedIsGathered
<1>4. DivisionIsDealt'
  BY DEF DivisionIsDealt
<1> QED BY <1>2, <1>3, <1>4, DealingStep

(* What is known of an attempt while it is divided.                         *)
LEMMA DividingIs ==
  ASSUME ReplanInv, stage \in Working
  PROVE  /\ Asked /\ book = Book(Tightened(Requested, pass)) /\ clocked \subseteq Plans(Requested) /\ IsFleet(Requested)
         /\ \A p \in book.plans : IsDivision(Requested, book.scores, p)
         /\ \A objective : \A p \in FoundUnder(objective) : IsDivision(Requested, book.scores, p)
         /\ \A p \in Plans(Requested) : ValidPlan(book.scores, p) => IsDivision(Requested, book.scores, p)
<1>1. Asked /\ book = Book(Tightened(Requested, pass)) /\ clocked \subseteq Plans(Requested)
  BY DEF ReplanInv, BookIsOfAttempt
<1>2. \A objective : FoundUnder(objective) \subseteq book.plans
  BY DEF FoundUnder
<1>3. IsFleet(Requested)
  BY <1>1, RequestedTyped DEF Asked
<1> QED BY <1>1, <1>2, <1>3, PlansAreDivisions

(* The better of two divisions is one.                                      *)
LEMMA BetterIsDivision ==
  ASSUME NEW objective, NEW a, NEW b, IsDivision(Requested, book.scores, a), IsDivision(Requested, book.scores, b)
  PROVE  IsDivision(Requested, book.scores, BetterOf(book, objective, a, b))
BY DEF BetterOf

(* What the operator assigns is gathered.                                   *)
LEMMA AssignAnswers ==
  ASSUME ReplanInv, AnswerInv, Assign
  PROVE  AnswerInv'
<1>1. /\ UNCHANGED <<asked, pass, book, kept, first>> /\ stage = "divide" /\ Manual
      /\ left' = {i \in DOMAIN Chosen : Chosen[i] = 0} /\ stage' \in {"refused", "refine"}
      /\ stage' = "refine" => \A i \in DOMAIN Chosen : Chosen[i] \in {0} \cup Trucks(book.fleet)
  BY DEF Assign
<1>2. /\ DOMAIN division' = Trucks(book.fleet)
      /\ \A t \in Trucks(book.fleet) : Range(division'[t]) = Range(Members(t))
  BY DEF Assign
<1>3. Asked /\ Trucks(book.fleet) = Trucks(Requested)
  BY <1>1, DividingIs, BookIs DEF Working
<1>4. Requested' = Requested /\ Manual' /\ Chosen' = Chosen
  BY <1>1, ChoiceStays
<1>5. DOMAIN Chosen = Jobs(Requested)
  BY <1>3, ReachableIs DEF Chosen, Asked
<1>6. \A t \in Trucks(Requested) : Range(division'[t]) = {i \in Jobs(Requested) : Chosen[i] = t}
  BY <1>2, <1>3, MembersAre DEF Asked
<1>7. AssignedIsGathered'
  BY <1>1, <1>3, <1>4, <1>5, <1>6 DEF AssignedIsGathered
<1>8. SearchIsDivision' /\ DivisionIsDealt'
  BY <1>1, <1>4 DEF SearchIsDivision, DivisionIsDealt
<1> QED BY <1>1, <1>7, <1>8, DealingStep

(* The searches, the recovery and the engines hold a division.              *)
LEMMA SearchAnswers ==
  ASSUME ReplanInv, AnswerInv,
         \/ Search \/ SearchDistance \/ SkipRecovery \/ SearchAlternate
         \/ PairExchangeRepair \/ SolveFleetMilp \/ EndRecovery
         \/ stage = "engines" /\ \E proposal \in clocked : Improve(proposal)
  PROVE  AnswerInv'
<1> DEFINE Good(p) == IsDivision(Requested, book.scores, p)
<1>1. /\ stage \in {"distance", "recover", "repair", "engines"} => ~Manual /\ Good(division)
      /\ stage = "repair" => Good(seed)
  BY DEF AnswerInv, SearchIsDivision
<1>2. stage \in Working =>
        /\ Asked /\ book = Book(Tightened(Requested, pass)) /\ clocked \subseteq Plans(Requested)
        /\ \A p \in book.plans : Good(p)
        /\ \A objective : \A p \in FoundUnder(objective) : Good(p)
        /\ \A p \in Plans(Requested) : ValidPlan(book.scores, p) => Good(p)
  BY DividingIs
<1>3. \A objective, a, b : Good(a) /\ Good(b) => Good(BetterOf(book, objective, a, b))
  BY BetterIsDivision
<1>4. UNCHANGED <<asked, pass, book, kept, first>>
  BY DEF Search, SearchDistance, SkipRecovery, SearchAlternate, PairExchangeRepair, SolveFleetMilp, EndRecovery, Improve
<1>5. ASSUME NEW next \in {"distance", "recover", "repair", "refine", "engines"}, stage' = next, ~Manual,
             Good(division'), stage' = "repair" => Good(seed')
      PROVE  AnswerInv'
  BY <1>4, <1>5, SearchStep
<1> HIDE DEF Good
<1>6. CASE Search
  <2>1. stage \in Working /\ stage' \in {"distance", "recover"} /\ ~Manual /\ division' \in FoundUnder(Strategy)
    BY <1>6 DEF Search, Working
  <2> QED BY <1>2, <1>5, <2>1
<1>7. CASE SearchDistance
  <2>1. stage = "distance" /\ stage \in Working /\ stage' = "recover"
    BY <1>7 DEF SearchDistance, Working
  <2>2. PICK other \in FoundUnder("distance") : division' = BetterOf(book, Strategy, other, division)
    BY <1>7 DEF SearchDistance
  <2> QED BY <1>1, <1>2, <1>3, <1>5, <2>1, <2>2
<1>8. CASE SkipRecovery
  <2>1. stage = "recover" /\ stage' = "refine" /\ division' = division
    BY <1>8 DEF SkipRecovery
  <2> QED BY <1>1, <1>5, <2>1
<1>9. CASE SearchAlternate
  <2>1. stage = "recover" /\ stage \in Working /\ stage' \in {"repair", "refine"}
    BY <1>9 DEF SearchAlternate, Working
  <2>2. PICK objective : \E other \in FoundUnder(objective) :
                          /\ division' = BetterOf(book, Strategy, other, division)
                          /\ seed' = BetterOf(book, "efficient", other, division)
    BY <1>9 DEF SearchAlternate
  <2>3. Good(division') /\ Good(seed')
    BY <1>1, <1>2, <1>3, <2>1, <2>2
  <2> QED BY <1>1, <1>5, <2>1, <2>3
<1>10. CASE PairExchangeRepair
  <2>1. stage = "repair" /\ stage \in Working /\ stage' = stage /\ division' = division
    BY <1>10 DEF PairExchangeRepair, Working
  <2>2. PICK p \in book.plans : seed' = BetterOf(book, Strategy, p, seed)
    BY <1>10 DEF PairExchangeRepair, PairExchanges
  <2>3. Good(seed')
    BY <1>1, <1>2, <1>3, <2>1, <2>2
  <2> QED BY <1>1, <1>5, <2>1, <2>3
<1>11. CASE SolveFleetMilp
  <2>1. stage = "repair" /\ stage \in Working /\ stage' = stage /\ division' = division
    BY <1>11 DEF SolveFleetMilp, Working
  <2>2. PICK p \in clocked : seed' = IF ValidPlan(book.scores, p) THEN BetterOf(book, Strategy, p, seed) ELSE seed
    BY <1>11 DEF SolveFleetMilp
  <2>3. Good(seed')
    BY <1>1, <1>2, <1>3, <2>1, <2>2
  <2> QED BY <1>1, <1>5, <2>1, <2>3
<1>12. CASE EndRecovery
  <2>1. stage = "repair" /\ stage' = "refine" /\ division' = BetterOf(book, Strategy, seed, division)
    BY <1>12 DEF EndRecovery
  <2> QED BY <1>1, <1>3, <1>5, <2>1
<1>13. CASE stage = "engines" /\ \E proposal \in clocked : Improve(proposal)
  <2>1. PICK proposal \in clocked : Improve(proposal)
    BY <1>13
  <2> DEFINE refined == RefineRoutes(Strategy, book.fleet, book.scores, proposal)
  <2>2. /\ stage = "engines" /\ stage \in Working /\ stage' = stage
        /\ division' = IF ValidPlan(book.scores, proposal) THEN BetterOf(book, Strategy, refined, division) ELSE division
    BY <1>13, <2>1 DEF Improve, Working
  <2>3. proposal \in Plans(Requested)
    BY <1>2, <2>2
  <2>4. Good(proposal) => Good(refined)
    BY <1>2, <2>2, <2>3, RefinedWorks DEF Good
  <2> HIDE DEF refined
  <2>5. Good(division')
    BY <1>1, <1>2, <1>3, <2>2, <2>3, <2>4
  <2> QED BY <1>1, <1>5, <2>2, <2>5
<1> QED BY <1>6, <1>7, <1>8, <1>9, <1>10, <1>11, <1>12, <1>13

(* What has been gathered is dealt.                                         *)
LEMMA GatheredIsDealt ==
  ASSUME NEW routes, NEW out, Manual, DOMAIN routes = Trucks(Requested), 0 \notin Trucks(Requested),
         \A i \in Jobs(Requested) : Chosen[i] \in {0} \cup Trucks(Requested),
         \A t \in Trucks(Requested) : Range(routes[t]) = {i \in Jobs(Requested) : Chosen[i] = t},
         out = {i \in Jobs(Requested) : Chosen[i] = 0}
  PROVE  Dealt(routes, out)
<1>1. Apart(routes)
  BY DEF Apart
<1>2. Aboard(routes) = {i \in Jobs(Requested) : Chosen[i] \in Trucks(Requested)}
  BY DEF Aboard
<1>3. Aboard(routes) \cap out = {} /\ Aboard(routes) \cup out = Jobs(Requested)
  BY <1>2
<1>4. \A t \in DOMAIN routes : \A i \in Range(routes[t]) : Chosen[i] = t
  OBVIOUS
<1> QED BY <1>1, <1>3, <1>4 DEF Dealt

(* The last pass refuses the groups that cannot be worked.                  *)
LEMMA RefineAnswers ==
  ASSUME ReplanInv, AnswerInv, RefineAll
  PROVE  AnswerInv'
<1> DEFINE q == RefineRoutes(Strategy, book.fleet, book.scores, division)
<1>1. /\ UNCHANGED <<asked, pass, book, left, kept, first>> /\ stage = "refine" /\ division' = q
      /\ stage \in Working /\ stage \in Divided
  BY DEF RefineAll, Working, Divided
<1>2. stage' = IF \E t \in DOMAIN q : q[t] # <<>> /\ book.scores[t][q[t]] = NoScore THEN "refused"
               ELSE IF Manual THEN "time" ELSE "engines"
  BY DEF RefineAll
<1>3. Asked /\ book = Book(Tightened(Requested, pass)) /\ IsFleet(Requested)
  BY <1>1, DividingIs
<1>4. division \in Plans(Requested)
  BY <1>1 DEF ReplanInv, DivisionIsPlan
<1>5. /\ q \in Plans(Requested) /\ (Apart(division) => Apart(q))
      /\ \A t \in Trucks(Requested) : Range(q[t]) = Range(division[t])
      /\ IsDivision(Requested, book.scores, division) => IsDivision(Requested, book.scores, q)
  BY <1>3, <1>4, RefinedWorks
<1> HIDE DEF q
<1>6. DOMAIN q = Trucks(Requested)
  BY <1>3, <1>5, PlanIsCounted
<1>7. Requested' = Requested /\ (Manual' <=> Manual) /\ \A orders, out : Dealt(orders, out)' <=> Dealt(orders, out)
  BY <1>1, ChoiceStays
<1>8. CASE ~Manual
  <2>1. IsDivision(Requested, book.scores, q)
    BY <1>1, <1>5, <1>8 DEF AnswerInv, SearchIsDivision
  <2>2. stage' \in {"refused", "engines"}
    BY <1>2, <1>8
  <2> QED BY <1>1, <1>8, <2>1, <2>2, SearchStep
<1>9. CASE Manual
  <2>1. stage' \in {"refused", "time"}
        /\ (stage' = "time" => \A t \in Trucks(Requested) : q[t] # <<>> => book.scores[t][q[t]] # NoScore)
    BY <1>2, <1>6, <1>9
  <2>2. 0 \notin Trucks(Requested)
    BY <1>3, FleetIs
  <2>3. /\ \A i \in Jobs(Requested) : Chosen[i] \in {0} \cup Trucks(Requested)
        /\ \A t \in Trucks(Requested) : Range(q[t]) = {i \in Jobs(Requested) : Chosen[i] = t}
        /\ left = {i \in Jobs(Requested) : Chosen[i] = 0}
    BY <1>1, <1>5, <1>9 DEF AnswerInv, AssignedIsGathered
  <2>4. Dealt(q, left)
    BY <1>6, <1>9, <2>2, <2>3, GatheredIsDealt
  <2>5. stage' = "time" => IsDivision(Requested, book.scores, q)
    BY <1>5, <2>1, <2>4 DEF IsDivision, Dealt
  <2>6. DivisionIsDealt'
    <3>2. Dealt(division', left)
      BY <1>1, <2>4
    <3>3. Dealt(division, left)'
      BY <1>1, <3>2, ChoiceStays DEF Dealt
    <3> QED BY <1>1, <1>7, <2>5, <3>3 DEF DivisionIsDealt
  <2>7. SearchIsDivision' /\ AssignedIsGathered'
    BY <2>1 DEF SearchIsDivision, AssignedIsGathered
  <2> QED BY <1>1, <2>1, <2>6, <2>7, DealingStep
<1> QED BY <1>8, <1>9

(* What the engines leave out is reported.                                  *)
LEMMA EnginesAnswer ==
  ASSUME ReplanInv, AnswerInv, EndEngines
  PROVE  AnswerInv'
<1>1. /\ UNCHANGED <<asked, pass, book, division, kept, first>> /\ stage = "engines" /\ stage' = "time"
      /\ left' = Jobs(book.fleet) \ Aboard(division) /\ stage \in Working
  BY DEF EndEngines, Working
<1>2. Asked /\ book = Book(Tightened(Requested, pass)) /\ IsFleet(Requested)
  BY <1>1, DividingIs
<1>3. Jobs(book.fleet) = Jobs(Requested)
  BY <1>2, BookIs
<1>4. ~Manual /\ IsDivision(Requested, book.scores, division)
  BY <1>1 DEF AnswerInv, SearchIsDivision
<1>5. Aboard(division) \subseteq Jobs(Requested) /\ Apart(division)
  <2>1. division \in Plans(Requested) /\ Apart(division)
    BY <1>4 DEF IsDivision
  <2>2. DOMAIN division = Trucks(Requested) /\ \A t \in Trucks(Requested) : Range(division[t]) \subseteq Jobs(Requested)
    BY <1>2, <2>1, PlanIsCounted
  <2> QED BY <2>1, <2>2 DEF Aboard
<1>6. Requested' = Requested /\ ~Manual'
  BY <1>1, <1>4, ChoiceStays
<1>7. Dealt(division, left)'
  BY <1>1, <1>3, <1>5, <1>6 DEF Dealt, Apart, Aboard
<1>8. DivisionIsDealt'
  BY <1>1, <1>4, <1>6, <1>7 DEF DivisionIsDealt
<1>9. SearchIsDivision' /\ AssignedIsGathered'
  BY <1>1 DEF SearchIsDivision, AssignedIsGathered
<1> QED BY <1>1, <1>8, <1>9, DealingStep

(* A step that makes the offer deals the same deliveries.                   *)
LEMMA OfferAnswers ==
  ASSUME AnswerInv, UNCHANGED <<asked, pass, book, left, kept, first>>, stage' \in {"traffic", "judge"},
         Dealt(OrdersOfOffer(offer'), left)
  PROVE  AnswerInv'
<1>1. Requested' = Requested /\ FerryIsAsked' /\ (\A orders, out : Dealt(orders, out)' <=> Dealt(orders, out))
  BY ChoiceStays DEF AnswerInv
<1>2. OfferIsDealt'
  <2>1. Dealt(OrdersOfOffer(offer), left)'
    BY ChoiceStays DEF Dealt, OrdersOfOffer
  <2> QED BY <2>1 DEF OfferIsDealt
<1>3. SearchIsDivision' /\ AssignedIsGathered' /\ DivisionIsDealt'
  BY DEF SearchIsDivision, AssignedIsGathered, DivisionIsDealt
<1>4. KeptIsDealt'
  BY KeptStays DEF AnswerInv
<1> QED BY <1>1, <1>2, <1>3, <1>4 DEF AnswerInv

(* No route is lost when it gets its times: what the search could work with *)
(* tighter windows can be worked with the true ones, from its departure.    *)
LEMMA TimeAnswers ==
  ASSUME ReplanInv, AnswerInv, TimeAll
  PROVE  AnswerInv'
<1>1. UNCHANGED <<asked, pass, book, left, kept, first>> /\ stage = "time" /\ stage' = "traffic" /\ stage \in Working
  BY DEF TimeAll, Working
<1>2. Asked /\ book = Book(Tightened(Requested, pass)) /\ IsFleet(Requested)
  BY <1>1, DividingIs
<1>3. IsDivision(Requested, book.scores, division) /\ Dealt(division, left)
  BY <1>1 DEF AnswerInv, DivisionIsDealt
<1>4. division \in Plans(Requested) /\ DOMAIN division = Trucks(Requested)
  BY <1>2, <1>3, PlanIsCounted DEF IsDivision
<1>5. IsHow(pass) /\ book.scores = ScoresOf(Tightened(Requested, pass))
  BY <1>2 DEF Asked, IsHow, Book, ScoredBook, BookOf
<1> DEFINE D == {u \in DOMAIN division : division[u] # <<>>}
           timed == [t \in D |-> Timed(Problem(Final, t), division[t])]
<1>6. offer' = Standing(timed)
  BY DEF TimeAll
<1>7. \A t \in D : timed[t].order = division[t]
  BY DEF Timed
<1>8. \A t \in D : Stands(t, timed[t])
  <2> SUFFICES ASSUME NEW t \in D PROVE Stands(t, timed[t])
    OBVIOUS
  <2>1. t \in Trucks(Requested) /\ division[t] \in OrdersWithin(Jobs(Requested)) /\ division[t] # <<>>
    BY <1>4 DEF Plans
  <2>2. ScoresOf(Tightened(Requested, pass))[t][division[t]] # NoScore
    BY <1>3, <1>5, <2>1 DEF IsDivision
  <2> DEFINE p == Problem(Restored(Requested, pass), t)
  <2>3. Evaluate(At(p, Timed(p, division[t]).leave), division[t]) # NoScore
    BY <1>2, <1>5, <2>1, <2>2, ScoredStands
  <2>4. p = Problem(Final, t) /\ timed[t] = Timed(p, division[t]) /\ timed[t].order = division[t]
    BY <1>7 DEF Final
  <2> HIDE DEF p, timed
  <2> QED BY <2>3, <2>4 DEF Stands
<1>9. DOMAIN timed = D
  OBVIOUS
<1> HIDE DEF timed
<1>10. DOMAIN offer' = D /\ \A t \in D : offer'[t] = timed[t]
  BY <1>6, <1>8, <1>9 DEF Standing
<1>11. DOMAIN OrdersOfOffer(offer') = D /\ \A t \in D : OrdersOfOffer(offer')[t] = division[t]
  BY <1>7, <1>10 DEF OrdersOfOffer
<1>12. \A t \in DOMAIN division : t \in D \/ Range(division[t]) = {}
  <2>1. Range(<<>>) = {}
    BY DEF Range
  <2> QED BY <2>1
<1>13. D \subseteq DOMAIN division
  OBVIOUS
<1> HIDE DEF D
<1>14. Dealt(OrdersOfOffer(offer'), left)
  BY <1>3, <1>11, <1>12, <1>13, DealtAgain
<1> QED BY <1>1, <1>14, OfferAnswers

(* A route that is ordered again after the traffic has the same deliveries. *)
LEMMA SecondPassKeeps ==
  ASSUME NEW t, NEW route, NEW known, NEW again, Range(known.order) = Range(route.order), "order" \in DOMAIN known
  PROVE  \A r \in AnotherOrder(t, route, known, again) : Range(r.order) = Range(route.order)
<1> DEFINE Other(o) == [known EXCEPT !.order = o, !.updated = FALSE]
<1> SUFFICES ASSUME NEW o \in ReorderedFor(t, route, known.factor)
             PROVE  /\ Range(known.order) = Range(route.order)
                    /\ Range(LessLate(PreviewTraffic(t, Other(o), again), known).order) = Range(route.order)
  BY DEF AnotherOrder
<1>1. Range(o) = Range(route.order)
  BY DEF ReorderedFor, OrdersOf
<1>2. Other(o).order = o
  OBVIOUS
<1> HIDE DEF Other
<1>3. PreviewTraffic(t, Other(o), again).order = o
  BY <1>2 DEF PreviewTraffic, Retimed
<1>4. LessLate(PreviewTraffic(t, Other(o), again), known).order \in {o, known.order}
  BY <1>3 DEF LessLate
<1> QED BY <1>1, <1>4

(* The traffic changes the order of a route at most.                        *)
LEMMA TrafficAnswers ==
  ASSUME ReplanInv, AnswerInv, TrafficAll
  PROVE  AnswerInv'
<1>1. UNCHANGED <<asked, pass, book, left, kept, first>> /\ stage = "traffic" /\ stage' = "judge"
  BY DEF TrafficAll
<1>2. Dealt(OrdersOfOffer(offer), left) /\ IsOffer(Requested, offer)
  BY <1>1 DEF AnswerInv, ReplanInv, OfferIsDealt, OfferIsShown
<1> DEFINE D == DOMAIN offer
<1>3. PICK rate \in [D -> Rates], again \in Rates :
        offer' \in OneOfEach([t \in D |->
          SecondPass(t, offer[t], PreviewTraffic(t, offer[t], rate[t]), TravelFactor(rate[t]), again)])
  BY DEF TrafficAll
<1> DEFINE shown == [t \in D |->
             SecondPass(t, offer[t], PreviewTraffic(t, offer[t], rate[t]), TravelFactor(rate[t]), again)]
<1>4. \A t \in D : "order" \in DOMAIN offer[t]
  BY <1>2 DEF IsOffer, Route
<1>5. ASSUME NEW t \in D, NEW r \in shown[t] PROVE Range(r.order) = Range(offer[t].order)
  <2> DEFINE timed == PreviewTraffic(t, offer[t], rate[t])
             factor == TravelFactor(rate[t])
             known == [timed EXCEPT !.factor = factor]
  <2>1. timed.order = offer[t].order /\ "order" \in DOMAIN timed
    BY <1>4 DEF PreviewTraffic, Retimed
  <2>2. r \in SecondPass(t, offer[t], timed, factor, again)
    BY <1>5
  <2> HIDE DEF timed, factor, shown
  <2>3. known.order = offer[t].order /\ "order" \in DOMAIN known
    BY <2>1
  <2>4. r = timed \/ r \in AnotherOrder(t, offer[t], known, again)
    BY <2>2 DEF SecondPass
  <2> HIDE DEF known
  <2>5. \A x \in AnotherOrder(t, offer[t], known, again) : Range(x.order) = Range(offer[t].order)
    BY <2>3, SecondPassKeeps
  <2> QED BY <2>1, <2>4, <2>5
<1>6. DOMAIN shown = D /\ offer' \in OneOfEach(shown)
  BY <1>3
<1> HIDE DEF shown
<1>7. DOMAIN offer' = D /\ \A t \in D : offer'[t] \in shown[t]
  BY <1>6 DEF OneOfEach
<1>8. /\ DOMAIN OrdersOfOffer(offer') = DOMAIN OrdersOfOffer(offer)
      /\ \A t \in DOMAIN OrdersOfOffer(offer') : Range(OrdersOfOffer(offer')[t]) = Range(OrdersOfOffer(offer)[t])
  BY <1>5, <1>7 DEF OrdersOfOffer
<1>9. Dealt(OrdersOfOffer(offer'), left)
  BY <1>2, <1>8, DealtAgain
<1> QED BY <1>1, <1>9, OfferAnswers

(* An attempt begins, or everything is beyond the sea.                      *)
LEMMA BeginAnswers ==
  ASSUME ReplanInv, AnswerInv, Begin
  PROVE  AnswerInv'
<1>1. UNCHANGED <<asked, pass, division, seed, offer, first>> /\ stage = "begin" /\ stage' \in {"answered", "divide"}
  BY DEF Begin
<1>2. /\ Requested' = Requested /\ FerryIsAsked'
      /\ (\A orders, out : Dealt(orders, out)' <=> Dealt(orders, out))
  BY <1>1, ChoiceStays DEF AnswerInv
<1>3. SearchIsDivision' /\ AssignedIsGathered' /\ DivisionIsDealt' /\ OfferIsDealt'
  BY <1>1 DEF SearchIsDivision, AssignedIsGathered, DivisionIsDealt, OfferIsDealt
<1>4. KeptIsDealt'
  <2>1. CASE Reachable # <<>>
    <3>1. kept' = kept /\ stage' = "divide"
      BY <2>1 DEF Begin
    <3> QED BY <1>1, <3>1, KeptStays DEF AnswerInv
  <2>2. CASE Reachable = <<>>
    <3>1. kept'.offer = <<>> /\ kept'.left = {}
      BY <2>2 DEF Begin
    <3>2. Jobs(Requested) = {}
      <4>1. Jobs(Requested) = 1 .. Len(Reachable)
        BY ReachableIs DEF ReplanInv, Asked
      <4> QED BY <2>2, <4>1
    <3>3. DOMAIN <<>> = {}
      OBVIOUS
    <3>4. IsOffer(Requested, <<>>)
      BY <3>3 DEF IsOffer
    <3>5. Dealt(OrdersOfOffer(<<>>), {})
      <4>1. DOMAIN OrdersOfOffer(<<>>) = {}
        BY <3>3 DEF OrdersOfOffer
      <4> QED BY <3>2, <4>1 DEF Dealt, Apart, Aboard
    <3>6. Dealt(OrdersOfOffer(kept.offer), kept.left)'
      BY <1>1, <3>1, <3>5, ChoiceStays DEF Dealt, OrdersOfOffer
    <3> QED BY <1>2, <3>1, <3>4, <3>6 DEF KeptIsDealt
  <2> QED BY <2>1, <2>2
<1> QED BY <1>2, <1>3, <1>4 DEF AnswerInv

(* Whichever attempt is kept has dealt every delivery.                      *)
LEMMA JudgeAnswers ==
  ASSUME ReplanInv, AnswerInv, JudgeFirst \/ JudgeAgain
  PROVE  AnswerInv'
<1>1. /\ asked' = asked /\ stage = "judge" /\ stage' \in {"answered", "begin"}
      /\ kept' = This \/ (first # <<>> /\ kept' = kept)
  BY DEF JudgeFirst, JudgeAgain
<1>2. Requested' = Requested /\ FerryIsAsked'
  BY <1>1, ChoiceStays DEF AnswerInv
<1>3. SearchIsDivision' /\ AssignedIsGathered' /\ DivisionIsDealt' /\ OfferIsDealt'
  BY <1>1 DEF SearchIsDivision, AssignedIsGathered, DivisionIsDealt, OfferIsDealt
<1>4. IsOffer(Requested, kept'.offer) /\ Dealt(OrdersOfOffer(kept'.offer), kept'.left)
  <2>1. CASE kept' = This
    <3>1. kept'.offer = offer /\ kept'.left = left
      BY <2>1 DEF This
    <3>2. IsOffer(Requested, offer) /\ Dealt(OrdersOfOffer(offer), left)
      BY <1>1 DEF AnswerInv, ReplanInv, OfferIsDealt, OfferIsShown
    <3> QED BY <3>1, <3>2
  <2>2. CASE first # <<>> /\ kept' = kept
    BY <2>2 DEF AnswerInv, KeptIsDealt
  <2> QED BY <1>1, <2>1, <2>2
<1>5. Dealt(OrdersOfOffer(kept.offer), kept.left)'
  BY <1>1, <1>4, ChoiceStays DEF Dealt, OrdersOfOffer
<1>6. KeptIsDealt'
  BY <1>2, <1>4, <1>5 DEF KeptIsDealt
<1> QED BY <1>2, <1>3, <1>6 DEF AnswerInv

(* The routes of an answer, in the numbers of the request, deal every       *)
(* delivery that needs no ferry.                                            *)
LEMMA AnswerIsForAll ==
  ASSUME Asked, FerryIsAsked, IsOffer(Requested, kept.offer), Dealt(OrdersOfOffer(kept.offer), kept.left)
  PROVE  LET shown == [t \in DOMAIN kept.offer |-> StopIndexes(t)]
         IN /\ Cardinality(Aboard(shown)) = Served(shown)
            /\ Aboard(shown) \cap LeftOut = {}
            /\ Aboard(shown) \cup LeftOut = Jobs(Fleets[asked.fleet])
            /\ Manual => \A t \in DOMAIN shown : \A job \in Range(shown[t]) : asked.assignments[job] = t
<1> DEFINE D == DOMAIN kept.offer
           shown == [t \in D |-> StopIndexes(t)]
           orders == OrdersOfOffer(kept.offer)
           all == Jobs(Fleets[asked.fleet])
           n == Len(Reachable)
           Names(s) == {Reachable[i] : i \in s}
<1>1. IsFleet(Requested) /\ asked.fleet \in DOMAIN Fleets
  BY RequestedTyped DEF Asked
<1>2. /\ n \in Nat /\ DOMAIN Reachable = 1 .. n /\ Distinct(Reachable)
      /\ Range(Reachable) = all \ asked.ferry /\ Jobs(Requested) = 1 .. n
  BY <1>1, ReachableIs
<1>3. IsFiniteSet(D) /\ \A t \in D : t \in Trucks(Requested) /\ kept.offer[t] \in Route(Requested)
  BY <1>1, OfferIs
<1>4. DOMAIN orders = D /\ \A t \in D : orders[t] = kept.offer[t].order
  BY DEF OrdersOfOffer
<1>5. \A t \in D : /\ Len(orders[t]) \in Nat /\ DOMAIN orders[t] = 1 .. Len(orders[t]) /\ Distinct(orders[t])
                   /\ Range(orders[t]) \subseteq 1 .. n
  <2> SUFFICES ASSUME NEW t \in D
               PROVE  /\ Len(orders[t]) \in Nat /\ DOMAIN orders[t] = 1 .. Len(orders[t]) /\ Distinct(orders[t])
                      /\ Range(orders[t]) \subseteq 1 .. n
    OBVIOUS
  <2>1. kept.offer[t].order \in OrdersWithin(1 .. n)
    BY <1>1, <1>2, <1>3, RouteIs
  <2> HIDE DEF n, orders
  <2>2. orders[t] \in OrdersWithin(1 .. n) /\ n \in Nat
    BY <1>2, <1>4, <2>1
  <2>3. Range(orders[t]) \in SUBSET (1 .. n)
    BY <2>2, OrdersWithinAre
  <2> QED BY <2>2, <2>3, OrdersAreDistinct
<1>6. \A t \in D : shown[t] = [i \in DOMAIN orders[t] |-> Reachable[orders[t][i]]]
  BY <1>4 DEF StopIndexes
<1>7. DOMAIN shown = D
  OBVIOUS
<1>8. LeftOut = Names(kept.left) \cup asked.ferry
  BY DEF LeftOut
<1>9. Dealt(orders, kept.left)
  OBVIOUS
<1> HIDE DEF D, shown, orders, all, n
<1>10. \A i, j \in 1 .. n : Reachable[i] = Reachable[j] => i = j
  BY <1>2 DEF Distinct
<1>11. ASSUME NEW t \in D
       PROVE  /\ Len(shown[t]) \in Nat /\ IsFiniteSet(Range(shown[t])) /\ Cardinality(Range(shown[t])) = Len(shown[t])
              /\ Range(shown[t]) = Names(Range(orders[t]))
  <2> DEFINE o == orders[t]
             m == Len(o)
             s == shown[t]
  <2>1. m \in Nat /\ DOMAIN o = 1 .. m /\ Distinct(o) /\ Range(o) \subseteq 1 .. n
    BY <1>5
  <2>2. s = [i \in 1 .. m |-> Reachable[o[i]]]
    BY <1>6, <2>1
  <2> HIDE DEF o, s, m
  <2>3. DOMAIN s = 1 .. m /\ Len(s) = m /\ \A i \in 1 .. m : s[i] = Reachable[o[i]]
    BY <2>1, <2>2
  <2>4. \A i \in 1 .. m : o[i] \in 1 .. n
    BY <2>1 DEF Range
  <2>5. Distinct(s)
    BY <1>10, <2>1, <2>3, <2>4 DEF Distinct
  <2>6. Range(s) = Names(Range(o))
    BY <2>1, <2>3 DEF Range
  <2>7. IsFiniteSet(Range(s)) /\ Cardinality(Range(s)) = Len(s)
    BY <2>1, <2>3, <2>5, DistinctCounts
  <2> QED BY <2>1, <2>3, <2>6, <2>7 DEF o, s
<1>12. /\ Apart(orders) /\ Aboard(orders) \cap kept.left = {} /\ Aboard(orders) \cup kept.left = 1 .. n
       /\ Manual => \A t \in D : \A i \in Range(orders[t]) : Chosen[i] = t
  BY <1>2, <1>4, <1>9 DEF Dealt
<1>13. Cardinality(Aboard(shown)) = Served(shown)
  <2>1. Apart(shown)
    <3> SUFFICES ASSUME NEW t \in D, NEW u \in D, t # u PROVE Range(shown[t]) \cap Range(shown[u]) = {}
      BY <1>7 DEF Apart
    <3>1. Range(orders[t]) \cap Range(orders[u]) = {} /\ Range(orders[t]) \subseteq 1 .. n /\ Range(orders[u]) \subseteq 1 .. n
      BY <1>4, <1>5, <1>12 DEF Apart
    <3>2. Range(shown[t]) = Names(Range(orders[t])) /\ Range(shown[u]) = Names(Range(orders[u]))
      BY <1>11
    <3> QED BY <1>10, <3>1, <3>2
  <2>2. NamesOnce(shown)
    BY <1>7, <1>11 DEF NamesOnce
  <2> QED BY <1>3, <1>7, <2>1, <2>2, CountIsApart
<1>14. Aboard(shown) = Names(Aboard(orders))
  <2>1. \A t \in D : Range(shown[t]) = Names(Range(orders[t]))
    BY <1>11
  <2> QED BY <1>4, <1>7, <2>1 DEF Aboard
<1>15. Names(1 .. n) = all \ asked.ferry
  BY <1>2 DEF Range
<1>16. Aboard(orders) \subseteq 1 .. n /\ kept.left \subseteq 1 .. n
  BY <1>12
<1>17. Aboard(shown) \cap LeftOut = {}
  <2>1. Names(Aboard(orders)) \cap Names(kept.left) = {}
    BY <1>10, <1>12, <1>16
  <2>2. Names(Aboard(orders)) \subseteq Names(1 .. n)
    BY <1>16
  <2> QED BY <1>8, <1>14, <1>15, <2>1, <2>2
<1>18. Aboard(shown) \cup LeftOut = all
  <2>1. Names(Aboard(orders)) \cup Names(kept.left) = Names(1 .. n)
    BY <1>12
  <2>2. asked.ferry \subseteq all
    BY DEF FerryIsAsked, all
  <2> QED BY <1>8, <1>14, <1>15, <2>1, <2>2
<1>19. Manual => \A t \in D : \A job \in Range(shown[t]) : asked.assignments[job] = t
  <2> SUFFICES ASSUME Manual, NEW t \in D, NEW job \in Range(shown[t]) PROVE asked.assignments[job] = t
    OBVIOUS
  <2>1. PICK i \in Range(orders[t]) : job = Reachable[i]
    BY <1>11
  <2>2. i \in 1 .. n /\ Chosen[i] = t
    BY <1>5, <1>12, <2>1
  <2>3. Chosen[i] = asked.assignments[Reachable[i]]
    BY <1>2, <2>2 DEF Chosen
  <2> QED BY <2>1, <2>2, <2>3
<1> QED BY <1>7, <1>13, <1>17, <1>18, <1>19 DEF shown, D, all

(* A delivery of the request is in one route of the answer, once, or among  *)
(* the unassigned, never in both, and on the vehicle the operator has       *)
(* chosen for it: for every fleet, every island, every traffic and whatever *)
(* the searches and the engines find.  The narrower windows that a search   *)
(* is given lose no route: what it can work with them, the driver can work  *)
(* with the true ones.                                                      *)
THEOREM EveryStopIsAnswered == ProposalSpec => []EveryStopIsAnsweredFor
<1>1. ProposalInit => ReplanInv
  BY ReplanBegins
<1>2. ProposalInit => AnswerInv
  <2> SUFFICES ASSUME ProposalInit PROVE AnswerInv
    OBVIOUS
  <2>1. asked.ferry \subseteq Jobs(Fleets[asked.fleet]) /\ stage = "begin" /\ first = <<>>
    BY DEF ProposalInit
  <2> QED BY <2>1
        DEF AnswerInv, FerryIsAsked, SearchIsDivision, AssignedIsGathered, DivisionIsDealt, OfferIsDealt, KeptIsDealt
<1>3. ReplanInv /\ [ProposalNext]_proposalVars => ReplanInv'
  BY ReplanKeeps
<1>4. ReplanInv /\ AnswerInv /\ [ProposalNext]_proposalVars => AnswerInv'
  <2> SUFFICES ASSUME ReplanInv, AnswerInv, [ProposalNext]_proposalVars PROVE AnswerInv'
    OBVIOUS
  <2>1. CASE UNCHANGED proposalVars
    <3>1. UNCHANGED <<asked, stage, book, division, seed, offer, left, kept, first>>
      BY <2>1 DEF proposalVars
    <3>2. /\ Requested' = Requested /\ Chosen' = Chosen /\ (Manual' <=> Manual)
          /\ (FerryIsAsked => FerryIsAsked')
      BY <3>1, ChoiceStays
    <3>3. SearchIsDivision' /\ AssignedIsGathered'
      BY <3>1, <3>2 DEF AnswerInv, SearchIsDivision, AssignedIsGathered
    <3>4. DivisionIsDealt' /\ OfferIsDealt' /\ KeptIsDealt'
      BY <3>1, <3>2 DEF AnswerInv, DivisionIsDealt, OfferIsDealt, KeptIsDealt, Dealt, OrdersOfOffer
    <3> QED BY <3>2, <3>3, <3>4 DEF AnswerInv
  <2>2. CASE Begin
    BY <2>2, BeginAnswers
  <2>3. CASE Assign
    BY <2>3, AssignAnswers
  <2>4. CASE \/ Search \/ SearchDistance \/ SkipRecovery \/ SearchAlternate
             \/ PairExchangeRepair \/ SolveFleetMilp \/ EndRecovery
             \/ stage = "engines" /\ \E proposal \in clocked : Improve(proposal)
    BY <2>4, SearchAnswers
  <2>5. CASE RefineAll
    BY <2>5, RefineAnswers
  <2>6. CASE EndEngines
    BY <2>6, EnginesAnswer
  <2>7. CASE TimeAll
    BY <2>7, TimeAnswers
  <2>8. CASE TrafficAll
    BY <2>8, TrafficAnswers
  <2>9. CASE JudgeFirst \/ JudgeAgain
    BY <2>9, JudgeAnswers
  <2> QED BY <2>1, <2>2, <2>3, <2>4, <2>5, <2>6, <2>7, <2>8, <2>9, Zenon DEF ProposalNext
<1>5. ReplanInv /\ AnswerInv => EveryStopIsAnsweredFor
  BY AnswerIsForAll DEF ReplanInv, AnswerInv, KeptIsDealt, EveryStopIsAnsweredFor
<1> QED BY <1>1, <1>2, <1>3, <1>4, <1>5, PTL DEF ProposalSpec

-----------------------------------------------------------------------------
(* The numbers that compare two plans.                                      *)

Objectives == {"balanced", "distance", "efficient", "vehicles"}

(* How many numbers compare two plans under an objective.                   *)
Width(objective) == IF objective = "balanced" THEN 7 ELSE IF objective = "efficient" THEN 6 ELSE 5

(* What a plan is worth on one vehicle.                                     *)
LEMMA ReplayTyped ==
  ASSUME NEW f, IsFleet(f), NEW p \in Plans(f), ValidPlan(ScoresOf(f), p), NEW t \in Trucks(f)
  PROVE  Replay(ScoresOf(f), t, p[t]) \in ScoreSet
<1>1. p[t] \in OrdersWithin(Jobs(f)) /\ DOMAIN p = Trucks(f)
  BY DEF Plans
<1>2. CASE p[t] = <<>>
  <2>1. [km |-> 0, minutes |-> 0, cost |-> 0, work |-> 0] \in ScoreSet
    BY DEF ScoreSet
  <2> QED BY <1>2, <2>1 DEF Replay
<1>3. CASE p[t] # <<>>
  <2>1. ScoresOf(f)[t][p[t]] \in Answers /\ ScoresOf(f)[t][p[t]] # NoScore
    BY <1>1, <1>3, ScoresTyped DEF ValidPlan
  <2> QED BY <1>3, <2>1 DEF Replay, Answers
<1> QED BY <1>2, <1>3

(* The gear that is missing in an order is a number.                        *)
LEMMA MismatchTyped ==
  ASSUME NEW f, IsFleet(f), NEW t \in Trucks(f), NEW o \in OrdersWithin(Jobs(f))
  PROVE  Mismatch(f, t, o) \in Int
<1> DEFINE m == [i \in DOMAIN o |-> Cardinality(f.stops[o[i]].needs \ f.trucks[t].gear)]
<1>1. o \in Seq(Jobs(f)) /\ Len(o) \in Nat
  BY OrdersTyped, FleetIs
<1>2. DOMAIN o = 1 .. Len(o) /\ \A i \in DOMAIN o : o[i] \in Jobs(f)
  BY <1>1
<1>3. IsFiniteSet(DOMAIN o)
  BY <1>1, <1>2, CountTo
<1>4. ASSUME NEW i \in DOMAIN o PROVE Cardinality(f.stops[o[i]].needs \ f.trucks[t].gear) \in Int
  <2> DEFINE s == f.stops[o[i]].needs
  <2>1. IsFiniteSet(s)
    BY <1>2, FleetIs DEF IsCall
  <2> HIDE DEF s
  <2>2. IsFiniteSet(s \ f.trucks[t].gear)
    BY <2>1, FS_Subset
  <2>3. Cardinality(s \ f.trucks[t].gear) \in Nat
    BY <2>2, FS_CardinalityType
  <2> QED BY <2>3 DEF s
<1>5. m \in [DOMAIN o -> Int]
  BY <1>4
<1> HIDE DEF m
<1>6. Total(m) \in Int
  BY <1>3, <1>5, TotalTyped
<1> QED BY <1>6 DEF Mismatch, m

(* Two tuples one behind the other.                                         *)
LEMMA JoinedIs ==
  ASSUME NEW u \in Seq(Int), NEW v \in Seq(Int), NEW w \in Seq(Int), Len(w) = Len(u) + Len(v),
         \A i \in 1 .. Len(w) : w[i] = IF i <= Len(u) THEN u[i] ELSE v[i - Len(u)]
  PROVE  u \o v = w
<1>1. u \o v \in Seq(Int) /\ Len(u \o v) = Len(w)
  BY ConcatProperties
<1>2. \A i \in 1 .. Len(w) : (u \o v)[i] = w[i]
  BY ConcatProperties
<1> QED BY <1>1, <1>2, SeqEqual

(* The two first numbers, before those of the objective.                    *)
LEMMA KeysJoined ==
  ASSUME NEW a \in Int, NEW b \in Int, NEW c \in Int, NEW d \in Int, NEW e \in Int, NEW x \in Int, NEW y \in Int
  PROVE  /\ <<a, b>> \o <<c, d, e, x, y>> = <<a, b, c, d, e, x, y>>
         /\ <<a, b>> \o <<c, d, e, x>> = <<a, b, c, d, e, x>>
         /\ <<a, b>> \o <<c, d, e>> = <<a, b, c, d, e>>
<1> DEFINE u == <<a, b>>
<1>1. u \in Seq(Int) /\ Len(u) = 2 /\ u[1] = a /\ u[2] = b
  OBVIOUS
<1>2. u \o <<c, d, e>> = <<a, b, c, d, e>>
  <2> DEFINE v == <<c, d, e>>
             w == <<a, b, c, d, e>>
  <2>1. v \in Seq(Int) /\ Len(v) = 3 /\ v[1] = c /\ v[2] = d /\ v[3] = e
    OBVIOUS
  <2>2. w \in Seq(Int) /\ Len(w) = 5 /\ w[1] = a /\ w[2] = b /\ w[3] = c /\ w[4] = d /\ w[5] = e
    OBVIOUS
  <2> HIDE DEF u, v, w
  <2>3. u \in Seq(Int) /\ v \in Seq(Int) /\ w \in Seq(Int) /\ Len(w) = Len(u) + Len(v)
    BY <1>1, <2>1, <2>2
  <2>5. \A i \in 1 .. Len(w) : w[i] = IF i <= Len(u) THEN u[i] ELSE v[i - Len(u)]
    BY <1>1, <2>1, <2>2
  <2>4. u \o v = w
    BY <2>3, <2>5, JoinedIs
  <2> QED BY <2>4 DEF v, w
<1>3. u \o <<c, d, e, x>> = <<a, b, c, d, e, x>>
  <2> DEFINE v == <<c, d, e, x>>
             w == <<a, b, c, d, e, x>>
  <2>1. v \in Seq(Int) /\ Len(v) = 4 /\ v[1] = c /\ v[2] = d /\ v[3] = e /\ v[4] = x
    OBVIOUS
  <2>2. w \in Seq(Int) /\ Len(w) = 6 /\ w[1] = a /\ w[2] = b /\ w[3] = c /\ w[4] = d /\ w[5] = e /\ w[6] = x
    OBVIOUS
  <2> HIDE DEF u, v, w
  <2>3. u \in Seq(Int) /\ v \in Seq(Int) /\ w \in Seq(Int) /\ Len(w) = Len(u) + Len(v)
    BY <1>1, <2>1, <2>2
  <2>5. \A i \in 1 .. Len(w) : w[i] = IF i <= Len(u) THEN u[i] ELSE v[i - Len(u)]
    BY <1>1, <2>1, <2>2
  <2>4. u \o v = w
    BY <2>3, <2>5, JoinedIs
  <2> QED BY <2>4 DEF v, w
<1>4. u \o <<c, d, e, x, y>> = <<a, b, c, d, e, x, y>>
  <2> DEFINE v == <<c, d, e, x, y>>
             w == <<a, b, c, d, e, x, y>>
  <2>1. v \in Seq(Int) /\ Len(v) = 5 /\ v[1] = c /\ v[2] = d /\ v[3] = e /\ v[4] = x /\ v[5] = y
    OBVIOUS
  <2>2. w \in Seq(Int) /\ Len(w) = 7 /\ w[1] = a /\ w[2] = b /\ w[3] = c /\ w[4] = d /\ w[5] = e /\ w[6] = x /\ w[7] = y
    OBVIOUS
  <2> HIDE DEF u, v, w
  <2>3. u \in Seq(Int) /\ v \in Seq(Int) /\ w \in Seq(Int) /\ Len(w) = Len(u) + Len(v)
    BY <1>1, <2>1, <2>2
  <2>5. \A i \in 1 .. Len(w) : w[i] = IF i <= Len(u) THEN u[i] ELSE v[i - Len(u)]
    BY <1>1, <2>1, <2>2
  <2>4. u \o v = w
    BY <2>3, <2>5, JoinedIs
  <2> QED BY <2>4 DEF v, w
<1> QED BY <1>2, <1>3, <1>4 DEF u

(* Five, six or seven numbers are a key.                                    *)
LEMMA NumbersAreKeys ==
  ASSUME NEW a \in Int, NEW b \in Int, NEW c \in Int, NEW d \in Int, NEW e \in Int, NEW x \in Int, NEW y \in Int
  PROVE  <<a, b, c, d, e>> \in KeysOf(5) /\ <<a, b, c, d, e, x>> \in KeysOf(6) /\ <<a, b, c, d, e, x, y>> \in KeysOf(7)
BY DEF KeysOf

(* The numbers by which a plan is compared.                                 *)
Sums(f, p, field) == Total([t \in Trucks(f) |-> Replay(ScoresOf(f), t, p[t])[field]])
Works(f, p) == [t \in Trucks(f) |-> Replay(ScoresOf(f), t, p[t]).work]
Squares(f, p) == Total([t \in Trucks(f) |-> Works(f, p)[t] * Works(f, p)[t]])
Active(f, p) == Cardinality({t \in Trucks(f) : p[t] # <<>>})
Misses(f, p) == Total([t \in Trucks(f) |-> Mismatch(f, t, p[t])])

(* Of a plan that can be worked every figure is a number.                   *)
LEMMA NumbersTyped ==
  ASSUME NEW f, IsFleet(f), f.trucks # <<>>, NEW p \in Plans(f), ValidPlan(ScoresOf(f), p)
  PROVE  /\ \A field \in {"km", "minutes", "cost", "work"} : Sums(f, p, field) \in Int
         /\ Works(f, p) \in [Trucks(f) -> Int] /\ Range(Works(f, p)) # {} /\ IsFiniteSet(Range(Works(f, p)))
         /\ Greatest(Range(Works(f, p))) \in Int
         /\ Squares(f, p) \in Int /\ Total(Works(f, p)) \in Int
         /\ Active(f, p) \in Int /\ Misses(f, p) \in Int /\ Served(p) \in Int
<1> DEFINE D == Trucks(f)
<1>1. D = 1 .. Len(f.trucks) /\ Len(f.trucks) \in Nat /\ 1 \in D
  <2>1. D = 1 .. Len(f.trucks) /\ Len(f.trucks) \in Nat
    BY FleetIs
  <2>2. Len(f.trucks) # 0
    BY <2>1 DEF IsFleet
  <2> QED BY <2>1, <2>2
<1>2. IsFiniteSet(D)
  BY <1>1, CountTo
<1>3. \A t \in D : p[t] \in OrdersWithin(Jobs(f))
  BY DEF Plans
<1> DEFINE r(t) == Replay(ScoresOf(f), t, p[t])
<1>4. \A t \in D : r(t) \in ScoreSet
  BY ReplayTyped
<1>5. \A t \in D : r(t).km \in Int /\ r(t).minutes \in Int /\ r(t).cost \in Int /\ r(t).work \in Int
  BY <1>4 DEF ScoreSet
<1> HIDE DEF D
<1>6. ASSUME NEW field \in {"km", "minutes", "cost", "work"} PROVE Sums(f, p, field) \in Int
  <2> DEFINE v == [t \in D |-> r(t)[field]]
  <2>1. v \in [D -> Int]
    <3>1. \A t \in D : r(t)[field] \in Int
      BY <1>5
    <3> QED BY <3>1
  <2> HIDE DEF v
  <2>2. Total(v) \in Int
    BY <1>2, <2>1, TotalTyped
  <2> QED BY <2>2 DEF Sums, v, D
<1> DEFINE w == Works(f, p)
<1>7. w \in [D -> Int]
  BY <1>5 DEF Works, D
<1>8. Range(w) # {} /\ Range(w) = {w[t] : t \in D} /\ Range(w) \subseteq Int
  BY <1>1, <1>7 DEF Range
<1> HIDE DEF w, r
<1>9. IsFiniteSet(Range(w))
  BY <1>2, <1>8, ImageIsFinite
<1>10. Greatest(Range(w)) \in Int
  <2>1. Greatest(Range(w)) \in Range(w)
    BY <1>8, <1>9, GreatestIs
  <2> QED BY <1>8, <2>1
<1>11. Squares(f, p) \in Int
  <2> DEFINE v == [t \in D |-> w[t] * w[t]]
  <2>1. v \in [D -> Int]
    BY <1>7
  <2> HIDE DEF v
  <2>2. Total(v) \in Int
    BY <1>2, <2>1, TotalTyped
  <2> QED BY <2>2 DEF Squares, v, D, w
<1>12. Total(w) \in Int
  BY <1>2, <1>7, TotalTyped
<1>13. Active(f, p) \in Int
  <2>1. {t \in D : p[t] # <<>>} \in SUBSET D
    OBVIOUS
  <2>2. IsFiniteSet({t \in D : p[t] # <<>>})
    BY <1>2, <2>1, FS_Subset
  <2> QED BY <2>2, FS_CardinalityType DEF Active, D
<1>14. Misses(f, p) \in Int
  <2> DEFINE v == [t \in D |-> Mismatch(f, t, p[t])]
  <2>1. v \in [D -> Int]
    <3>1. \A t \in D : Mismatch(f, t, p[t]) \in Int
      BY <1>3, MismatchTyped DEF D
    <3> QED BY <3>1
  <2> HIDE DEF v
  <2>2. Total(v) \in Int
    BY <1>2, <2>1, TotalTyped
  <2> QED BY <2>2 DEF Misses, v, D
<1>15. Served(p) \in Int
  <2> DEFINE v == [t \in DOMAIN p |-> Len(p[t])]
  <2>1. DOMAIN p = D
    BY DEF Plans, D
  <2>2. v \in [D -> Int]
    <3>1. \A t \in D : Len(p[t]) \in Int
      BY <1>3, OrdersTyped
    <3> QED BY <2>1, <3>1
  <2> HIDE DEF v
  <2>3. Total(v) \in Int
    BY <1>2, <2>2, TotalTyped
  <2> QED BY <2>3 DEF Served, v
<1> QED BY <1>6, <1>7, <1>8, <1>9, <1>10, <1>11, <1>12, <1>13, <1>14, <1>15 DEF w, D

(* The key of a plan, objective by objective.                               *)
LEMMA PlanKeyIs ==
  ASSUME NEW f, IsFleet(f), f.trucks # <<>>, NEW p \in Plans(f), ValidPlan(ScoresOf(f), p)
  PROVE  /\ PlanKey("balanced", f, ScoresOf(f), p) =
              <<-Served(p), Misses(f, p), -Active(f, p), Greatest(Range(Works(f, p))), Squares(f, p),
                Total(Works(f, p)), Sums(f, p, "km")>>
         /\ PlanKey("distance", f, ScoresOf(f), p) =
              <<-Served(p), Misses(f, p), Sums(f, p, "km"), Sums(f, p, "minutes"), Active(f, p)>>
         /\ PlanKey("efficient", f, ScoresOf(f), p) =
              <<-Served(p), Misses(f, p), Sums(f, p, "cost"), Sums(f, p, "km"), Sums(f, p, "minutes"), Active(f, p)>>
         /\ PlanKey("vehicles", f, ScoresOf(f), p) =
              <<-Served(p), Misses(f, p), Active(f, p), Sums(f, p, "minutes"), Sums(f, p, "km")>>
<1>1. /\ \A field \in {"km", "minutes", "cost", "work"} : Sums(f, p, field) \in Int
      /\ Greatest(Range(Works(f, p))) \in Int
      /\ Squares(f, p) \in Int /\ Total(Works(f, p)) \in Int
      /\ Active(f, p) \in Int /\ Misses(f, p) \in Int /\ Served(p) \in Int
  BY NumbersTyped
<1> DEFINE head == <<-Served(p), Misses(f, p)>>
<1>2. PlanKey("balanced", f, ScoresOf(f), p) =
        head \o <<-Active(f, p), Greatest(Range(Works(f, p))), Squares(f, p), Total(Works(f, p)), Sums(f, p, "km")>>
  BY DEF PlanKey, Sums, Works, Squares, Active, Misses
<1>3. PlanKey("distance", f, ScoresOf(f), p) = head \o <<Sums(f, p, "km"), Sums(f, p, "minutes"), Active(f, p)>>
  BY DEF PlanKey, Sums, Active, Misses
<1>4. PlanKey("efficient", f, ScoresOf(f), p) =
        head \o <<Sums(f, p, "cost"), Sums(f, p, "km"), Sums(f, p, "minutes"), Active(f, p)>>
  BY DEF PlanKey, Sums, Active, Misses
<1>5. PlanKey("vehicles", f, ScoresOf(f), p) = head \o <<Active(f, p), Sums(f, p, "minutes"), Sums(f, p, "km")>>
  BY DEF PlanKey, Sums, Active, Misses
<1>6. -Served(p) \in Int /\ -Active(f, p) \in Int /\ Sums(f, p, "km") \in Int /\ Sums(f, p, "minutes") \in Int /\ Sums(f, p, "cost") \in Int
  BY <1>1
<1>7. PlanKey("balanced", f, ScoresOf(f), p) =
              <<-Served(p), Misses(f, p), -Active(f, p), Greatest(Range(Works(f, p))), Squares(f, p),
                Total(Works(f, p)), Sums(f, p, "km")>>
  BY <1>1, <1>2, <1>6, KeysJoined
<1>8. PlanKey("distance", f, ScoresOf(f), p) =
              <<-Served(p), Misses(f, p), Sums(f, p, "km"), Sums(f, p, "minutes"), Active(f, p)>>
  BY <1>1, <1>3, <1>6, KeysJoined
<1>9. PlanKey("efficient", f, ScoresOf(f), p) =
              <<-Served(p), Misses(f, p), Sums(f, p, "cost"), Sums(f, p, "km"), Sums(f, p, "minutes"), Active(f, p)>>
  BY <1>1, <1>4, <1>6, KeysJoined
<1>10. PlanKey("vehicles", f, ScoresOf(f), p) =
              <<-Served(p), Misses(f, p), Active(f, p), Sums(f, p, "minutes"), Sums(f, p, "km")>>
  BY <1>1, <1>5, <1>6, KeysJoined
<1> QED BY <1>7, <1>8, <1>9, <1>10

(* So the plans of a fleet compare number by number.                        *)
LEMMA PlanKeyTyped ==
  ASSUME NEW f, IsFleet(f), f.trucks # <<>>, NEW p \in Plans(f), ValidPlan(ScoresOf(f), p), NEW objective \in Objectives
  PROVE  PlanKey(objective, f, ScoresOf(f), p) \in KeysOf(Width(objective))
<1>1. /\ Sums(f, p, "km") \in Int /\ Sums(f, p, "minutes") \in Int /\ Sums(f, p, "cost") \in Int
      /\ Greatest(Range(Works(f, p))) \in Int
      /\ Squares(f, p) \in Int /\ Total(Works(f, p)) \in Int
      /\ Active(f, p) \in Int /\ Misses(f, p) \in Int /\ Served(p) \in Int
  BY NumbersTyped
<1> DEFINE a == -Served(p)
           b == Misses(f, p)
           c == Active(f, p)
           d == -Active(f, p)
           g == Greatest(Range(Works(f, p)))
           h == Squares(f, p)
           i == Total(Works(f, p))
           j == Sums(f, p, "km")
           k == Sums(f, p, "minutes")
           l == Sums(f, p, "cost")
<1>2. a \in Int /\ b \in Int /\ c \in Int /\ d \in Int /\ g \in Int /\ h \in Int /\ i \in Int /\ j \in Int /\ k \in Int /\ l \in Int
  BY <1>1
<1>7. /\ PlanKey("balanced", f, ScoresOf(f), p) = <<a, b, d, g, h, i, j>>
      /\ PlanKey("distance", f, ScoresOf(f), p) = <<a, b, j, k, c>>
      /\ PlanKey("efficient", f, ScoresOf(f), p) = <<a, b, l, j, k, c>>
      /\ PlanKey("vehicles", f, ScoresOf(f), p) = <<a, b, c, k, j>>
  BY PlanKeyIs
<1> HIDE DEF a, b, c, d, g, h, i, j, k, l
<1>8. /\ <<a, b, d, g, h, i, j>> \in KeysOf(7) /\ <<a, b, j, k, c>> \in KeysOf(5)
      /\ <<a, b, l, j, k, c>> \in KeysOf(6) /\ <<a, b, c, k, j>> \in KeysOf(5)
  BY <1>2, NumbersAreKeys
<1>3. CASE objective = "balanced"
  BY <1>3, <1>7, <1>8 DEF Width
<1>4. CASE objective = "efficient"
  BY <1>4, <1>7, <1>8 DEF Width
<1>5. CASE objective = "distance"
  BY <1>5, <1>7, <1>8 DEF Width
<1>6. CASE objective = "vehicles"
  BY <1>6, <1>7, <1>8 DEF Width
<1> QED BY <1>3, <1>4, <1>5, <1>6 DEF Objectives

(* The orders of finitely many deliveries are finitely many.                *)
LEMMA OrdersWithinFinite ==
  ASSUME NEW f, IsFleet(f)
  PROVE  IsFiniteSet(OrdersWithin(Jobs(f)))
<1> DEFINE n == Len(f.stops)
           parts == {OrdersOf(s) : s \in SUBSET (1 .. n)}
<1>1. n \in Nat /\ Jobs(f) = 1 .. n
  BY FleetIs
<1> HIDE DEF n
<1> DEFINE g == [s \in SUBSET (1 .. n) |-> OrdersOf(s)]
<1>2. IsFiniteSet(SUBSET (1 .. n))
  BY <1>1, CountTo, FS_SUBSET
<1>3. IsFiniteSet({g[s] : s \in SUBSET (1 .. n)})
  <2> HIDE DEF g
  <2> QED BY <1>2, ImageIsFinite
<1>4. parts = {g[s] : s \in SUBSET (1 .. n)}
  OBVIOUS
<1>5. \A s \in SUBSET (1 .. n) : IsFiniteSet(OrdersOf(s))
  BY <1>1, OrdersOfSome
<1>6. IsFiniteSet(UNION parts)
  <2>1. IsFiniteSet(parts)
    BY <1>3, <1>4
  <2>2. \A s \in parts : IsFiniteSet(s)
    BY <1>5
  <2> HIDE DEF parts
  <2> QED BY <2>1, <2>2, FS_UNION
<1> QED BY <1>1, <1>6 DEF OrdersWithin

(* What the book of a fleet holds.  *)
LEMMA BookHolds ==
  ASSUME NEW f, IsFleet(f), f.trucks # <<>>
  PROVE  /\ Book(f).fleet = f /\ Book(f).scores = ScoresOf(f)
         /\ Book(f).plans = {p \in Plans(f) : ValidPlan(ScoresOf(f), p)} /\ IsFiniteSet(Book(f).plans)
         /\ \A objective \in Strategies \cup {"distance", "vehicles"}, p \in Book(f).plans :
              /\ Book(f).keys[objective][p] = PlanKey(objective, f, ScoresOf(f), p)
              /\ Book(f).keys[objective][p] \in KeysOf(Width(objective))
<1>1. /\ Book(f).fleet = f /\ Book(f).scores = ScoresOf(f)
      /\ Book(f).plans = {p \in Plans(f) : ValidPlan(ScoresOf(f), p)}
  BY DEF Book, ScoredBook, BookOf, Plans
<1>2. ASSUME NEW objective \in Strategies \cup {"distance", "vehicles"}, NEW p \in Book(f).plans
      PROVE  /\ Book(f).keys[objective][p] = PlanKey(objective, f, ScoresOf(f), p)
             /\ Book(f).keys[objective][p] \in KeysOf(Width(objective))
  <2>1. Book(f).keys[objective][p] = PlanKey(objective, f, ScoresOf(f), p)
    BY <1>1 DEF Book, ScoredBook, BookOf, Plans
  <2>2. objective \in Objectives
    BY FleetsAssumption DEF Objectives
  <2>3. p \in Plans(f) /\ ValidPlan(ScoresOf(f), p)
    BY <1>1
  <2>4. PlanKey(objective, f, ScoresOf(f), p) \in KeysOf(Width(objective))
    BY <2>2, <2>3, PlanKeyTyped
  <2> QED BY <2>1, <2>4
<1>3. IsFiniteSet(Book(f).plans)
  <2>1. IsFiniteSet(OrdersWithin(Jobs(f)))
    BY OrdersWithinFinite
  <2>2. IsFiniteSet(Trucks(f))
    <3>1. Trucks(f) = 1 .. Len(f.trucks) /\ Len(f.trucks) \in Nat
      BY FleetIs
    <3> QED BY <3>1, CountTo
  <2>3. IsFiniteSet(Plans(f))
    BY <2>1, <2>2, FunctionsAreFinite DEF Plans
  <2> QED BY <1>1, <2>3, FS_Subset
<1> QED BY <1>1, <1>2, <1>3

(* The objectives a book compares by.                                       *)
Compared == Strategies \cup {"distance", "vehicles"}

(* The best of some plans of a book is one of them, and none is better.     *)
LEMMA BestPlanIs ==
  ASSUME NEW f, IsFleet(f), f.trucks # <<>>, NEW s \in SUBSET Book(f).plans, s # {}, NEW objective \in Compared
  PROVE  /\ BestPlan(Book(f), objective, s) \in s
         /\ \A q \in s : ~Better(Book(f), objective, q, BestPlan(Book(f), objective, s))
<1> DEFINE w == Width(objective)
           key == [p \in s |-> Book(f).keys[objective][p]]
           Top(a) == \A b \in s : ~Better(Book(f), objective, b, a)
<1>1. IsFiniteSet(s)
  BY BookHolds, FS_Subset
<1>2. w \in Nat
  BY DEF Width
<1>3. key \in [s -> KeysOf(w)]
  BY BookHolds DEF Compared
<1>4. \A p \in s : key[p] = Book(f).keys[objective][p]
  OBVIOUS
<1> HIDE DEF key, w
<1>5. PICK a \in s : \A b \in s : ~Before(key[b], key[a])
  BY <1>1, <1>2, <1>3, MinimumExists
<1>6. Top(a)
  BY <1>4, <1>5 DEF Better
<1>7. BestPlan(Book(f), objective, s) = CHOOSE p \in s : Top(p)
  BY DEF BestPlan
<1>8. BestPlan(Book(f), objective, s) \in s /\ Top(BestPlan(Book(f), objective, s))
  <2> HIDE DEF Top
  <2> QED BY <1>5, <1>6, <1>7
<1> QED BY <1>8

(* What is no better than a plan is no better than one that improves it.    *)
LEMMA BetterStays ==
  ASSUME NEW f, IsFleet(f), f.trucks # <<>>, NEW objective \in Compared,
         NEW a \in Book(f).plans, NEW b \in Book(f).plans, NEW c \in Book(f).plans,
         ~Better(Book(f), objective, a, b)
  PROVE  /\ BetterOf(Book(f), objective, c, b) \in {b, c}
         /\ ~Better(Book(f), objective, a, BetterOf(Book(f), objective, c, b))
         /\ ~Better(Book(f), objective, b, BetterOf(Book(f), objective, c, b))
         /\ ~Better(Book(f), objective, c, BetterOf(Book(f), objective, c, b))
<1> DEFINE w == Width(objective)
           Key(p) == Book(f).keys[objective][p]
<1>1. Key(a) \in KeysOf(w) /\ Key(b) \in KeysOf(w) /\ Key(c) \in KeysOf(w)
  BY BookHolds DEF Compared
<1>2. w \in Nat
  BY DEF Width
<1>3. \A p, q : Better(Book(f), objective, p, q) <=> Before(Key(p), Key(q))
  BY DEF Better
<1> HIDE DEF Key, w
<1>4. /\ ~Before(Key(b), Key(b)) /\ ~Before(Key(c), Key(c))
      /\ Before(Key(c), Key(b)) /\ Before(Key(a), Key(c)) => Before(Key(a), Key(b))
      /\ Before(Key(c), Key(b)) /\ Before(Key(b), Key(c)) => Before(Key(b), Key(b))
  BY <1>1, <1>2, BeforeIrreflexive, BeforeTransitive
<1> QED BY <1>3, <1>4 DEF BetterOf

(* A delivery more makes an order longer.                                   *)
LEMMA InsertedLonger ==
  ASSUME NEW S, NEW o \in Seq(S), NEW i \in 1 .. Len(o) + 1, NEW job
  PROVE  Len(InsertAt(o, i, job)) = Len(o) + 1
<1> DEFINE T == S \cup {job}
           a == SubSeq(o, 1, i - 1)
           b == SubSeq(o, i, Len(o))
<1>1. o \in Seq(T)
  OBVIOUS
<1>2. a \in Seq(T) /\ Len(a) = i - 1
  BY <1>1
<1>3. b \in Seq(T) /\ Len(b) = Len(o) - i + 1
  BY <1>1
<1>4. <<job>> \in Seq(T) /\ Len(<<job>>) = 1
  OBVIOUS
<1>5. InsertAt(o, i, job) = a \o <<job>> \o b
  BY DEF InsertAt
<1> HIDE DEF a, b, T
<1>6. a \o <<job>> \in Seq(T) /\ Len(a \o <<job>>) = Len(a) + 1
  BY <1>2, <1>4, ConcatProperties
<1> DEFINE c == a \o <<job>>
<1>8. InsertAt(o, i, job) = c \o b /\ c \in Seq(T) /\ Len(c) = Len(a) + 1
  BY <1>5, <1>6
<1> HIDE DEF c
<1>7. Len(c \o b) = Len(c) + Len(b)
  BY <1>3, <1>8, ConcatProperties
<1> QED BY <1>2, <1>3, <1>7, <1>8

(* Where a delivery is inserted the plan changes.                           *)
LEMMA InsertedIs ==
  ASSUME NEW f, IsFleet(f), NEW p \in Plans(f), NEW job, NEW q \in InsertedAt(Book(f), p, job)
  PROVE  q \in Book(f).plans /\ \E t \in Trucks(f) : q[t] # p[t]
<1>1. DOMAIN p = Trucks(f) /\ \A t \in Trucks(f) : p[t] \in Seq(Jobs(f))
  BY PlanIsCounted
<1>2. PICK t \in Trucks(f) : \E i \in 1 .. Len(p[t]) + 1 : q = [p EXCEPT ![t] = InsertAt(p[t], i, job)]
  BY <1>1 DEF InsertedAt
<1> PICK i \in 1 .. Len(p[t]) + 1 : q = [p EXCEPT ![t] = InsertAt(p[t], i, job)]
  BY <1>2
<1>3. Len(q[t]) = Len(p[t]) + 1 /\ Len(p[t]) \in Nat
  <2>1. p[t] \in Seq(Jobs(f)) /\ q[t] = InsertAt(p[t], i, job)
    BY <1>1
  <2> QED BY <2>1, InsertedLonger
<1>4. q \in Book(f).plans
  <2> DEFINE places == UNION {{[p EXCEPT ![v] = InsertAt(@, j, job)] : j \in 1 .. Len(p[v]) + 1} : v \in DOMAIN p}
  <2>1. InsertedAt(Book(f), p, job) = places \cap Book(f).plans
    BY DEF InsertedAt
  <2> HIDE DEF places
  <2> QED BY <2>1
<1>5. q[t] # p[t]
  BY <1>3
<1> QED BY <1>4, <1>5

(* The place that costs least exists.                                       *)
LEMMA InsertKeyTyped ==
  ASSUME NEW f, IsFleet(f), NEW p \in Book(f).plans, NEW q \in Book(f).plans, \E t \in Trucks(f) : q[t] # p[t],
         NEW kind \in {"balanced", "distance", "time"}
  PROVE  InsertKey(Book(f), kind, p, q) \in KeysOf(IF kind = "balanced" THEN 6 ELSE 4)
<1> DEFINE D == Trucks(f)
           u == CHOOSE t \in DOMAIN q : q[t] # p[t]
           s == [t \in DOMAIN q |-> Replay(ScoresOf(f), t, q[t])]
           was == Replay(ScoresOf(f), u, p[u])
           idle == Cardinality({t \in DOMAIN q \ {u} : q[t] = <<>>})
           active == Cardinality({t \in DOMAIN q : q[t] # <<>>})
           miss == Total([t \in DOMAIN q |-> Mismatch(f, t, q[t])])
           most == Greatest({s[t].work : t \in DOMAIN q})
           square == Total([t \in DOMAIN q |-> s[t].work * s[t].work])
           km == Total([t \in DOMAIN q |-> s[t].km])
           min == Total([t \in DOMAIN q |-> s[t].minutes])
<1>1. /\ Book(f).scores = ScoresOf(f) /\ Book(f).fleet = f
      /\ p \in Plans(f) /\ q \in Plans(f) /\ ValidPlan(ScoresOf(f), p) /\ ValidPlan(ScoresOf(f), q)
  BY DEF Book, ScoredBook, BookOf, Plans
<1>2. DOMAIN p = D /\ DOMAIN q = D
  BY <1>1 DEF Plans
<1>3. u \in D /\ q[u] # p[u]
  BY <1>2
<1>4. was \in ScoreSet /\ \A t \in D : s[t] \in ScoreSet
  BY <1>1, <1>2, <1>3, ReplayTyped
<1>5. IsFiniteSet(D) /\ D # {}
  <2>1. D = 1 .. Len(f.trucks) /\ Len(f.trucks) \in Nat
    BY FleetIs
  <2> QED BY <1>3, <2>1, CountTo
<1>6. InsertKey(Book(f), kind, p, q) =
        <<miss>> \o (CASE kind = "balanced" -> <<idle, most, square, s[u].work - was.work, s[u].km>>
                     [] kind = "distance" -> <<km, min, active>>
                     [] kind = "time" -> <<(IF p[u] = <<>> THEN 1 ELSE 0), s[u].minutes - was.minutes, s[u].km>>)
  BY <1>1, Zenon DEF InsertKey
<1>7. /\ \A t \in D : s[t].work \in Int /\ s[t].km \in Int /\ s[t].minutes \in Int
      /\ was.work \in Int /\ was.minutes \in Int
  BY <1>4 DEF ScoreSet
<1>8. \A t \in D : Mismatch(f, t, q[t]) \in Int
  BY <1>1, MismatchTyped DEF Plans
<1> HIDE DEF s, was, u, D
<1>9. idle \in Int /\ active \in Int
  <2>1. IsFiniteSet({t \in D \ {u} : q[t] = <<>>}) /\ IsFiniteSet({t \in D : q[t] # <<>>})
    BY <1>5, FS_Subset
  <2> QED BY <1>2, <2>1, FS_CardinalityType
<1>10. miss \in Int
  <2> DEFINE v == [t \in D |-> Mismatch(f, t, q[t])]
  <2>1. v \in [D -> Int]
    BY <1>8
  <2> HIDE DEF v
  <2>2. Total(v) \in Int
    BY <1>5, <2>1, TotalTyped
  <2> QED BY <1>2, <2>2 DEF v
<1>11. square \in Int
  <2> DEFINE v == [t \in D |-> s[t].work * s[t].work]
  <2>1. v \in [D -> Int]
    BY <1>7
  <2> HIDE DEF v
  <2>2. Total(v) \in Int
    BY <1>5, <2>1, TotalTyped
  <2> QED BY <1>2, <2>2 DEF v
<1>12. km \in Int
  <2> DEFINE v == [t \in D |-> s[t].km]
  <2>1. v \in [D -> Int]
    BY <1>7
  <2> HIDE DEF v
  <2>2. Total(v) \in Int
    BY <1>5, <2>1, TotalTyped
  <2> QED BY <1>2, <2>2 DEF v
<1>13. min \in Int
  <2> DEFINE v == [t \in D |-> s[t].minutes]
  <2>1. v \in [D -> Int]
    BY <1>7
  <2> HIDE DEF v
  <2>2. Total(v) \in Int
    BY <1>5, <2>1, TotalTyped
  <2> QED BY <1>2, <2>2 DEF v
<1>14. most \in Int
  <2> DEFINE v == [t \in D |-> s[t].work]
             r == {v[t] : t \in D}
  <2>1. r = {s[t].work : t \in D} /\ r # {} /\ r \subseteq Int
    BY <1>5, <1>7
  <2>2. IsFiniteSet(r)
    <3> HIDE DEF v
    <3> QED BY <1>5, ImageIsFinite
  <2> HIDE DEF r, v
  <2>3. Greatest(r) \in r
    BY <2>1, <2>2, GreatestIs
  <2> QED BY <1>2, <2>1, <2>3
<1> DEFINE more == s[u].work - was.work
           far == s[u].km
           longer == s[u].minutes - was.minutes
           new == IF p[u] = <<>> THEN 1 ELSE 0
<1>15. more \in Int /\ far \in Int /\ longer \in Int /\ new \in Int
  BY <1>3, <1>7
<1>16. /\ kind = "balanced" => InsertKey(Book(f), kind, p, q) = <<miss>> \o <<idle, most, square, more, far>>
       /\ kind = "distance" => InsertKey(Book(f), kind, p, q) = <<miss>> \o <<km, min, active>>
       /\ kind = "time" => InsertKey(Book(f), kind, p, q) = <<miss>> \o <<new, longer, far>>
  BY <1>6
<1> DEFINE z == <<miss>>
<1> HIDE DEF miss, idle, most, square, more, far, km, min, active, new, longer
<1>17. z \in Seq(Int) /\ Len(z) = 1
  BY <1>10
<1> HIDE DEF z
<1>18. CASE kind = "balanced"
  <2> DEFINE k == <<idle, most, square, more, far>>
  <2>1. k \in Seq(Int) /\ Len(k) = 5
    BY <1>9, <1>11, <1>14, <1>15
  <2>2. InsertKey(Book(f), kind, p, q) = z \o k
    BY <1>16, <1>18 DEF z
  <2> HIDE DEF k
  <2>3. z \o k \in Seq(Int) /\ Len(z \o k) = Len(z) + Len(k)
    BY <1>17, <2>1, ConcatProperties
  <2> DEFINE y == z \o k
  <2>4. y \in Seq(Int) /\ Len(y) = 1 + Len(k) /\ InsertKey(Book(f), kind, p, q) = y
    BY <1>17, <2>2, <2>3
  <2> HIDE DEF y
  <2> QED BY <1>18, <2>1, <2>4 DEF KeysOf
<1>19. CASE kind = "distance"
  <2> DEFINE k == <<km, min, active>>
  <2>1. k \in Seq(Int) /\ Len(k) = 3
    BY <1>9, <1>12, <1>13
  <2>2. InsertKey(Book(f), kind, p, q) = z \o k
    BY <1>16, <1>19 DEF z
  <2> HIDE DEF k
  <2>3. z \o k \in Seq(Int) /\ Len(z \o k) = Len(z) + Len(k)
    BY <1>17, <2>1, ConcatProperties
  <2> DEFINE y == z \o k
  <2>4. y \in Seq(Int) /\ Len(y) = 1 + Len(k) /\ InsertKey(Book(f), kind, p, q) = y
    BY <1>17, <2>2, <2>3
  <2> HIDE DEF y
  <2> QED BY <1>19, <2>1, <2>4 DEF KeysOf
<1>20. CASE kind = "time"
  <2> DEFINE k == <<new, longer, far>>
  <2>1. k \in Seq(Int) /\ Len(k) = 3
    BY <1>15
  <2>2. InsertKey(Book(f), kind, p, q) = z \o k
    BY <1>16, <1>20 DEF z
  <2> HIDE DEF k
  <2>3. z \o k \in Seq(Int) /\ Len(z \o k) = Len(z) + Len(k)
    BY <1>17, <2>1, ConcatProperties
  <2> DEFINE y == z \o k
  <2>4. y \in Seq(Int) /\ Len(y) = 1 + Len(k) /\ InsertKey(Book(f), kind, p, q) = y
    BY <1>17, <2>2, <2>3
  <2> HIDE DEF y
  <2> QED BY <1>20, <2>1, <2>4 DEF KeysOf
<1> QED BY <1>18, <1>19, <1>20

-----------------------------------------------------------------------------
(* The constructions and the seeds of a search.                             *)

(* Empty vehicles are a plan.                                               *)
LEMMA EmptyIs ==
  ASSUME NEW f, IsFleet(f), f.trucks # <<>>
  PROVE  Empty(Book(f)) \in Book(f).plans /\ \A t \in Trucks(f) : Empty(Book(f))[t] = <<>>
<1> DEFINE p == Empty(Book(f))
<1>1. Book(f).fleet = f /\ Book(f).plans = {q \in Plans(f) : ValidPlan(ScoresOf(f), q)}
  BY BookHolds
<1>2. p = [t \in Trucks(f) |-> <<>>]
  BY <1>1 DEF Empty
<1>3. <<>> \in OrdersWithin(Jobs(f))
  <2>1. <<>> \in OrdersOf({})
    <3>1. Cardinality({}) = 0
      BY FS_EmptySet
    <3>2. <<>> \in [1 .. 0 -> {}] /\ Range(<<>>) = {}
      BY DEF Range
    <3> QED BY <3>1, <3>2 DEF OrdersOf
  <2>2. {} \in SUBSET Jobs(f)
    OBVIOUS
  <2>3. OrdersOf({}) \in {OrdersOf(members) : members \in SUBSET Jobs(f)}
    BY <2>2
  <2> QED BY <2>1, <2>3, Zenon DEF OrdersWithin
<1>4. p \in Plans(f)
  BY <1>2, <1>3 DEF Plans
<1>5. Apart(p)
  <2>1. Range(<<>>) = {}
    BY DEF Range
  <2> QED BY <1>2, <2>1 DEF Apart
<1>6. Cardinality(Aboard(p)) = Served(p)
  BY <1>4, <1>5, PlanIsCounted
<1>7. ValidPlan(ScoresOf(f), p)
  BY <1>2, <1>6 DEF ValidPlan
<1> QED BY <1>1, <1>2, <1>4, <1>7

(* One delivery in the cheapest place, if there is one.                     *)
Cheapest(f, kind, p, job) ==
  LET found == InsertedAt(Book(f), p, job)
  IN IF found = {} THEN p
     ELSE CHOOSE r \in found : \A q \in found :
            ~Before(InsertKey(Book(f), kind, p, q), InsertKey(Book(f), kind, p, r))

(* The cheapest place exists, and what it gives is a plan.                  *)
LEMMA CheapestIs ==
  ASSUME NEW f, IsFleet(f), f.trucks # <<>>, NEW kind \in {"balanced", "distance", "time"}, NEW p \in Book(f).plans, NEW job
  PROVE  Cheapest(f, kind, p, job) \in Book(f).plans
<1> DEFINE found == InsertedAt(Book(f), p, job)
           w == IF kind = "balanced" THEN 6 ELSE 4
           key == [q \in found |-> InsertKey(Book(f), kind, p, q)]
           Top(r) == \A q \in found : ~Before(InsertKey(Book(f), kind, p, q), InsertKey(Book(f), kind, p, r))
<1>1. Cheapest(f, kind, p, job) = IF found = {} THEN p ELSE CHOOSE r \in found : Top(r)
  BY DEF Cheapest
<1>2. p \in Plans(f) /\ IsFiniteSet(Book(f).plans)
  BY BookHolds
<1>3. \A q \in found : q \in Book(f).plans /\ \E t \in Trucks(f) : q[t] # p[t]
  BY <1>2, InsertedIs
<1>4. w \in Nat
  OBVIOUS
<1>5. key \in [found -> KeysOf(w)]
  BY <1>3, InsertKeyTyped
<1>6. IsFiniteSet(found)
  <2> HIDE DEF found
  <2> QED BY <1>2, <1>3, FS_Subset
<1>7. \A q \in found : key[q] = InsertKey(Book(f), kind, p, q)
  OBVIOUS
<1> HIDE DEF found, w, key
<1>8. found # {} => \E r \in found : Top(r)
  BY <1>4, <1>5, <1>6, <1>7, MinimumExists
<1> HIDE DEF Top
<1> QED BY <1>1, <1>3, <1>8

(* Every construction is a plan.                                            *)
LEMMA ConstructIs ==
  ASSUME NEW f, IsFleet(f), f.trucks # <<>>, NEW kind \in {"balanced", "distance", "time"},
         NEW order, NEW n \in Nat, DOMAIN order = 1 .. n
  PROVE  Construct(Book(f), kind, order) \in Book(f).plans
<1> DEFINE V == Book(f).plans
           base == Empty(Book(f))
           Next(p, job) == Cheapest(f, kind, p, job)
           Step == [vk \in V \X (1 .. n) |-> Next(vk[1], order[vk[2]])]
           E(g) == g = [s \in SUBSET DOMAIN order |->
                          IF s = {} THEN base ELSE Next(g[s \ {Max(s)}], order[Max(s)])]
           iter == CHOOSE g : E(g)
<1>1. base \in V
  BY EmptyIs
<1>2. \A p \in V : \A job : Next(p, job) \in V
  BY CheapestIs
<1>3. Construct(Book(f), kind, order) = iter[DOMAIN order]
  BY Zenon DEF Construct, FoldLeft, MapThenFoldSet, Cheapest
<1>4. Construct(Book(f), kind, order) = iter[1 .. n]
  BY <1>3
<1> HIDE DEF V, Next, base
<1>5. Steps(n, V, base, Step)
  <2>1. \A vk \in V \X (1 .. n) : Next(vk[1], order[vk[2]]) \in V
    BY <1>2
  <2> QED BY <1>1, <2>1 DEF Steps
<1>6. \E g : E(g)
  <2>1. PICK g : LeftFold(g, n, V, base, Step)
    <3> HIDE DEF Step
    <3> QED BY <1>5, FoldLeftExists
  <2>2. ASSUME NEW s \in (SUBSET (1 .. n)) \ {{}}
        PROVE  Max(s) \in 1 .. n /\ g[s \ {Max(s)}] \in V
    BY <2>1, UpToIs DEF LeftFold
  <2>3. E(g)
    BY <2>1, <2>2 DEF LeftFold
  <2> QED BY <2>3
<1>7. E(iter)
  BY <1>6
<1>8. FoldsLeft(iter, n, V, base, Step)
  <2>1. \A s \in (SUBSET (1 .. n)) \ {{}} : Max(s) \in 1 .. n
    BY UpToIs
  <2> HIDE DEF iter
  <2> QED BY <1>7, <2>1 DEF FoldsLeft
<1>9. PICK h : RunsForward(h, n, V, base, Step) /\ iter[1 .. n] = h[n]
  <2> HIDE DEF iter, Step
  <2> QED BY <1>5, <1>8, FoldLeftRun
<1> HIDE DEF iter, Step
<1>10. h[n] \in V
  BY <1>9 DEF RunsForward
<1> QED BY <1>4, <1>9, <1>10 DEF V

(* What the search starts from.                                             *)
LEMMA ConstructionsAre ==
  ASSUME NEW f, IsFleet(f), f.trucks # <<>>
  PROVE  /\ Constructions(Book(f)) \in SUBSET Book(f).plans /\ Constructions(Book(f)) # {}
         /\ \A kind \in {"balanced", "time"} : Construct(Book(f), kind, LegacyOrder(f)) \in Book(f).plans
<1> DEFINE n == Len(f.stops)
<1>1. n \in Nat /\ Jobs(f) = 1 .. n
  BY FleetIs
<1>2. DOMAIN LegacyOrder(f) = 1 .. n /\ DOMAIN UrgencyOrder(f) = 1 .. n
  BY <1>1 DEF LegacyOrder, UrgencyOrder, Sorted
<1> HIDE DEF n
<1>3. \A kind \in {"balanced", "distance", "time"}, order \in {LegacyOrder(f), UrgencyOrder(f)} :
        Construct(Book(f), kind, order) \in Book(f).plans
  BY <1>1, <1>2, ConstructIs
<1>4. Book(f).fleet = f
  BY BookHolds
<1>5. Constructions(Book(f)) \subseteq Book(f).plans
  BY <1>3, <1>4 DEF Constructions
<1>6. Construct(Book(f), "distance", UrgencyOrder(f)) \in Constructions(Book(f))
  BY <1>4 DEF Constructions
<1> QED BY <1>3, <1>5, <1>6

(* One delivery in the best place under an objective, if there is one.      *)
Placed(b, objective, p, job) ==
  LET found == InsertedAt(b, p, job)
  IN IF found = {} THEN p ELSE BestPlan(b, objective, found)

(* What the best place gives is a plan.                                     *)
LEMMA PlacedIs ==
  ASSUME NEW f, IsFleet(f), f.trucks # <<>>, NEW b, b = Book(f), NEW objective \in Compared, NEW p \in b.plans, NEW job
  PROVE  Placed(b, objective, p, job) \in b.plans
<1> DEFINE found == InsertedAt(b, p, job)
<1>1. p \in Plans(f)
  BY BookHolds
<1>2. found \in SUBSET b.plans
  BY <1>1, InsertedIs
<1>3. found # {} => BestPlan(b, objective, found) \in found
  BY <1>2, BestPlanIs
<1> HIDE DEF found
<1>4. Placed(b, objective, p, job) = IF found = {} THEN p ELSE BestPlan(b, objective, found)
  BY DEF Placed, found
<1> QED BY <1>2, <1>3, <1>4

(* A construction of the older search is a plan.                            *)
LEMMA SeedPlanIs ==
  ASSUME NEW f, IsFleet(f), f.trucks # <<>>, NEW b, b = Book(f), NEW objective \in Compared,
         NEW order, NEW n \in Nat, DOMAIN order = 1 .. n
  PROVE  LET Insert(routes, job) ==
               LET found == InsertedAt(b, routes, job)
               IN IF found = {} THEN routes ELSE BestPlan(b, objective, found)
         IN FoldLeft(Insert, Empty(b), order) \in b.plans
<1> DEFINE Insert(routes, job) ==
             LET found == InsertedAt(b, routes, job)
             IN IF found = {} THEN routes ELSE BestPlan(b, objective, found)
           V == b.plans
           base == Empty(b)
           Next(p, job) == Placed(b, objective, p, job)
           Step == [vk \in V \X (1 .. n) |-> Next(vk[1], order[vk[2]])]
           E(g) == g = [s \in SUBSET DOMAIN order |->
                          IF s = {} THEN base ELSE Next(g[s \ {Max(s)}], order[Max(s)])]
           iter == CHOOSE g : E(g)
<1>1. base \in V
  BY EmptyIs
<1>2. \A p \in V : \A job : Next(p, job) \in V
  BY PlacedIs
<1>3. FoldLeft(Insert, Empty(b), order) = iter[DOMAIN order]
  BY Zenon DEF FoldLeft, MapThenFoldSet, Placed
<1>4. FoldLeft(Insert, Empty(b), order) = iter[1 .. n]
  BY <1>3
<1> HIDE DEF V, Next, base
<1>5. Steps(n, V, base, Step)
  <2>1. \A vk \in V \X (1 .. n) : Next(vk[1], order[vk[2]]) \in V
    BY <1>2
  <2> QED BY <1>1, <2>1 DEF Steps
<1>6. \E g : E(g)
  <2>1. PICK g : LeftFold(g, n, V, base, Step)
    <3> HIDE DEF Step
    <3> QED BY <1>5, FoldLeftExists
  <2>2. ASSUME NEW s \in (SUBSET (1 .. n)) \ {{}}
        PROVE  Max(s) \in 1 .. n /\ g[s \ {Max(s)}] \in V
    BY <2>1, UpToIs DEF LeftFold
  <2>3. E(g)
    BY <2>1, <2>2 DEF LeftFold
  <2> QED BY <2>3
<1>7. E(iter)
  BY <1>6
<1>8. FoldsLeft(iter, n, V, base, Step)
  <2>1. \A s \in (SUBSET (1 .. n)) \ {{}} : Max(s) \in 1 .. n
    BY UpToIs
  <2> HIDE DEF iter
  <2> QED BY <1>7, <2>1 DEF FoldsLeft
<1>9. PICK h : RunsForward(h, n, V, base, Step) /\ iter[1 .. n] = h[n]
  <2> HIDE DEF iter, Step
  <2> QED BY <1>5, <1>8, FoldLeftRun
<1> HIDE DEF iter, Step
<1>10. h[n] \in V
  BY <1>9 DEF RunsForward
<1>11. FoldLeft(Insert, Empty(b), order) \in b.plans
  BY <1>4, <1>9, <1>10 DEF V
<1> QED BY <1>11

(* Every problem is one, and has its book.                                  *)
LEMMA BooksAre ==
  ASSUME NEW f \in DOMAIN Fleets
  PROVE  IsFleet(Fleets[f]) /\ Fleets[f].trucks # <<>> /\ Books[f] = Book(Fleets[f])
         /\ Strategies \subseteq {"efficient", "balanced"}
  BY FleetsAssumption DEF Books

(* What a search is given, and what the older one leaves from, are plans.   *)
LEMMA SeedsAre ==
  ASSUME NEW f \in DOMAIN Fleets, NEW objective \in Strategies \cup {"distance"}
  PROVE  /\ Floors[objective][f] \in Books[f].plans
         /\ FirstSeeds[objective][f] \in Books[f].plans
         /\ \A seeding \in {"balanced", "vehicles"} : seeding \in Compared => SeedPlans[seeding][f] \subseteq Books[f].plans
<1>1. IsFleet(Fleets[f]) /\ Fleets[f].trucks # <<>> /\ Books[f] = Book(Fleets[f])
  BY BooksAre
<1>2. objective \in Compared
  BY DEF Compared
<1>3. Floors[objective][f] \in Books[f].plans
  <2>1. Floors[objective][f] = BestPlan(Books[f], objective, Constructions(Books[f]))
    BY DEF Floors
  <2>2. Constructions(Books[f]) \in SUBSET Books[f].plans /\ Constructions(Books[f]) # {}
    BY <1>1, ConstructionsAre
  <2>3. BestPlan(Books[f], objective, Constructions(Books[f])) \in Constructions(Books[f])
    BY <1>1, <1>2, <2>2, BestPlanIs
  <2> QED BY <2>1, <2>2, <2>3
<1>4. FirstSeeds[objective][f] \in Books[f].plans
  <2>1. FirstSeeds[objective][f] =
          Construct(Books[f], (IF objective = "balanced" THEN "balanced" ELSE "time"), LegacyOrder(Fleets[f]))
    BY DEF FirstSeeds
  <2>2. (IF objective = "balanced" THEN "balanced" ELSE "time") \in {"balanced", "time"}
    OBVIOUS
  <2> QED BY <1>1, <2>1, <2>2, ConstructionsAre
<1>5. ASSUME NEW seeding \in {"balanced", "vehicles"}, seeding \in Compared
      PROVE  SeedPlans[seeding][f] \subseteq Books[f].plans
  <2> DEFINE Insert(routes, job) ==
               LET found == InsertedAt(Books[f], routes, job)
               IN IF found = {} THEN routes ELSE BestPlan(Books[f], seeding, found)
  <2>1. SeedPlans[seeding][f] = {FoldLeft(Insert, Empty(Books[f]), order) : order \in OrdersOf(Jobs(Fleets[f]))}
    BY DEF SeedPlans
  <2>2. ASSUME NEW order \in OrdersOf(Jobs(Fleets[f]))
        PROVE  FoldLeft(Insert, Empty(Books[f]), order) \in Books[f].plans
    <3>1. DOMAIN order = 1 .. Cardinality(Jobs(Fleets[f]))
      BY DEF OrdersOf
    <3>2. Cardinality(Jobs(Fleets[f])) \in Nat
      BY <1>1, FleetIs, CountTo
    <3> QED BY <1>1, <1>5, <3>1, <3>2, SeedPlanIs
  <2> QED BY <2>1, <2>2
<1> QED BY <1>3, <1>4, <1>5

-----------------------------------------------------------------------------
(* The neighbourhoods of a search.                                          *)

(* A sequence of deliveries without repetitions is the order of a route.    *)
LEMMA DistinctIsOrder ==
  ASSUME NEW f, IsFleet(f), NEW o \in Seq(Jobs(f)), Distinct(o)
  PROVE  o \in OrdersWithin(Jobs(f))
<1>1. Len(o) \in Nat /\ DOMAIN o = 1 .. Len(o) /\ o = [i \in 1 .. Len(o) |-> o[i]] /\ \A i \in 1 .. Len(o) : o[i] \in Jobs(f)
  OBVIOUS
<1>2. Range(o) \in SUBSET Jobs(f) /\ o \in [1 .. Len(o) -> Range(o)]
  BY <1>1 DEF Range
<1>3. Cardinality(Range(o)) = Len(o)
  BY <1>1, DistinctCounts
<1>4. o \in OrdersOf(Range(o))
  BY <1>2, <1>3 DEF OrdersOf
<1>5. OrdersOf(Range(o)) \in {OrdersOf(members) : members \in SUBSET Jobs(f)}
  BY <1>2
<1> QED BY <1>4, <1>5, Zenon DEF OrdersWithin

(* The routes of a plan name every delivery once.                           *)
LEMMA RoutesAre ==
  ASSUME NEW f, IsFleet(f), NEW p \in Plans(f)
  PROVE  /\ DOMAIN p = Trucks(f) /\ p = [t \in Trucks(f) |-> p[t]]
         /\ \A t \in Trucks(f) : /\ p[t] \in OrdersWithin(Jobs(f)) /\ p[t] \in Seq(Jobs(f)) /\ Len(p[t]) \in Nat
                                 /\ DOMAIN p[t] = 1 .. Len(p[t]) /\ Distinct(p[t]) /\ Range(p[t]) \subseteq Jobs(f)
<1>1. DOMAIN p = Trucks(f) /\ p = [t \in Trucks(f) |-> p[t]] /\ \A t \in Trucks(f) : p[t] \in OrdersWithin(Jobs(f))
  BY DEF Plans
<1>2. Jobs(f) = 1 .. Len(f.stops) /\ Len(f.stops) \in Nat
  BY FleetIs
<1>3. \A t \in Trucks(f) : p[t] \in Seq(Jobs(f)) /\ Len(p[t]) \in Nat /\ Range(p[t]) \subseteq Jobs(f)
  BY <1>1, <1>2, OrdersWithinAre
<1>4. \A t \in Trucks(f) : DOMAIN p[t] = 1 .. Len(p[t]) /\ Distinct(p[t])
  BY <1>1, <1>2, OrdersAreDistinct
<1> QED BY <1>1, <1>3, <1>4

(* Without some deliveries a plan is still made of orders.                  *)
LEMMA WithoutTyped ==
  ASSUME NEW f, IsFleet(f), NEW p \in Plans(f), NEW removed
  PROVE  Without(p, removed) \in Plans(f)
<1>1. \A t \in Trucks(f) : LeftOver(p[t], removed) \in OrdersWithin(Jobs(f))
  BY RoutesAre, LeftOverIs, DistinctIsOrder
<1>2. DOMAIN p = Trucks(f)
  BY RoutesAre
<1> QED BY <1>1, <1>2 DEF Without, Plans

(* Another order of one route.                                              *)
LEMMA ReorderedIs ==
  ASSUME NEW f, IsFleet(f), NEW p \in Plans(f)
  PROVE  Reordered(p) \subseteq Plans(f)
<1>1. SUFFICES ASSUME NEW t \in DOMAIN p, NEW o \in OrdersOf(Range(p[t])) PROVE [p EXCEPT ![t] = o] \in Plans(f)
  BY DEF Reordered
<1>2. t \in Trucks(f) /\ p[t] \in OrdersWithin(Jobs(f))
  BY RoutesAre
<1>3. o \in OrdersWithin(Jobs(f))
  BY <1>2, OrdersTyped
<1> QED BY <1>3 DEF Plans

(* The beginning of one route before the end of another.                    *)
LEMMA SplicedIs ==
  ASSUME NEW S, NEW o \in Seq(S), NEW q \in Seq(S), Distinct(o), Distinct(q), Range(o) \cap Range(q) = {},
         NEW i \in 0 .. Len(o), NEW j \in 0 .. Len(q)
  PROVE  /\ SubSeq(o, 1, i) \o SubSeq(q, j + 1, Len(q)) \in Seq(S)
         /\ Distinct(SubSeq(o, 1, i) \o SubSeq(q, j + 1, Len(q)))
<1> DEFINE a == SubSeq(o, 1, i)
           b == SubSeq(q, j + 1, Len(q))
           m == Len(q) - j
<1>1. a \in Seq(S) /\ Len(a) = i /\ \A x \in 1 .. i : a[x] = o[x] /\ x \in DOMAIN o
  OBVIOUS
<1>2. b \in Seq(S) /\ Len(b) = m /\ m \in Nat /\ \A x \in 1 .. m : b[x] = q[j + x] /\ j + x \in DOMAIN q
  OBVIOUS
<1>3. i \in Nat /\ j \in Nat
  OBVIOUS
<1> DEFINE c == a \o b
<1> HIDE DEF a, b, m
<1>4. c \in Seq(S) /\ Len(c) = i + m
  BY <1>1, <1>2, ConcatProperties
<1>5. DOMAIN c = 1 .. i + m /\ \A x \in 1 .. i + m : c[x] = IF x <= i THEN a[x] ELSE b[x - i]
  <2>1. a \in Seq(S) /\ b \in Seq(S) /\ Len(a) = i /\ Len(b) = m
    BY <1>1, <1>2
  <2> QED BY <1>4, <2>1, ConcatProperties
<1>6. \A x \in 1 .. i + m : IF x <= i THEN x \in DOMAIN o /\ c[x] = o[x] ELSE j + (x - i) \in DOMAIN q /\ c[x] = q[j + (x - i)]
  <2>1. \A x \in 1 .. i + m : IF x <= i THEN x \in 1 .. i ELSE x - i \in 1 .. m
    BY <1>2, <1>3
  <2> HIDE DEF c
  <2> QED BY <1>1, <1>2, <1>5, <2>1
<1> HIDE DEF c
<1>7. ASSUME NEW x \in 1 .. i + m, NEW y \in 1 .. i + m, x # y PROVE c[x] # c[y]
  <2>1. x \in Int /\ y \in Int
    BY <1>2, <1>3
  <2>2. CASE x <= i /\ y <= i
    BY <1>6, <1>7, <2>2 DEF Distinct
  <2>3. CASE ~(x <= i) /\ ~(y <= i)
    <3>1. j + (x - i) # j + (y - i)
      BY <1>3, <1>7, <2>1
    <3> QED BY <1>6, <2>3, <3>1 DEF Distinct
  <2>4. \A z \in 1 .. i + m : IF z <= i THEN c[z] \in Range(o) ELSE c[z] \in Range(q)
    BY <1>6 DEF Range
  <2>5. CASE x <= i /\ ~(y <= i)
    <3>1. c[x] \in Range(o) /\ c[y] \in Range(q)
      BY <2>4, <2>5
    <3> QED BY <3>1
  <2>6. CASE ~(x <= i) /\ y <= i
    <3>1. c[y] \in Range(o) /\ c[x] \in Range(q)
      BY <2>4, <2>6
    <3> QED BY <3>1
  <2> QED BY <2>2, <2>3, <2>5, <2>6
<1>8. Distinct(c)
  BY <1>5, <1>7 DEF Distinct
<1> QED BY <1>4, <1>8 DEF a, b, c

(* Two ends of routes exchanged.                                            *)
LEMMA TailsAre ==
  ASSUME NEW f, IsFleet(f), NEW p \in Plans(f), Apart(p)
  PROVE  TailsExchanged(p) \subseteq Plans(f)
<1> DEFINE Cut(o, q, i, j) == SubSeq(o, 1, i) \o SubSeq(q, j + 1, Len(q))
<1>1. ASSUME NEW t \in Trucks(f), NEW u \in Trucks(f), t # u,
             NEW i \in 0 .. Len(p[t]), NEW j \in 0 .. Len(p[u])
      PROVE  Cut(p[t], p[u], i, j) \in OrdersWithin(Jobs(f))
  <2>1. Range(p[t]) \cap Range(p[u]) = {}
    BY <1>1, RoutesAre DEF Apart
  <2>2. /\ p[t] \in Seq(Jobs(f)) /\ p[u] \in Seq(Jobs(f)) /\ Distinct(p[t]) /\ Distinct(p[u])
    BY RoutesAre
  <2> DEFINE c == Cut(p[t], p[u], i, j)
  <2>3. c \in Seq(Jobs(f)) /\ Distinct(c)
    BY <2>1, <2>2, SplicedIs
  <2> HIDE DEF c
  <2>4. c \in OrdersWithin(Jobs(f))
    BY <2>3, DistinctIsOrder
  <2> QED BY <2>4 DEF c
<1>2. SUFFICES ASSUME NEW tu \in (DOMAIN p) \X (DOMAIN p), tu[1] < tu[2],
                      NEW i \in 0 .. Len(p[tu[1]]), NEW j \in 0 .. Len(p[tu[2]])
               PROVE  [p EXCEPT ![tu[1]] = SubSeq(@, 1, i) \o SubSeq(p[tu[2]], j + 1, Len(p[tu[2]])),
                                ![tu[2]] = SubSeq(@, 1, j) \o SubSeq(p[tu[1]], i + 1, Len(p[tu[1]]))] \in Plans(f)
  <2> DEFINE Swap(c) == [p EXCEPT
        ![c[1][1]] = SubSeq(@, 1, c[2]) \o SubSeq(p[c[1][2]], c[3] + 1, Len(p[c[1][2]])),
        ![c[1][2]] = SubSeq(@, 1, c[3]) \o SubSeq(p[c[1][1]], c[2] + 1, Len(p[c[1][1]]))]
             C == UNION {{tu} \X (0 .. Len(p[tu[1]])) \X (0 .. Len(p[tu[2]])) :
                           tu \in {x \in (DOMAIN p) \X (DOMAIN p) : x[1] < x[2]}}
  <2>1. TailsExchanged(p) = {Swap(c) : c \in C}
    BY DEF TailsExchanged
  <2>2. \A c \in C : /\ c[1] \in (DOMAIN p) \X (DOMAIN p) /\ c[1][1] < c[1][2]
                     /\ c[2] \in 0 .. Len(p[c[1][1]]) /\ c[3] \in 0 .. Len(p[c[1][2]])
    OBVIOUS
  <2> HIDE DEF C
  <2>3. \A c \in C : Swap(c) \in Plans(f)
    BY <1>2, <2>2
  <2> HIDE DEF Swap
  <2> QED BY <2>1, <2>3
<1>3. tu[1] \in Trucks(f) /\ tu[2] \in Trucks(f) /\ tu[1] # tu[2] /\ DOMAIN p = Trucks(f)
  <2>1. Trucks(f) = 1 .. Len(f.trucks) /\ Len(f.trucks) \in Nat /\ DOMAIN p = Trucks(f)
    BY RoutesAre, FleetIs
  <2>2. tu[1] \in Int /\ tu[2] \in Int
    BY <2>1
  <2> QED BY <1>2, <2>1, <2>2
<1>4. Cut(p[tu[1]], p[tu[2]], i, j) \in OrdersWithin(Jobs(f)) /\ Cut(p[tu[2]], p[tu[1]], j, i) \in OrdersWithin(Jobs(f))
  BY <1>1, <1>2, <1>3
<1>5. [p EXCEPT ![tu[1]] = Cut(p[tu[1]], p[tu[2]], i, j), ![tu[2]] = Cut(p[tu[2]], p[tu[1]], j, i)] \in Plans(f)
  <2> HIDE DEF Cut
  <2> QED BY <1>3, <1>4 DEF Plans
<1> QED BY <1>3, <1>5

(* Two deliveries exchanged.                                                *)
LEMMA ExchangedAre ==
  ASSUME NEW f, IsFleet(f), NEW p \in Plans(f)
  PROVE  Exchanged(p) \subseteq Plans(f)
<1> DEFINE Other(a, b, job) == IF job = a THEN b ELSE IF job = b THEN a ELSE job
           Swapped(a, b) == [t \in DOMAIN p |-> [i \in DOMAIN p[t] |-> Other(a, b, p[t][i])]]
<1>1. Aboard(p) \subseteq Jobs(f)
  <2>1. \A t \in DOMAIN p : Range(p[t]) \subseteq Jobs(f)
    BY RoutesAre
  <2> QED BY <2>1 DEF Aboard
<1>2. ASSUME NEW a \in Jobs(f), NEW b \in Jobs(f) PROVE Swapped(a, b) \in Plans(f)
  <2>1. ASSUME NEW t \in Trucks(f) PROVE [i \in DOMAIN p[t] |-> Other(a, b, p[t][i])] \in OrdersWithin(Jobs(f))
    <3> DEFINE o == p[t]
               q == [i \in DOMAIN o |-> Other(a, b, o[i])]
    <3>1. o \in Seq(Jobs(f)) /\ Len(o) \in Nat /\ DOMAIN o = 1 .. Len(o) /\ Distinct(o)
      BY RoutesAre
    <3> HIDE DEF o
    <3>2. \A i \in DOMAIN o : Other(a, b, o[i]) \in Jobs(f)
      BY <3>1
    <3>3. q \in Seq(Jobs(f))
      BY <3>1, <3>2
    <3>4. Distinct(q)
      BY <3>1 DEF Distinct
    <3> HIDE DEF q
    <3>5. q \in OrdersWithin(Jobs(f))
      BY <3>3, <3>4, DistinctIsOrder
    <3> QED BY <3>5 DEF q, o
  <2>2. DOMAIN p = Trucks(f)
    BY RoutesAre
  <2> HIDE DEF Other
  <2> QED BY <2>1, <2>2 DEF Plans
<1>3. \A ab \in Aboard(p) \X Aboard(p) : Swapped(ab[1], ab[2]) \in Plans(f)
  <2> HIDE DEF Swapped
  <2> QED BY <1>1, <1>2
<1>4. Exchanged(p) = {Swapped(ab[1], ab[2]) : ab \in Aboard(p) \X Aboard(p)}
  BY DEF Exchanged
<1> HIDE DEF Swapped
<1> QED BY <1>3, <1>4

-----------------------------------------------------------------------------
(* The steps of a search.                                                   *)

(* The problem of this search.                                              *)
Asking ==
  /\ fleet \in DOMAIN Fleets /\ here = Book(Fleets[fleet])
  /\ strategy \in Strategies \cup {"distance"} /\ floor \in here.plans

IsPhase == phase \in Range(Phases) \cup {"asked"}

(* No plan is better than the answer of an exhaustive search.               *)
BestOfAll == \A r \in here.plans : ~Better(here, strategy, r, best)

(* What holds of a search at every step: besides what it promises, the plan *)
(* under repair is itself a plan, and an exhaustive search takes one step.  *)
SearchInv ==
  /\ Asking
  /\ best \in here.plans /\ ~Better(here, strategy, floor, best)
  /\ work \in here.plans /\ astray \subseteq Jobs(here.fleet)
  /\ IsPhase
  /\ Exact => phase \in {"asked", "found"}
  /\ phase = "found" /\ Exact => BestOfAll

(* The book of a search.                                                    *)
LEMMA AskedIs ==
  ASSUME Asking
  PROVE  /\ IsFleet(here.fleet) /\ here.fleet.trucks # <<>> /\ here = Book(here.fleet)
         /\ here.scores = ScoresOf(here.fleet) /\ here = Books[fleet]
         /\ here.plans = {p \in Plans(here.fleet) : ValidPlan(here.scores, p)}
         /\ strategy \in Compared /\ Empty(here) \in here.plans
         /\ \A t \in Trucks(here.fleet) : Empty(here)[t] = <<>>
<1>1. IsFleet(Fleets[fleet]) /\ Fleets[fleet].trucks # <<>> /\ Books[fleet] = Book(Fleets[fleet])
  BY BooksAre DEF Asking
<1>2. here = Book(Fleets[fleet]) /\ here.fleet = Fleets[fleet]
  BY <1>1, BookHolds DEF Asking
<1>3. /\ here.scores = ScoresOf(here.fleet)
      /\ here.plans = {p \in Plans(here.fleet) : ValidPlan(here.scores, p)}
  BY <1>1, <1>2, BookHolds
<1>4. Empty(here) \in here.plans /\ \A t \in Trucks(here.fleet) : Empty(here)[t] = <<>>
  BY <1>1, <1>2, EmptyIs
<1>5. strategy \in Compared
  BY DEF Asking, Compared
<1> QED BY <1>1, <1>2, <1>3, <1>4, <1>5

(* The place where the plan changes takes only plans, and never a worse one.*)
LEMMA ConsiderKeeps ==
  ASSUME Asking, best \in here.plans, ~Better(here, strategy, floor, best),
         NEW routes \in Plans(here.fleet), Consider(routes)
  PROVE  /\ best' \in here.plans /\ ~Better(here, strategy, floor, best')
         /\ ValidPlan(here.scores, routes) => ~Better(here, strategy, routes, best')
<1>1. /\ IsFleet(here.fleet) /\ here.fleet.trucks # <<>> /\ here = Book(here.fleet) /\ strategy \in Compared
      /\ here.plans = {p \in Plans(here.fleet) : ValidPlan(here.scores, p)} /\ floor \in here.plans
  BY AskedIs DEF Asking
<1>2. CASE ValidPlan(here.scores, routes)
  <2>1. routes \in here.plans /\ best' = BetterOf(here, strategy, routes, best)
    BY <1>1, <1>2 DEF Consider
  <2>2. /\ BetterOf(here, strategy, routes, best) \in {best, routes}
        /\ ~Better(here, strategy, floor, BetterOf(here, strategy, routes, best))
        /\ ~Better(here, strategy, routes, BetterOf(here, strategy, routes, best))
    BY <1>1, <2>1, BetterStays
  <2> QED BY <2>1, <2>2
<1>3. CASE ~ValidPlan(here.scores, routes)
  BY <1>3 DEF Consider
<1> QED BY <1>2, <1>3

(* The insertions are plans, and so is the best of them.                    *)
LEMMA InsertionsAre ==
  ASSUME Asking, NEW routes, NEW job, NEW objective \in Compared
  PROVE  /\ InsertedAt(here, routes, job) \subseteq here.plans /\ Inserted(routes) \subseteq here.plans
         /\ InsertedAt(here, routes, job) # {} =>
              BestPlan(here, objective, InsertedAt(here, routes, job)) \in here.plans
         /\ \A t : BestOn(objective, routes, t, job) \subseteq here.plans
<1>1. \A j : InsertedAt(here, routes, j) \subseteq here.plans
  BY DEF InsertedAt
<1>2. ASSUME NEW s \in SUBSET here.plans, s # {} PROVE BestPlan(here, objective, s) \in here.plans
  BY <1>2, AskedIs, BestPlanIs
<1>3. Inserted(routes) \subseteq here.plans
  BY <1>1 DEF Inserted
<1>4. ASSUME NEW t PROVE BestOn(objective, routes, t, job) \subseteq here.plans
  <2> DEFINE found == {r \in InsertedAt(here, routes, job) : r[t] # routes[t]}
  <2>1. found \in SUBSET here.plans
    BY <1>1
  <2>2. BestOn(objective, routes, t, job) = IF found = {} THEN {} ELSE {BestPlan(here, objective, found)}
    BY DEF BestOn
  <2> HIDE DEF found
  <2> QED BY <1>2, <2>1, <2>2
<1> QED BY <1>1, <1>2, <1>3, <1>4

(* The trials of a neighbourhood are made of orders.                        *)
LEMMA TrialsAre ==
  ASSUME Asking, work \in here.plans
  PROVE  SeedTrials \subseteq Plans(here.fleet) /\ Neighbours \subseteq Plans(here.fleet)
<1>1. /\ IsFleet(here.fleet) /\ here.plans = {p \in Plans(here.fleet) : ValidPlan(here.scores, p)}
      /\ strategy \in Compared /\ here = Books[fleet]
  BY AskedIs
<1>2. work \in Plans(here.fleet) /\ Apart(work)
  BY <1>1, PlanIsCounted DEF ValidPlan
<1>3. Inserted(work) \subseteq here.plans /\ \A r : Inserted(r) \subseteq here.plans
  BY <1>1, InsertionsAre
<1>4. Displaced(work) \subseteq here.plans
  <2> DEFINE Kept(job) == {r \in InsertedAt(here, Without(work, {job}), job) :
               \A t \in Trucks(here.fleet) : job \in Range(work[t]) => job \notin Range(r[t])}
             moved == UNION {Kept(job) : job \in Aboard(work)}
  <2>1. \A job : Kept(job) \subseteq here.plans
    BY DEF InsertedAt
  <2>2. Displaced(work) = moved \cup UNION {Inserted(r) : r \in moved}
    BY DEF Displaced
  <2> HIDE DEF Kept
  <2>3. moved \subseteq here.plans
    BY <2>1
  <2> HIDE DEF moved
  <2> QED BY <1>3, <2>2, <2>3
<1>5. Reordered(work) \subseteq Plans(here.fleet) /\ TailsExchanged(work) \subseteq Plans(here.fleet)
        /\ Exchanged(work) \subseteq Plans(here.fleet)
  BY <1>1, <1>2, ReorderedIs, TailsAre, ExchangedAre
<1>6. SeedPlans[SeedObjective][fleet] \subseteq here.plans
  <2>1. SeedObjective \in {"balanced", "vehicles"} /\ SeedObjective \in Compared
    BY <1>1 DEF SeedObjective, Compared
  <2>2. fleet \in DOMAIN Fleets /\ strategy \in Strategies \cup {"distance"}
    BY DEF Asking
  <2> QED BY <1>1, <2>1, <2>2, SeedsAre
<1> QED BY <1>1, <1>3, <1>4, <1>5, <1>6 DEF SeedTrials, Neighbours

(* A step of a search that is not exhaustive.                               *)
LEMMA SearchStepKeeps ==
  ASSUME SearchInv, ~Exact, UNCHANGED <<fleet, here, strategy, floor>>,
         best' = best \/ \E routes \in Plans(here.fleet) : Consider(routes),
         work' \in here.plans, astray' \subseteq Jobs(here.fleet), IsPhase'
  PROVE  SearchInv'
<1>1. Asking /\ best \in here.plans /\ ~Better(here, strategy, floor, best)
  BY DEF SearchInv
<1>2. best' \in here.plans /\ ~Better(here, strategy, floor, best')
  BY <1>1, ConsiderKeeps
<1>3. ~Exact' /\ Asking'
  BY <1>1 DEF Exact, Asking
<1>4. Better(here, strategy, floor, best)' <=> Better(here, strategy, floor, best')
  BY DEF Better
<1> QED BY <1>2, <1>3, <1>4 DEF SearchInv

(* What every action may rely on.                                           *)
LEMMA SearchHolds ==
  ASSUME SearchInv
  PROVE  /\ Asking /\ best \in here.plans /\ work \in here.plans /\ astray \subseteq Jobs(here.fleet)
         /\ Empty(here) \in here.plans /\ here.plans \subseteq Plans(here.fleet)
         /\ strategy \in Compared /\ IsFleet(here.fleet) /\ IsPhase
         /\ \A p \in here.plans : \A t \in Trucks(here.fleet) : Range(p[t]) \subseteq Jobs(here.fleet)
         /\ (phase \notin {"asked", "found"} => ~Exact)
         /\ \A name \in {"seed", "again", "build", "repair", "rounds", "ruin", "pool", "found"} : name \in Range(Phases)
<1>1. Asking
  BY DEF SearchInv
<1>2. /\ Empty(here) \in here.plans /\ here.plans \subseteq Plans(here.fleet) /\ strategy \in Compared
      /\ IsFleet(here.fleet)
  BY <1>1, AskedIs
<1>3. \A p \in here.plans : \A t \in Trucks(here.fleet) : Range(p[t]) \subseteq Jobs(here.fleet)
  BY <1>2, RoutesAre
<1>4. \A name \in {"seed", "again", "build", "repair", "rounds", "ruin", "pool", "found"} : name \in Range(Phases)
  <2>1. DOMAIN Phases = 1 .. 8
    BY DEF Phases
  <2>2. \A i \in 1 .. 8 : Phases[i] \in Range(Phases)
    BY <2>1 DEF Range
  <2>3. /\ Phases[1] = "seed" /\ Phases[2] = "again" /\ Phases[3] = "build" /\ Phases[4] = "repair"
        /\ Phases[5] = "rounds" /\ Phases[6] = "ruin" /\ Phases[7] = "pool" /\ Phases[8] = "found"
    BY DEF Phases
  <2>4. \A i \in {1, 2, 3, 4, 5, 6, 7, 8} : i \in 1 .. 8
    OBVIOUS
  <2> HIDE DEF Phases
  <2> QED BY <2>2, <2>3, <2>4
<1> QED BY <1>1, <1>2, <1>3, <1>4 DEF SearchInv

(* The older search.                                                        *)
LEMMA SeedKeeps ==
  ASSUME SearchInv,
         \/ SkipSearch \/ StartSeed \/ AdoptSeed \/ SeedAgain
         \/ phase \in {"seed", "again"} /\ \E routes \in SeedTrials : ImproveSeed(routes)
  PROVE  SearchInv'
<1> USE SearchHolds
<1>1. CASE SkipSearch
  BY <1>1, SearchStepKeeps DEF SkipSearch, Ask, IsPhase
<1>2. CASE StartSeed
  <2>1. FirstSeeds[strategy][fleet] \in here.plans
    BY AskedIs, SeedsAre DEF Asking
  <2> QED BY <1>2, <2>1, SearchStepKeeps DEF StartSeed, Ask, IsPhase
<1>3. CASE AdoptSeed
  <2>1. ~Exact /\ Consider(work) /\ work \in Plans(here.fleet)
    BY <1>3 DEF AdoptSeed
  <2> QED BY <1>3, <2>1, SearchStepKeeps DEF AdoptSeed, IsPhase
<1>4. CASE SeedAgain
  <2>1. ~Exact /\ Consider(work) /\ work \in Plans(here.fleet)
    BY <1>4 DEF SeedAgain
  <2>2. best' \in here.plans
    BY <2>1, ConsiderKeeps DEF SearchInv
  <2> QED BY <1>4, <2>1, <2>2, SearchStepKeeps DEF SeedAgain, IsPhase
<1>5. CASE phase \in {"seed", "again"} /\ \E routes \in SeedTrials : ImproveSeed(routes)
  <2>1. PICK routes \in SeedTrials : ImproveSeed(routes)
    BY <1>5
  <2>2. routes \in Plans(here.fleet)
    BY TrialsAre
  <2>3. routes \in here.plans
    BY <2>1, <2>2, AskedIs DEF ImproveSeed
  <2>4. ~Exact
    BY <1>5
  <2> QED BY <2>1, <2>3, <2>4, SearchStepKeeps DEF ImproveSeed, IsPhase
<1> QED BY <1>1, <1>2, <1>3, <1>4, <1>5

(* Constructions and insertions.                                            *)
LEMMA InsertingKeeps ==
  ASSUME SearchInv, NEW job, BuildNext(job) \/ InsertMissing(job) \/ PutBack(job)
  PROVE  SearchInv'
<1> USE SearchHolds
<1>1. CASE BuildNext(job)
  <2> DEFINE routes == BestPlan(here, strategy, InsertedAt(here, work, job))
  <2>1. routes \in here.plans
    BY <1>1, InsertionsAre DEF BuildNext
  <2>2. work' = routes /\ Consider(routes) /\ ~Exact
    BY <1>1 DEF BuildNext
  <2> QED BY <1>1, <2>1, <2>2, SearchStepKeeps DEF BuildNext, IsPhase
<1>2. CASE InsertMissing(job)
  <2> DEFINE routes == BestPlan(here, strategy, InsertedAt(here, best, job))
  <2>1. routes \in here.plans
    BY <1>2, InsertionsAre DEF InsertMissing
  <2>2. Consider(routes) /\ ~Exact
    BY <1>2 DEF InsertMissing
  <2> HIDE DEF routes
  <2>3. best' \in here.plans
    BY <2>1, <2>2, ConsiderKeeps DEF SearchInv
  <2>4. work' \in here.plans
    BY <1>2, <2>3 DEF InsertMissing
  <2> QED BY <1>2, <2>1, <2>2, <2>4, SearchStepKeeps DEF InsertMissing, IsPhase
<1>3. CASE PutBack(job)
  <2>1. work' \in here.plans
    BY <1>3, InsertionsAre DEF PutBack
  <2>2. ~Exact
    BY <1>3 DEF PutBack
  <2> QED BY <1>3, <2>1, <2>2, SearchStepKeeps DEF PutBack, IsPhase
<1> QED BY <1>1, <1>2, <1>3

(* A repair, the rounds, and what follows.                                  *)
LEMMA RepairKeeps ==
  ASSUME SearchInv,
         \/ BuildAgain \/ Land \/ Rebuilt \/ StartRound \/ NextPhase
         \/ phase = "rounds" /\ \E routes \in Neighbours : TryNeighbour(routes)
  PROVE  SearchInv'
<1> USE SearchHolds
<1>1. CASE BuildAgain
  BY <1>1, SearchStepKeeps DEF BuildAgain, IsPhase
<1>2. CASE Land
  <2>1. PICK job \in astray : IF InsertedAt(here, work, job) = {} THEN best' = best
                              ELSE Consider(BestPlan(here, strategy, InsertedAt(here, work, job)))
    BY <1>2 DEF Land
  <2>2. best' = best \/ \E routes \in Plans(here.fleet) : Consider(routes)
    BY <2>1, InsertionsAre
  <2>3. ~Exact
    BY <1>2 DEF Land
  <2> QED BY <1>2, <2>2, <2>3, SearchStepKeeps DEF Land, IsPhase
<1>3. CASE Rebuilt
  <2>1. ~Exact /\ Consider(work) /\ work \in Plans(here.fleet)
    BY <1>3 DEF Rebuilt
  <2>2. best' \in here.plans
    BY <2>1, ConsiderKeeps DEF SearchInv
  <2> QED BY <1>3, <2>1, <2>2, SearchStepKeeps DEF Rebuilt, IsPhase
<1>4. CASE StartRound
  BY <1>4, SearchStepKeeps DEF StartRound, IsPhase
<1>5. CASE NextPhase
  <2> DEFINE i == CHOOSE k \in DOMAIN Phases : Phases[k] = phase
  <2>1. phase \in {"build", "repair", "rounds", "ruin"} /\ phase' = Phases[1 + i]
    BY <1>5 DEF NextPhase
  <2>2. i \in 1 .. 8 /\ Phases[i] = phase
    <3>1. \E k \in DOMAIN Phases : Phases[k] = phase
      BY <2>1 DEF Range
    <3>2. DOMAIN Phases = 1 .. 8
      BY DEF Phases
    <3> QED BY <3>1, <3>2
  <2> HIDE DEF i
  <2>3. i # 8
    BY <2>1, <2>2 DEF Phases
  <2>4. 1 + i \in 1 .. 8
    BY <2>2, <2>3
  <2>5. Phases[1 + i] \in Range(Phases)
    <3>1. DOMAIN Phases = 1 .. 8
      BY DEF Phases
    <3> QED BY <2>4, <3>1 DEF Range
  <2>6. phase' \in Range(Phases)
    BY <2>1, <2>5
  <2>7. IsPhase'
    BY <2>6 DEF IsPhase, Phases
  <2>8. ~Exact
    BY <2>1
  <2> QED BY <1>5, <2>7, <2>8, SearchStepKeeps DEF NextPhase
<1>6. CASE phase = "rounds" /\ \E routes \in Neighbours : TryNeighbour(routes)
  <2>1. PICK routes \in Neighbours : TryNeighbour(routes)
    BY <1>6
  <2>2. routes \in Plans(here.fleet) /\ Consider(routes) /\ ~Exact
    BY <1>6, <2>1, TrialsAre DEF TryNeighbour
  <2> QED BY <2>1, <2>2, SearchStepKeeps DEF TryNeighbour, IsPhase
<1> QED BY <1>1, <1>2, <1>3, <1>4, <1>5, <1>6

(* A part of a plan is taken out.                                           *)
LEMMA TakingKeeps ==
  ASSUME SearchInv,
         \/ \E base \in RepairBases : \E removed \in SUBSET Aboard(base) : TakeApart(base, removed)
         \/ \E base \in RepairBases, t \in Trucks(here.fleet) : \E missing \in Missing(base), removed \in Range(base[t]) :
              EjectFirst(base, t, missing, removed)
         \/ \E t \in Trucks(here.fleet), removed \in Jobs(here.fleet) : EjectNext(t, removed)
  PROVE  SearchInv'
<1> USE SearchHolds
<1>1. RepairBases \subseteq here.plans
  BY DEF RepairBases
<1>2. ASSUME NEW base \in RepairBases, NEW removed, TakeApart(base, removed) PROVE SearchInv'
  <2>1. Without(base, removed) \in Plans(here.fleet)
    BY <1>1, WithoutTyped
  <2>2. work' \in here.plans
    BY <1>2, <2>1, AskedIs DEF TakeApart
  <2>3. astray' \subseteq Jobs(here.fleet) /\ ~Exact
    BY <1>2 DEF TakeApart, Missing
  <2> QED BY <1>2, <2>2, <2>3, SearchStepKeeps DEF TakeApart, IsPhase
<1>3. ASSUME NEW base \in RepairBases, NEW t \in Trucks(here.fleet), NEW missing, NEW removed \in Range(base[t]),
             EjectFirst(base, t, missing, removed)
      PROVE  SearchInv'
  <2>1. work' \in here.plans
    BY <1>3, InsertionsAre DEF EjectFirst
  <2>2. astray' \subseteq Jobs(here.fleet) /\ ~Exact
    BY <1>1, <1>3 DEF EjectFirst
  <2> QED BY <1>3, <2>1, <2>2, SearchStepKeeps DEF EjectFirst, IsPhase
<1>4. ASSUME NEW t \in Trucks(here.fleet), NEW removed \in Jobs(here.fleet), EjectNext(t, removed)
      PROVE  SearchInv'
  <2>1. work' \in here.plans
    BY <1>4, InsertionsAre DEF EjectNext
  <2>2. astray' \subseteq Jobs(here.fleet) /\ ~Exact
    BY <1>4 DEF EjectNext
  <2> QED BY <1>4, <2>1, <2>2, SearchStepKeeps DEF EjectNext, IsPhase
<1> QED BY <1>2, <1>3, <1>4

(* The routes that were met, put together again.                            *)
LEMMA RecombineKeeps ==
  ASSUME SearchInv, phase = "pool" /\ \E pool \in kSubset(PoolRoutes, MetRoutes) : Recombine(pool)
  PROVE  SearchInv'
<1> USE SearchHolds
<1>1. PICK pool \in kSubset(PoolRoutes, MetRoutes) : Recombine(pool)
  OBVIOUS
<1>2. pool \subseteq MetRoutes
  BY DEF kSubset
<1> DEFINE T == Trucks(here.fleet)
           Own(t) == {o \in {best[t], <<>>} : TRUE} \cup {r[2] : r \in {q \in pool : q[1] = t}}
           Kept(t) == {o \in Own(t) : \A q \in Own(t) : o # <<>> /\ Range(q) = Range(o) =>
                         ~Before(RouteKey(strategy, here.scores[t][q]), RouteKey(strategy, here.scores[t][o]))}
           made == {r \in [T -> UNION {Kept(t) : t \in T}] :
                      ValidPlan(here.scores, r) /\ \A t \in T : r[t] \in Kept(t)}
<1>3. Consider(BestPlan(here, strategy, made)) /\ phase' = "found"
      /\ UNCHANGED <<fleet, here, strategy, floor, work, astray>>
  BY <1>1 DEF Recombine
<1>4. \A t \in T : Own(t) \subseteq OrdersWithin(Jobs(here.fleet))
  <2>1. \A t \in T : Empty(here)[t] = <<>> /\ Empty(here)[t] \in OrdersWithin(Jobs(here.fleet))
    BY AskedIs DEF Plans
  <2>2. \A t \in T : best[t] \in OrdersWithin(Jobs(here.fleet))
    BY DEF Plans
  <2>3. \A r \in pool : r[2] \in OrdersWithin(Jobs(here.fleet))
    BY <1>2 DEF MetRoutes
  <2> QED BY <2>1, <2>2, <2>3
<1>5. \A t \in T : Kept(t) \subseteq Own(t) /\ <<>> \in Kept(t)
  OBVIOUS
<1> HIDE DEF Own, Kept
<1>6. made \in SUBSET here.plans
  <2>1. \A r \in made : r \in Plans(here.fleet) /\ ValidPlan(here.scores, r)
    BY <1>4, <1>5 DEF Plans
  <2> HIDE DEF made
  <2> QED BY <2>1, AskedIs
<1>7. Empty(here) \in made
  <2>1. ValidPlan(here.scores, Empty(here)) /\ \A t \in T : Empty(here)[t] = <<>>
    BY AskedIs
  <2>2. Empty(here) \in [T -> UNION {Kept(t) : t \in T}]
    <3>1. Empty(here) = [t \in T |-> <<>>]
      BY DEF Empty
    <3> QED BY <1>5, <3>1
  <2> QED BY <1>5, <2>1, <2>2
<1> HIDE DEF made
<1>8. BestPlan(here, strategy, made) \in here.plans
  <2>1. made # {}
    BY <1>7
  <2>2. IsFleet(here.fleet) /\ here.fleet.trucks # <<>> /\ here = Book(here.fleet)
    BY AskedIs
  <2>3. made \in SUBSET Book(here.fleet).plans
    BY <1>6, <2>2
  <2>4. BestPlan(Book(here.fleet), strategy, made) \in made
    BY <2>1, <2>2, <2>3, BestPlanIs
  <2> QED BY <1>6, <2>2, <2>4
<1>9. BestPlan(here, strategy, made) \in Plans(here.fleet) /\ ~Exact
  BY <1>8
<1>10. IsPhase'
  BY <1>3 DEF IsPhase, Phases
<1> QED BY <1>3, <1>9, <1>10, SearchStepKeeps

(* A search begins with its floor.                                          *)
LEMMA SearchBegins == SearchInit => SearchInv
<1> SUFFICES ASSUME SearchInit PROVE SearchInv
  OBVIOUS
<1>1. fleet \in DOMAIN Fleets /\ here = Books[fleet] /\ strategy \in Strategies \cup {"distance"}
      /\ floor = Floors[strategy][fleet] /\ best = floor /\ work = Empty(here) /\ astray = {} /\ phase = "asked"
  BY DEF SearchInit
<1>2. Asking
  <2>1. here = Book(Fleets[fleet])
    BY <1>1, BooksAre
  <2>2. floor \in here.plans
    BY <1>1, SeedsAre
  <2> QED BY <1>1, <2>1, <2>2 DEF Asking
<1>3. ~Better(here, strategy, floor, best)
  <2>1. IsFleet(here.fleet) /\ here.fleet.trucks # <<>> /\ here = Book(here.fleet) /\ strategy \in Compared
    BY <1>2, AskedIs
  <2>2. floor \in Book(here.fleet).plans
    BY <1>2, <2>1 DEF Asking
  <2>3. here.keys[strategy][floor] \in KeysOf(Width(strategy)) /\ Width(strategy) \in Nat
    BY <2>1, <2>2, BookHolds DEF Compared, Width
  <2> QED BY <1>1, <2>3, BeforeIrreflexive DEF Better
<1>4. work \in here.plans
  BY <1>1, <1>2, AskedIs
<1> QED BY <1>1, <1>2, <1>3, <1>4 DEF SearchInv, IsPhase, Asking

-----------------------------------------------------------------------------
(* The work of a route is never less than nothing.                          *)

(* No drive arrives before it leaves.                                       *)
LEMMA DriveArrives ==
  ASSUME NEW s \in Int, NEW duration \in Nat, NEW breaks \in Seq(WindowSet)
  PROVE  TravelEnd(s, duration, breaks) \in Int /\ s <= TravelEnd(s, duration, breaks)
<1> DEFINE n == Len(breaks)
<1>1. n \in Nat /\ \A k \in 1 .. n : breaks[k] \in WindowSet
  OBVIOUS
<1> PICK h : DriveOf(h, s, duration, breaks)
  BY DriveOfStart
<1>2. /\ h[0] = [at |-> s, left |-> duration, done |-> FALSE]
      /\ TravelEnd(s, duration, breaks) = h[n].at + h[n].left
      /\ \A k \in 0 .. n : h[k] \in TripSet
      /\ \A k \in 1 .. n : h[k] = Drive(h[k - 1], breaks[k])
  BY DEF DriveOf
<1> HIDE DEF n
<1> DEFINE T == {k \in Nat : k <= n => s <= h[k].at /\ 0 <= h[k].left}
<1>3. 0 \in T
  BY <1>2
<1>4. \A k \in Nat : k \in T => k + 1 \in T
  <2> SUFFICES ASSUME NEW k \in Nat, k \in T, k + 1 <= n PROVE s <= h[k + 1].at /\ 0 <= h[k + 1].left
    OBVIOUS
  <2>1. k \in 0 .. n /\ k + 1 \in 1 .. n /\ (k + 1) - 1 = k
    BY <1>1
  <2> DEFINE a == h[k]
             pause == breaks[k + 1]
  <2>2. a \in TripSet /\ pause \in WindowSet /\ s <= a.at /\ 0 <= a.left /\ h[k + 1] = Drive(a, pause)
    BY <1>1, <1>2, <2>1
  <2> HIDE DEF a, pause
  <2>3. a.at \in Int /\ a.left \in Int /\ a.done \in BOOLEAN /\ pause.open \in Int /\ pause.close \in Int
    BY <2>2 DEF TripSet, WindowSet
  <2>4. a.at <= Greater(a.at, pause.close) /\ Greater(0, pause.open - a.at) \in {0, pause.open - a.at}
        /\ Greater(a.at, pause.close) \in Int
    BY <2>3 DEF Greater
  <2>5. s <= Drive(a, pause).at /\ 0 <= Drive(a, pause).left
    <3>1. CASE a.done \/ pause.close <= a.at
      BY <2>2, <3>1 DEF Drive
    <3>2. CASE ~(a.done \/ pause.close <= a.at) /\ a.at + a.left <= pause.open
      <4>1. Drive(a, pause) = [a EXCEPT !.done = TRUE]
        BY <3>2 DEF Drive
      <4>2. DOMAIN a = {"at", "left", "done"}
        BY <2>2 DEF TripSet
      <4> QED BY <2>2, <4>1, <4>2
    <3>3. CASE ~(a.done \/ pause.close <= a.at) /\ ~(a.at + a.left <= pause.open)
      <4>1. Drive(a, pause) = [at |-> Greater(a.at, pause.close),
                               left |-> a.left - Greater(0, pause.open - a.at), done |-> FALSE]
        BY <3>3 DEF Drive
      <4>2. 0 <= a.left - Greater(0, pause.open - a.at)
        BY <2>2, <2>3, <2>4, <3>3
      <4> QED BY <2>2, <2>3, <2>4, <4>1, <4>2
    <3> QED BY <3>1, <3>2, <3>3
  <2> QED BY <2>2, <2>5
<1>5. n \in T
  <2> HIDE DEF T
  <2>1. Nat \subseteq T
    BY <1>3, <1>4, NatSet
  <2> QED BY <1>1, <2>1
<1>6. h[n] \in TripSet
  BY <1>1, <1>2
<1> QED BY <1>1, <1>2, <1>5, <1>6 DEF TripSet

(* No unloading begins before the driver is there.                          *)
LEMMA ServedLater ==
  ASSUME NEW s \in Int, NEW stop, IsStop(stop), NEW breaks, AreBreaks(breaks)
  PROVE  Service(s, stop, breaks, TRUE).start \in Int /\ s <= Service(s, stop, breaks, TRUE).start
<1>1. breaks \in Seq(WindowSet) /\ Len(breaks) \in Nat /\ stop.service \in Nat
  BY DEF AreBreaks, IsStop
<1> DEFINE n == Len(breaks) + 1
<1> PICK h : ServedOf(h, s, stop, breaks, TRUE)
  BY <1>1, ServedOfStop
<1> DEFINE Again(k) == AppointAgain(TRUE, h[k - 1], ServiceReady(h[k - 1].start, stop.service, breaks), stop)
<1>2. /\ h[0] = Appoint(TRUE, s, stop) /\ Service(s, stop, breaks, TRUE) = h[n]
      /\ \A k \in 0 .. n : h[k] \in AppointmentSet
      /\ \A k \in 1 .. n : h[k] = Again(k)
  BY <1>1 DEF ServedOf
<1> DEFINE T == {k \in Nat : k <= n => s <= h[k].start}
<1>3. 0 \in T
  BY <1>2, AppointmentHolds
<1>4. \A k \in Nat : k \in T => k + 1 \in T
  <2> SUFFICES ASSUME NEW k \in Nat, k \in T, k + 1 <= n PROVE s <= h[k + 1].start
    OBVIOUS
  <2>1. k \in 0 .. n /\ k + 1 \in 1 .. n /\ (k + 1) - 1 = k /\ k <= n
    BY <1>1
  <2> DEFINE ev == h[k]
             ready == ServiceReady(ev.start, stop.service, breaks)
  <2>2. h[k + 1] = AppointAgain(TRUE, ev, ready, stop)
    BY <1>2, <2>1
  <2>3. ev.start \in Int /\ s <= ev.start
    BY <1>2, <2>1 DEF AppointmentSet
  <2> HIDE DEF ev
  <2>4. ready \in Int /\ ev.start <= ready
    <3>1. ev.start <= ev.start
      BY <2>3
    <3> QED BY <1>1, <2>3, <3>1, SoonerReady
  <2> HIDE DEF ready
  <2>5. Appoint(TRUE, ready, stop).start \in Int /\ ready <= Appoint(TRUE, ready, stop).start
    BY <2>4, AppointmentHolds, AppointTyped DEF AppointmentSet
  <2>6. s <= AppointAgain(TRUE, ev, ready, stop).start
    <3>1. CASE ready = ev.start
      BY <2>3, <3>1 DEF AppointAgain
    <3>2. CASE ready # ev.start
      <4>1. AppointAgain(TRUE, ev, ready, stop) = Appoint(TRUE, ready, stop)
        BY <3>2 DEF AppointAgain
      <4>2. s <= Appoint(TRUE, ready, stop).start
        <5> DEFINE x == Appoint(TRUE, ready, stop).start
        <5>1. x \in Int /\ ready <= x
          BY <2>5
        <5> HIDE DEF x
        <5>2. s <= x
          BY <2>3, <2>4, <5>1
        <5> QED BY <5>2 DEF x
      <4> QED BY <4>1, <4>2
    <3> QED BY <3>1, <3>2
  <2> QED BY <2>2, <2>6
<1>5. n \in T
  <2> HIDE DEF T
  <2>1. Nat \subseteq T
    BY <1>3, <1>4, NatSet
  <2> QED BY <1>1, <2>1
<1>6. n \in 0 .. n /\ n <= n
  BY <1>1
<1> QED BY <1>1, <1>2, <1>5, <1>6 DEF AppointmentSet

(* The waits of a run are a part of its time.                               *)
Counted(p, run) == 0 <= run.opening /\ p.leave + run.opening <= run.at

(* One more stop keeps the count: no minute is worked before the departure. *)
LEMMA VisitCounts ==
  ASSUME NEW p, IsProblem(p), AreBreaks(p.breaks), NEW run \in RunSet(Len(p.stops)), Counted(p, run),
         NEW stop \in 1 .. Len(p.stops)
  PROVE  Counted(p, Visit(p, TRUE, run, stop))
<1> DEFINE arrival == TravelEnd(run.at, p.min[<<run.place, stop>>], p.breaks)
           s == p.stops[stop]
           ev == Service(arrival, s, p.breaks, TRUE)
           v == Visit(p, TRUE, run, stop)
<1>1. run.at \in Int /\ run.opening \in Int /\ run.place \in 0 .. Len(p.stops) /\ p.leave \in Int
      /\ stop \in 0 .. Len(p.stops)
  BY ProblemIs DEF RunSet
<1>2. p.min[<<run.place, stop>>] \in Nat /\ IsStop(s) /\ p.breaks \in Seq(WindowSet)
  BY <1>1, ProblemIs
<1>3. arrival \in Int /\ run.at <= arrival
  <2> DEFINE drive == p.min[<<run.place, stop>>]
  <2>1. drive \in Nat
    BY <1>2
  <2> HIDE DEF drive
  <2>2. TravelEnd(run.at, drive, p.breaks) \in Int /\ run.at <= TravelEnd(run.at, drive, p.breaks)
    BY <1>1, <1>2, <2>1, DriveArrives
  <2> QED BY <2>2 DEF drive
<1>4. v.at = ev.start + s.service /\ v.opening = run.opening + OpeningWait(Greater(0, ev.start - arrival), ev.start, s.windows)
  BY DEF Visit, Reached, Unloaded
<1> HIDE DEF arrival, s, v
<1>5. ev.start \in Int /\ arrival <= ev.start
  BY <1>2, <1>3, ServedLater
<1> HIDE DEF ev
<1>6. Greater(0, ev.start - arrival) = ev.start - arrival
  BY <1>3, <1>5 DEF Greater
<1>7. OpeningWait(Greater(0, ev.start - arrival), ev.start, s.windows) \in {0, ev.start - arrival}
  BY <1>6 DEF OpeningWait
<1>8. s.service \in Nat
  BY <1>2 DEF IsStop
<1>9. Counted(p, v)
  BY <1>1, <1>3, <1>4, <1>5, <1>7, <1>8 DEF Counted
<1> QED BY <1>9 DEF v

(* So does a whole route, with or without its way back.                     *)
LEMMA RunCounts ==
  ASSUME NEW p, IsProblem(p), AreBreaks(p.breaks), NEW order \in Seq(1 .. Len(p.stops))
  PROVE  /\ Visited(p, order, TRUE) \in RunSet(Len(p.stops)) /\ Counted(p, Visited(p, order, TRUE))
         /\ Back(p, order, Visited(p, order, TRUE)) \in RunSet(Len(p.stops))
         /\ Counted(p, Back(p, order, Visited(p, order, TRUE)))
<1> DEFINE n == Len(p.stops)
           len == Len(order)
<1>1. len \in Nat /\ p.leave \in Int /\ \A k \in 1 .. len : order[k] \in 1 .. n
  BY ProblemIs
<1> PICK h : RunOf(h, p, order, TRUE)
  BY RunOfOrder
<1>2. /\ h[0] = AtDepot(p) /\ Visited(p, order, TRUE) = h[len]
      /\ \A k \in 0 .. len : h[k] \in RunSet(n)
      /\ \A k \in 1 .. len : h[k] = Visit(p, TRUE, h[k - 1], order[k])
  BY DEF RunOf
<1> DEFINE T == {k \in Nat : k <= len => Counted(p, h[k])}
<1>3. 0 \in T
  BY <1>1, <1>2 DEF Counted, AtDepot
<1>4. \A k \in Nat : k \in T => k + 1 \in T
  <2> SUFFICES ASSUME NEW k \in Nat, k \in T, k + 1 <= len PROVE Counted(p, h[k + 1])
    OBVIOUS
  <2>1. k \in 0 .. len /\ k + 1 \in 1 .. len /\ (k + 1) - 1 = k
    BY <1>1
  <2>2. h[k] \in RunSet(n) /\ Counted(p, h[k]) /\ order[k + 1] \in 1 .. n
    BY <1>1, <1>2, <2>1
  <2>3. h[k + 1] = Visit(p, TRUE, h[k], order[k + 1])
    BY <1>2, <2>1
  <2> QED BY <2>2, <2>3, VisitCounts
<1>5. len \in T /\ len \in 0 .. len
  <2> HIDE DEF T
  <2>1. Nat \subseteq T
    BY <1>3, <1>4, NatSet
  <2> QED BY <1>1, <2>1
<1> DEFINE run == Visited(p, order, TRUE)
<1>6. run \in RunSet(n) /\ Counted(p, run)
  <2>1. Counted(p, h[len])
    BY <1>1, <1>5
  <2> HIDE DEF T, n
  <2>2. run = h[len] /\ h[len] \in RunSet(n)
    BY <1>2, <1>5
  <2> HIDE DEF run
  <2> QED BY <2>1, <2>2
<1> HIDE DEF run, n, T
<1>7. Back(p, order, run) \in RunSet(n)
  BY <1>6, BackRouteTyped DEF n
<1>8. Counted(p, Back(p, order, run))
  <2>1. /\ run.at \in Int /\ run.opening \in Int /\ run.place \in 0 .. n /\ 0 \in 0 .. n
        /\ DOMAIN run = {"at", "place", "km", "wait", "opening", "late", "broken", "warned"}
    <3>1. n \in Nat
      BY ProblemIs DEF n
    <3> QED BY <1>6, <3>1 DEF RunSet
  <2> DEFINE drive == p.min[<<run.place, 0>>]
  <2>2. drive \in Nat /\ p.breaks \in Seq(WindowSet)
    BY <2>1, ProblemIs DEF n
  <2>3. \/ Back(p, order, run) = run
        \/ Back(p, order, run).at = TravelEnd(run.at, drive, p.breaks) /\ Back(p, order, run).opening = run.opening
    BY <2>1 DEF Back
  <2> HIDE DEF drive
  <2>4. TravelEnd(run.at, drive, p.breaks) \in Int /\ run.at <= TravelEnd(run.at, drive, p.breaks)
    BY <2>1, <2>2, DriveArrives
  <2> QED BY <1>1, <1>6, <2>1, <2>3, <2>4 DEF Counted
<1> QED BY <1>6, <1>7, <1>8 DEF run, n

(* The work of a driver is never less than nothing: what a later departure  *)
(* saves are waits of the route.                                            *)
LEMMA WorkIsCounted ==
  ASSUME NEW p, IsProblem(p), AreBreaks(p.breaks), NEW order \in Seq(1 .. Len(p.stops)),
         Evaluate(p, order) # NoScore
  PROVE  Evaluate(p, order).work \in Nat
<1> DEFINE home == Back(p, order, Visited(p, order, TRUE))
           violations == home.broken + (IF OutsideShift(p, p.leave, home.at) THEN 1 ELSE 0)
           free == RealizableSlack(p, order, p.leave, home.at, home.opening)
           slack == IF violations > 0 THEN 0 ELSE free
           r == EvaluateFixedSequence(p, order, TRUE)
<1>1. home \in RunSet(Len(p.stops)) /\ Counted(p, home)
  BY RunCounts
<1>2. r = Judged(p, order, home, violations)
  BY DEF EvaluateFixedSequence, Visited, Returned
<1> HIDE DEF home, violations, r
<1>3. r.work = (home.at - p.leave) - slack
  BY <1>2 DEF Judged, Report
<1>4. home.at \in Int /\ home.opening \in Int /\ p.leave \in Int /\ 0 <= home.opening /\ p.leave + home.opening <= home.at
  BY <1>1, ProblemIs DEF RunSet, Counted
<1>5. slack \in Nat /\ slack <= home.opening
  <2>1. free \in Nat /\ free <= home.opening
    BY <1>4, SlackTyped
  <2> HIDE DEF free
  <2> QED BY <1>4, <2>1
<1> HIDE DEF slack
<1>6. r.work \in Nat
  BY <1>3, <1>4, <1>5
<1>7. Evaluate(p, order).work = r.work
  BY DEF Evaluate, Accepted, r
<1> QED BY <1>6, <1>7

-----------------------------------------------------------------------------
(* Sums that do not depend on the order.                                    *)

(* A part of a finite set and one element less.                             *)
LEMMA OneLess ==
  ASSUME NEW D, IsFiniteSet(D), NEW s \in SUBSET D, s # {}
  PROVE  Taken(s) \in s /\ \A x \in s : s \ {x} \in SUBSET D /\ s \ {x} \in SUBSET s /\ s \ {x} # s
  BY DEF Taken

(* What is nowhere greater has no greater sum, and the same sum only if it  *)
(* is everywhere the same.                                                  *)
LEMMA TotalBelow ==
  ASSUME NEW D, IsFiniteSet(D), NEW f \in [D -> Int], NEW g \in [D -> Int], \A x \in D : f[x] <= g[x]
  PROVE  /\ Total(f) \in Int /\ Total(g) \in Int /\ Total(f) <= Total(g)
         /\ Total(f) = Total(g) => \A x \in D : f[x] = g[x]
<1>1. PICK F : SumsUp(F, D, f) /\ Total(f) = F[D]
  BY TotalRun
<1>2. PICK G : SumsUp(G, D, g) /\ Total(g) = G[D]
  BY TotalRun
<1> DEFINE Under(s) == F[s] <= G[s] /\ (F[s] = G[s] => \A x \in s : f[x] = g[x])
           T == {s \in SUBSET D : Under(s)}
<1>3. \A s \in SUBSET D : F[s] \in Int /\ G[s] \in Int
  BY <1>1, <1>2 DEF SumsUp
<1>4. ASSUME NEW s \in SUBSET D, \A u \in SUBSET s : u # s => u \in T PROVE s \in T
  <2>1. CASE s = {}
    <3>1. F[{}] = 0 /\ G[{}] = 0
      BY <1>1, <1>2 DEF SumsUp
    <3>2. Under({})
      BY <3>1
    <3> QED BY <2>1, <3>2
  <2>2. CASE s # {}
    <3> DEFINE t == Taken(s)
               u == s \ {t}
    <3>1. t \in s /\ u \in SUBSET D /\ u \in SUBSET s /\ u # s
      BY <2>2, OneLess
    <3>2. F[s] = f[t] + F[u] /\ G[s] = g[t] + G[u]
      BY <1>1, <1>2, <2>2 DEF SumsUp
    <3> HIDE DEF T
    <3>3. u \in T
      BY <1>4, <3>1
    <3>4. Under(u)
      BY <3>3 DEF T
    <3>5. s = u \cup {t}
      BY <3>1
    <3>6. f[t] \in Int /\ g[t] \in Int /\ f[t] <= g[t]
      BY <3>1
    <3> HIDE DEF t, u
    <3>7. F[s] <= G[s] /\ (F[s] = G[s] => f[t] = g[t] /\ F[u] = G[u])
      BY <1>3, <3>1, <3>2, <3>4, <3>6
    <3>8. F[s] = G[s] => \A x \in s : f[x] = g[x]
      BY <3>4, <3>5, <3>7
    <3>9. Under(s)
      BY <3>7, <3>8
    <3> QED BY <3>9 DEF T
  <2> QED BY <2>1, <2>2
<1>5. D \in T
  <2> HIDE DEF T
  <2>1. \A s \in SUBSET D : (\A u \in SUBSET s : u # s => u \in T) => s \in T
    BY <1>4
  <2>2. D \in SUBSET D
    OBVIOUS
  <2> QED BY <2>1, <2>2, FiniteInduction
<1>6. Under(D)
  BY <1>5
<1> QED BY <1>1, <1>2, <1>3, <1>6

(* A sum may begin with any of its elements.                                *)
SumsFreely(G, D, f) == \A s \in SUBSET D : \A x \in s : G[s] = f[x] + G[s \ {x}]

(* The function that sums up a set may take its elements in any order.      *)
LEMMA AnyFirst ==
  ASSUME NEW D, IsFiniteSet(D), NEW f \in [D -> Int], NEW G, SumsUp(G, D, f)
  PROVE  SumsFreely(G, D, f)
<1> DEFINE Free(s) == \A x \in s : G[s] = f[x] + G[s \ {x}]
           T == {s \in SUBSET D : Free(s)}
<1>1. /\ \A s \in SUBSET D : G[s] \in Int
      /\ \A s \in (SUBSET D) \ {{}} : G[s] = f[Taken(s)] + G[s \ {Taken(s)}]
      /\ \A x \in D : f[x] \in Int
  BY DEF SumsUp
<1>2. ASSUME NEW s \in SUBSET D, \A u \in SUBSET s : u # s => u \in T PROVE s \in T
  <2> SUFFICES ASSUME NEW x \in s PROVE G[s] = f[x] + G[s \ {x}]
    OBVIOUS
  <2> DEFINE t == Taken(s)
  <2>1. t \in s /\ s # {} /\ G[s] = f[t] + G[s \ {t}]
    BY <1>1, OneLess
  <2> HIDE DEF t
  <2>2. CASE x = t
    BY <2>1, <2>2
  <2>3. CASE x # t
    <3> DEFINE u == s \ {t}
               v == s \ {x}
               w == s \ {x, t}
    <3>1. /\ u \in SUBSET s /\ u # s /\ x \in u /\ v \in SUBSET s /\ v # s /\ t \in v
          /\ u \ {x} = w /\ v \ {t} = w
      BY <2>1, <2>3
    <3>2. u \in T /\ v \in T
      <4> HIDE DEF T, u, v
      <4> QED BY <1>2, <3>1
    <3>3. Free(u) /\ Free(v)
      <4> HIDE DEF u, v, Free
      <4> QED BY <3>2
    <3>4. G[u] = f[x] + G[w] /\ G[v] = f[t] + G[w]
      <4> HIDE DEF u, v, w
      <4>1. G[u] = f[x] + G[u \ {x}] /\ G[v] = f[t] + G[v \ {t}]
        BY <3>1, <3>3
      <4> QED BY <3>1, <4>1
    <3>5. f[x] \in Int /\ f[t] \in Int /\ G[w] \in Int
      BY <1>1, <2>1
    <3>6. G[s] = f[t] + G[u]
      BY <2>1
    <3> HIDE DEF u, v, w
    <3>7. G[s] = f[x] + G[v]
      BY <3>4, <3>5, <3>6
    <3> QED BY <3>7 DEF v
  <2> QED BY <2>2, <2>3
<1>3. \A s \in SUBSET D : s \in T
  <2> HIDE DEF T
  <2>1. \A s \in SUBSET D : (\A u \in SUBSET s : u # s => u \in T) => s \in T
    BY <1>2
  <2> QED BY <2>1, FiniteInduction
<1> QED BY <1>3 DEF SumsFreely

(* What the places of a sequence without repetitions sum up to depends only *)
(* on its elements.                                                         *)
LEMMA TotalOfElements ==
  ASSUME NEW o, IsFiniteSet(DOMAIN o), Distinct(o), NEW c \in [Range(o) -> Int], IsFiniteSet(Range(o))
  PROVE  Total([i \in DOMAIN o |-> c[o[i]]]) = Total(c)
<1> DEFINE D == DOMAIN o
           R == Range(o)
           f == [i \in D |-> c[o[i]]]
           Image(s) == {o[i] : i \in s}
<1>1. f \in [D -> Int] /\ \A i \in D : o[i] \in R
  <2>1. \A i \in D : o[i] \in R
    BY DEF Range
  <2> HIDE DEF R
  <2>2. \A i \in D : c[o[i]] \in Int
    BY <2>1 DEF R
  <2> QED BY <2>1, <2>2
<1>2. PICK F : SumsUp(F, D, f) /\ Total(f) = F[D]
  <2> HIDE DEF f
  <2> QED BY <1>1, TotalRun
<1>3. PICK C : SumsUp(C, R, c) /\ Total(c) = C[R]
  BY TotalRun
<1>4. \A s \in SUBSET R : \A x \in s : C[s] = c[x] + C[s \ {x}]
  <2>1. SumsFreely(C, R, c)
    BY <1>3, AnyFirst
  <2> HIDE DEF R
  <2> QED BY <2>1 DEF SumsFreely
<1>5. \A s \in SUBSET D : Image(s) \in SUBSET R
  BY <1>1
<1> DEFINE T == {s \in SUBSET D : F[s] = C[Image(s)]}
<1>6. ASSUME NEW s \in SUBSET D, \A u \in SUBSET s : u # s => u \in T PROVE s \in T
  <2>1. CASE s = {}
    <3>1. F[{}] = 0 /\ C[{}] = 0 /\ Image({}) = {}
      BY <1>2, <1>3 DEF SumsUp
    <3> QED BY <2>1, <3>1
  <2>2. CASE s # {}
    <3> DEFINE t == Taken(s)
               u == s \ {t}
    <3>1. t \in s /\ u \in SUBSET D /\ u \in SUBSET s /\ u # s
      BY <2>2, OneLess
    <3>2. F[s] = f[t] + F[u]
      <4> HIDE DEF f, D
      <4> QED BY <1>2, <2>2 DEF SumsUp
    <3>3. u \in T
      <4> HIDE DEF T
      <4> QED BY <1>6, <3>1
    <3>4. F[u] = C[Image(u)]
      BY <3>3
    <3> HIDE DEF t
    <3>5. o[t] \in Image(s) /\ Image(u) = Image(s) \ {o[t]}
      BY <3>1 DEF Distinct
    <3>6. C[Image(s)] = c[o[t]] + C[Image(s) \ {o[t]}]
      <4> HIDE DEF Image
      <4> QED BY <1>4, <1>5, <3>5
    <3>7. f[t] = c[o[t]]
      BY <3>1
    <3> HIDE DEF f, Image, u
    <3>8. F[s] = C[Image(s)]
      BY <3>2, <3>4, <3>5, <3>6, <3>7
    <3> QED BY <3>8
  <2> QED BY <2>1, <2>2
<1>7. D \in T
  <2> HIDE DEF T
  <2>1. \A s \in SUBSET D : (\A u \in SUBSET s : u # s => u \in T) => s \in T
    BY <1>6
  <2>2. D \in SUBSET D
    OBVIOUS
  <2> QED BY <2>1, <2>2, FiniteInduction
<1>8. Image(D) = R
  BY DEF Range
<1> QED BY <1>2, <1>3, <1>7, <1>8

(* The gear that is missing depends on the deliveries of a route, not on    *)
(* their order.                                                             *)
LEMMA MismatchOfMembers ==
  ASSUME NEW f, IsFleet(f), NEW t \in Trucks(f), NEW o \in OrdersWithin(Jobs(f)), NEW q \in OrdersWithin(Jobs(f)),
         Range(o) = Range(q)
  PROVE  Mismatch(f, t, o) = Mismatch(f, t, q)
<1> DEFINE R == Range(o)
           miss(job) == Cardinality(f.stops[job].needs \ f.trucks[t].gear)
           c == [job \in R |-> miss(job)]
<1>1. /\ IsFiniteSet(DOMAIN o) /\ Distinct(o) /\ IsFiniteSet(DOMAIN q) /\ Distinct(q) /\ IsFiniteSet(R)
      /\ R \subseteq Jobs(f)
  <2>1. Jobs(f) = 1 .. Len(f.stops) /\ Len(f.stops) \in Nat
    BY FleetIs
  <2> QED BY <2>1, OrdersAreDistinct, OrdersWithinAre, CountTo
<1>2. ASSUME NEW job \in R PROVE miss(job) \in Int
  <2> DEFINE s == f.stops[job].needs
  <2>1. IsFiniteSet(s)
    BY <1>1, FleetIs DEF IsCall
  <2> HIDE DEF s
  <2>2. IsFiniteSet(s \ f.trucks[t].gear)
    BY <2>1, FS_Subset
  <2>3. Cardinality(s \ f.trucks[t].gear) \in Nat
    BY <2>2, FS_CardinalityType
  <2> QED BY <2>3 DEF s
<1>3. c \in [R -> Int] /\ \A i \in DOMAIN o : o[i] \in R /\ c[o[i]] = miss(o[i])
  <2> HIDE DEF miss
  <2> QED BY <1>2 DEF Range
<1>4. \A i \in DOMAIN q : q[i] \in R /\ c[q[i]] = miss(q[i])
  <2> HIDE DEF miss
  <2> QED BY <1>2 DEF Range
<1>5. Total([i \in DOMAIN o |-> c[o[i]]]) = Total(c) /\ Total([i \in DOMAIN q |-> c[q[i]]]) = Total(c)
  <2> HIDE DEF c
  <2> QED BY <1>1, <1>3, TotalOfElements
<1>6. [i \in DOMAIN o |-> c[o[i]]] = [i \in DOMAIN o |-> miss(o[i])]
      /\ [i \in DOMAIN q |-> c[q[i]]] = [i \in DOMAIN q |-> miss(q[i])]
  <2> HIDE DEF c, miss
  <2> QED BY <1>3, <1>4
<1>7. Total([i \in DOMAIN o |-> miss(o[i])]) = Total([i \in DOMAIN q |-> miss(q[i])])
  <2> HIDE DEF c, miss
  <2> QED BY <1>5, <1>6
<1> QED BY <1>7 DEF Mismatch

-----------------------------------------------------------------------------
(* A plan of best orders is no worse.                                       *)

(* Vehicles that share their evaluations carry the same, so what a book     *)
(* says of an order is the evaluation of that very vehicle.                 *)
LEMMA ScoreIsOwn ==
  ASSUME NEW f, IsFleet(f), NEW t \in Trucks(f), NEW o \in OrdersWithin(Jobs(f)), o # <<>>
  PROVE  /\ ScoresOf(f)[t][o] = ScoreOf(f, t, o)
         /\ ScoresOf(f)[t][o] # NoScore => ScoresOf(f)[t][o] \in ScoreSet /\ ScoresOf(f)[t][o].work \in Nat
<1> DEFINE u == Alias(f, t)
<1>4. Problem(f, u) = Problem(f, t) /\ f.trucks[u].capacity = f.trucks[t].capacity
  BY AliasIsAlike
<1>5. ScoresOf(f)[t][o] = ScoreOf(f, u, o)
  BY DEF ScoresOf
<1> HIDE DEF u
<1>6. ScoreOf(f, u, o) = ScoreOf(f, t, o)
  BY <1>4 DEF ScoreOf, MembershipCompatible
<1>7. ASSUME ScoresOf(f)[t][o] # NoScore PROVE ScoresOf(f)[t][o] \in ScoreSet /\ ScoresOf(f)[t][o].work \in Nat
  <2> DEFINE p == Problem(f, t)
  <2>1. ScoresOf(f)[t][o] \in ScoreSet
    BY <1>7, ScoresTyped DEF Answers
  <2>2. IsProblem(p) /\ p.stops = f.stops /\ AreBreaks(p.breaks)
    BY ProblemTyped, ProblemIsTimed
  <2>3. o \in Seq(1 .. Len(f.stops))
    BY OrdersTyped
  <2>4. ScoresOf(f)[t][o] = Evaluate(p, o)
    BY <1>5, <1>6, <1>7 DEF ScoreOf
  <2> HIDE DEF p
  <2>5. Evaluate(p, o).work \in Nat
    BY <1>7, <2>2, <2>3, <2>4, WorkIsCounted
  <2> QED BY <2>1, <2>4, <2>5
<1> QED BY <1>5, <1>6, <1>7

RouteWidth(objective) == IF objective = "efficient" THEN 3 ELSE 2

(* Two orders compare by numbers.                                           *)
LEMMA RouteKeyTyped ==
  ASSUME NEW objective \in {"balanced", "distance", "efficient"}, NEW score \in ScoreSet
  PROVE  RouteKey(objective, score) \in KeysOf(RouteWidth(objective))
<1>1. score.km \in Int /\ score.minutes \in Int /\ score.cost \in Int /\ score.work \in Int
  BY DEF ScoreSet
<1>2. <<score.work, score.km>> \in KeysOf(2) /\ <<score.km, score.minutes>> \in KeysOf(2)
  BY <1>1 DEF KeysOf
<1>3. <<score.cost, score.km, score.minutes>> \in KeysOf(3)
  BY <1>1 DEF KeysOf
<1> QED BY <1>2, <1>3 DEF RouteKey, RouteWidth

(* An order that none comes before is nowhere behind where it is not ahead. *)
Follows(objective, a, b) ==
  CASE objective = "balanced" -> b.work <= a.work /\ (b.work = a.work => b.km <= a.km)
    [] objective = "distance" -> b.km <= a.km /\ (b.km = a.km => b.minutes <= a.minutes)
    [] objective = "efficient" ->
         /\ b.cost <= a.cost
         /\ b.cost = a.cost => b.km <= a.km /\ (b.km = a.km => b.minutes <= a.minutes)

(* What the keys of two orders say, figure by figure.                       *)
LEMMA FollowsIs ==
  ASSUME NEW objective \in {"balanced", "distance", "efficient"}, NEW a \in ScoreSet, NEW b \in ScoreSet,
         ~Before(RouteKey(objective, a), RouteKey(objective, b))
  PROVE  Follows(objective, a, b)
<1>1. /\ a.km \in Int /\ a.minutes \in Int /\ a.cost \in Int /\ a.work \in Int
      /\ b.km \in Int /\ b.minutes \in Int /\ b.cost \in Int /\ b.work \in Int
  BY DEF ScoreSet
<1>2. ASSUME NEW w \in Int, NEW x \in Int, NEW y \in Int, NEW z \in Int, ~Before(<<w, x>>, <<y, z>>)
      PROVE  y <= w /\ (y = w => z <= x)
  <2>1. ~(w < y)
    BY <1>2 DEF Before
  <2>2. ~(w = y /\ x < z)
    <3> SUFFICES ASSUME w = y, x < z PROVE Before(<<w, x>>, <<y, z>>)
      BY <1>2
    <3>1. \A j \in 1 .. 2 - 1 : <<w, x>>[j] = <<y, z>>[j]
      OBVIOUS
    <3>2. 2 \in 1 .. Len(<<w, x>>) /\ <<w, x>>[2] < <<y, z>>[2]
      OBVIOUS
    <3> QED BY <3>1, <3>2 DEF Before
  <2> QED BY <2>1, <2>2
<1>3. ASSUME NEW w \in Int, NEW x \in Int, NEW v \in Int, NEW y \in Int, NEW z \in Int, NEW u \in Int,
             ~Before(<<w, x, v>>, <<y, z, u>>)
      PROVE  y <= w /\ (y = w => z <= x /\ (z = x => u <= v))
  <2>1. ~(w < y)
    BY <1>3 DEF Before
  <2>2. ~(w = y /\ x < z)
    <3> SUFFICES ASSUME w = y, x < z PROVE Before(<<w, x, v>>, <<y, z, u>>)
      BY <1>3
    <3>1. \A j \in 1 .. 2 - 1 : <<w, x, v>>[j] = <<y, z, u>>[j]
      OBVIOUS
    <3>2. 2 \in 1 .. Len(<<w, x, v>>) /\ <<w, x, v>>[2] < <<y, z, u>>[2]
      OBVIOUS
    <3> QED BY <3>1, <3>2 DEF Before
  <2>3. ~(w = y /\ x = z /\ v < u)
    <3> SUFFICES ASSUME w = y, x = z, v < u PROVE Before(<<w, x, v>>, <<y, z, u>>)
      BY <1>3
    <3>1. \A j \in 1 .. 3 - 1 : <<w, x, v>>[j] = <<y, z, u>>[j]
      OBVIOUS
    <3>2. 3 \in 1 .. Len(<<w, x, v>>) /\ <<w, x, v>>[3] < <<y, z, u>>[3]
      OBVIOUS
    <3> QED BY <3>1, <3>2 DEF Before
  <2> QED BY <2>1, <2>2, <2>3
<1>4. CASE objective = "balanced"
  BY <1>1, <1>2, <1>4 DEF RouteKey, Follows
<1>5. CASE objective = "distance"
  BY <1>1, <1>2, <1>5 DEF RouteKey, Follows
<1>6. CASE objective = "efficient"
  BY <1>1, <1>3, <1>6 DEF RouteKey, Follows
<1> QED BY <1>4, <1>5, <1>6

(* A key is a tuple of numbers.                                             *)
LEMMA KeyNumbers ==
  ASSUME NEW n \in Nat, NEW k \in KeysOf(n)
  PROVE  Len(k) = n /\ \A i \in 1 .. n : k[i] \in Int
<1>1. k \in Seq(Int) /\ Len(k) = n
  BY DEF KeysOf
<1> QED BY <1>1

(* What the numbers of two plans say of their order, objective by objective.*)
LEMMA FiveFollow ==
  ASSUME NEW k \in KeysOf(5), NEW l \in KeysOf(5), l[1] = k[1], l[2] = k[2], l[3] <= k[3], l[3] = k[3] => l[4] <= k[4],
         l[3] = k[3] /\ l[4] = k[4] => l[5] <= k[5]
  PROVE  ~Before(k, l)
<1>1. Len(k) = 5 /\ \A i \in 1 .. 5 : k[i] \in Int /\ l[i] \in Int
  BY KeyNumbers
<1>2. ASSUME NEW i \in 1 .. 5, k[i] < l[i], \A j \in 1 .. i - 1 : k[j] = l[j] PROVE FALSE
  <2>1. i = 1 \/ i = 2 \/ i = 3 \/ i = 4 \/ i = 5
    OBVIOUS
  <2>2. (i > 3 => k[3] = l[3]) /\ (i > 4 => k[4] = l[4])
    BY <1>2
  <2> QED BY <1>1, <1>2, <2>1, <2>2
<1> QED BY <1>1, <1>2 DEF Before

(* The same with the cost of the work.                                      *)
LEMMA SixFollow ==
  ASSUME NEW k \in KeysOf(6), NEW l \in KeysOf(6), l[1] = k[1], l[2] = k[2], l[3] <= k[3], l[3] = k[3] => l[4] <= k[4],
         l[3] = k[3] /\ l[4] = k[4] => l[5] <= k[5],
         l[3] = k[3] /\ l[4] = k[4] /\ l[5] = k[5] => l[6] <= k[6]
  PROVE  ~Before(k, l)
<1>1. Len(k) = 6 /\ \A i \in 1 .. 6 : k[i] \in Int /\ l[i] \in Int
  BY KeyNumbers
<1>2. ASSUME NEW i \in 1 .. 6, k[i] < l[i], \A j \in 1 .. i - 1 : k[j] = l[j] PROVE FALSE
  <2>1. i = 1 \/ i = 2 \/ i = 3 \/ i = 4 \/ i = 5 \/ i = 6
    OBVIOUS
  <2>2. (i > 3 => k[3] = l[3]) /\ (i > 4 => k[4] = l[4]) /\ (i > 5 => k[5] = l[5])
    BY <1>2
  <2> QED BY <1>1, <1>2, <2>1, <2>2
<1> QED BY <1>1, <1>2 DEF Before

(* The same with balanced work.                                             *)
LEMMA SevenFollow ==
  ASSUME NEW k \in KeysOf(7), NEW l \in KeysOf(7), l[1] = k[1], l[2] = k[2], l[3] <= k[3], l[3] = k[3] => l[4] <= k[4],
         l[3] = k[3] /\ l[4] = k[4] => l[5] <= k[5],
         l[3] = k[3] /\ l[4] = k[4] /\ l[5] = k[5] => l[6] <= k[6],
         l[3] = k[3] /\ l[4] = k[4] /\ l[5] = k[5] /\ l[6] = k[6] => l[7] <= k[7]
  PROVE  ~Before(k, l)
<1>1. Len(k) = 7 /\ \A i \in 1 .. 7 : k[i] \in Int /\ l[i] \in Int
  BY KeyNumbers
<1>2. ASSUME NEW i \in 1 .. 7, k[i] < l[i], \A j \in 1 .. i - 1 : k[j] = l[j] PROVE FALSE
  <2>1. i = 1 \/ i = 2 \/ i = 3 \/ i = 4 \/ i = 5 \/ i = 6 \/ i = 7
    OBVIOUS
  <2>2. (i > 3 => k[3] = l[3]) /\ (i > 4 => k[4] = l[4]) /\ (i > 5 => k[5] = l[5]) /\ (i > 6 => k[6] = l[6])
    BY <1>2
  <2> QED BY <1>1, <1>2, <2>1, <2>2
<1> QED BY <1>1, <1>2 DEF Before

(* A figure that is nowhere greater sums up to no more.                     *)
LEMMA SumsBelow ==
  ASSUME NEW f, IsFleet(f), NEW p \in Book(f).plans, NEW r \in Book(f).plans, f.trucks # <<>>,
         NEW field \in {"km", "minutes", "cost", "work"},
         \A t \in Trucks(f) : Replay(ScoresOf(f), t, r[t])[field] <= Replay(ScoresOf(f), t, p[t])[field]
  PROVE  /\ Sums(f, r, field) <= Sums(f, p, field)
         /\ Sums(f, r, field) = Sums(f, p, field) =>
              \A t \in Trucks(f) : Replay(ScoresOf(f), t, r[t])[field] = Replay(ScoresOf(f), t, p[t])[field]
<1> DEFINE D == Trucks(f)
           v == [t \in D |-> Replay(ScoresOf(f), t, r[t])[field]]
           w == [t \in D |-> Replay(ScoresOf(f), t, p[t])[field]]
<1>1. \A q \in Book(f).plans : q \in Plans(f) /\ ValidPlan(ScoresOf(f), q)
  BY BookHolds
<1>2. ASSUME NEW q \in Book(f).plans, NEW t \in D PROVE Replay(ScoresOf(f), t, q[t])[field] \in Int
  <2>1. Replay(ScoresOf(f), t, q[t]) \in ScoreSet
    BY <1>1, ReplayTyped
  <2> QED BY <2>1 DEF ScoreSet
<1>3. v \in [D -> Int] /\ w \in [D -> Int]
  BY <1>2
<1>4. IsFiniteSet(D)
  BY FleetIs, CountTo
<1>5. \A t \in D : v[t] <= w[t]
  OBVIOUS
<1>6. \A t \in D : v[t] = Replay(ScoresOf(f), t, r[t])[field] /\ w[t] = Replay(ScoresOf(f), t, p[t])[field]
  OBVIOUS
<1>7. Sums(f, r, field) = Total(v) /\ Sums(f, p, field) = Total(w)
  BY DEF Sums
<1> HIDE DEF v, w, D
<1>8. Total(v) <= Total(w) /\ (Total(v) = Total(w) => \A t \in D : v[t] = w[t])
  BY <1>3, <1>4, <1>5, TotalBelow
<1> QED BY <1>6, <1>7, <1>8 DEF D

(* The same deliveries on the same vehicles, in orders that none of the     *)
(* former comes before.                                                     *)
Improves(f, objective, p, r) ==
  \A t \in Trucks(f) :
    /\ Range(r[t]) = Range(p[t]) /\ (r[t] = <<>> <=> p[t] = <<>>)
    /\ Follows(objective, Replay(ScoresOf(f), t, p[t]), Replay(ScoresOf(f), t, r[t]))

(* The deliveries, the gear and the vehicles in use stay the same.          *)
LEMMA SameMembers ==
  ASSUME NEW f, IsFleet(f), NEW p \in Plans(f), NEW r \in Plans(f), NEW objective, Improves(f, objective, p, r)
  PROVE  Served(r) = Served(p) /\ Misses(f, r) = Misses(f, p) /\ Active(f, r) = Active(f, p)
<1>1. /\ DOMAIN p = Trucks(f) /\ DOMAIN r = Trucks(f)
      /\ \A t \in Trucks(f) : p[t] \in OrdersWithin(Jobs(f)) /\ r[t] \in OrdersWithin(Jobs(f))
  BY DEF Plans
<1>2. \A t \in Trucks(f) : Range(r[t]) = Range(p[t]) /\ (r[t] = <<>> <=> p[t] = <<>>)
  BY DEF Improves
<1>3. \A t \in Trucks(f) : Len(r[t]) = Len(p[t])
  <2>1. Jobs(f) = 1 .. Len(f.stops) /\ Len(f.stops) \in Nat
    BY FleetIs
  <2>2. \A o \in OrdersWithin(Jobs(f)) : Cardinality(Range(o)) = Len(o)
    BY <2>1, OrdersAreDistinct
  <2> QED BY <1>1, <1>2, <2>2
<1>4. [t \in DOMAIN r |-> Len(r[t])] = [t \in DOMAIN p |-> Len(p[t])]
  BY <1>1, <1>3
<1>5. \A t \in Trucks(f) : Mismatch(f, t, r[t]) = Mismatch(f, t, p[t])
  BY <1>1, <1>2, MismatchOfMembers
<1>6. [t \in Trucks(f) |-> Mismatch(f, t, r[t])] = [t \in Trucks(f) |-> Mismatch(f, t, p[t])]
  BY <1>5
<1>7. {t \in Trucks(f) : r[t] # <<>>} = {t \in Trucks(f) : p[t] # <<>>}
  BY <1>2
<1> QED BY <1>4, <1>6, <1>7 DEF Served, Misses, Active

(* Who works no longer has no greater square.                               *)
LEMMA SquaresBelow ==
  ASSUME NEW a \in Nat, NEW b \in Nat, a <= b
  PROVE  a * a \in Int /\ b * b \in Int /\ a * a <= b * b /\ (a * a = b * b => a = b)
<1>1. a * a <= a * b /\ a * b <= b * b /\ a * a \in Int /\ a * b \in Int /\ b * b \in Int
  OBVIOUS
<1>2. ASSUME a # b PROVE a * a < b * b
  <2>1. a + 1 <= b
    BY <1>2
  <2>2. (a + 1) * b <= b * b
    BY <2>1
  <2>3. (a + 1) * b = a * b + b
    OBVIOUS
  <2>4. b > 0
    BY <2>1
  <2> QED BY <1>1, <2>2, <2>3, <2>4
<1> QED BY <1>1, <1>2

(* Under balanced work: the longest day, then the squares, the sum and the  *)
(* kilometres.                                                              *)
LEMMA WorkFollows ==
  ASSUME NEW f, IsFleet(f), f.trucks # <<>>, NEW p \in Book(f).plans, NEW r \in Book(f).plans,
         Improves(f, "balanced", p, r)
  PROVE  /\ Greatest(Range(Works(f, r))) <= Greatest(Range(Works(f, p)))
         /\ Squares(f, r) <= Squares(f, p) /\ Total(Works(f, r)) <= Total(Works(f, p))
         /\ Squares(f, r) = Squares(f, p) => Sums(f, r, "km") <= Sums(f, p, "km")
<1> DEFINE D == Trucks(f)
           v == Works(f, r)
           w == Works(f, p)
<1>1. \A q \in Book(f).plans : q \in Plans(f) /\ ValidPlan(ScoresOf(f), q)
  BY BookHolds
<1>2. ASSUME NEW q \in Book(f).plans, NEW t \in D PROVE Replay(ScoresOf(f), t, q[t]).work \in Nat
  <2>1. CASE q[t] = <<>>
    BY <2>1 DEF Replay
  <2>2. CASE q[t] # <<>>
    <3>1. q[t] \in OrdersWithin(Jobs(f)) /\ DOMAIN q = Trucks(f)
      BY <1>1 DEF Plans
    <3>2. ScoresOf(f)[t][q[t]] # NoScore
      BY <1>1, <2>2, <3>1 DEF ValidPlan
    <3> QED BY <2>2, <3>1, <3>2, ScoreIsOwn DEF Replay
  <2> QED BY <2>1, <2>2
<1>3. /\ v \in [D -> Nat] /\ w \in [D -> Nat]
      /\ \A t \in D : v[t] = Replay(ScoresOf(f), t, r[t]).work /\ w[t] = Replay(ScoresOf(f), t, p[t]).work
  BY <1>2 DEF Works
<1>4. \A t \in D : /\ Replay(ScoresOf(f), t, r[t]).work <= Replay(ScoresOf(f), t, p[t]).work
                   /\ Replay(ScoresOf(f), t, r[t]).work = Replay(ScoresOf(f), t, p[t]).work =>
                        Replay(ScoresOf(f), t, r[t]).km <= Replay(ScoresOf(f), t, p[t]).km
  BY DEF Improves, Follows
<1>5. IsFiniteSet(D)
  BY FleetIs, CountTo
<1>6. Total(v) <= Total(w)
  <2>1. v \in [D -> Int] /\ w \in [D -> Int] /\ \A t \in D : v[t] <= w[t]
    BY <1>3, <1>4
  <2> HIDE DEF v, w, D
  <2> QED BY <1>5, <2>1, TotalBelow
<1>7. Greatest(Range(v)) <= Greatest(Range(w))
  <2>1. Range(v) # {} /\ IsFiniteSet(Range(v)) /\ Range(w) # {} /\ IsFiniteSet(Range(w))
    BY <1>1, NumbersTyped
  <2>2. Range(v) \subseteq Int /\ Range(w) \subseteq Int
    BY <1>3 DEF Range
  <2> HIDE DEF v, w
  <2>3. Greatest(Range(v)) \in Range(v) /\ Greatest(Range(w)) \in Range(w) /\ \A y \in Range(w) : y <= Greatest(Range(w))
    BY <2>1, <2>2, GreatestIs
  <2>4. PICK t \in D : Greatest(Range(v)) = v[t]
    BY <1>3, <2>3 DEF Range
  <2>5. w[t] \in Range(w) /\ v[t] <= w[t]
    BY <1>3, <1>4 DEF Range
  <2>6. w[t] <= Greatest(Range(w)) /\ v[t] \in Int /\ w[t] \in Int /\ Greatest(Range(w)) \in Int
    BY <1>3, <2>2, <2>3, <2>5
  <2> QED BY <2>4, <2>5, <2>6
<1> DEFINE vv == [t \in D |-> v[t] * v[t]]
           ww == [t \in D |-> w[t] * w[t]]
<1>8. Squares(f, r) = Total(vv) /\ Squares(f, p) = Total(ww)
  BY DEF Squares
<1>9. \A t \in D : v[t] \in Nat /\ w[t] \in Nat /\ v[t] <= w[t]
  BY <1>3, <1>4
<1>10. \A t \in D : /\ v[t] * v[t] \in Int /\ w[t] * w[t] \in Int /\ v[t] * v[t] <= w[t] * w[t]
                    /\ v[t] * v[t] = w[t] * w[t] => v[t] = w[t]
  <2> HIDE DEF v, w, D
  <2> QED BY <1>9, SquaresBelow
<1>11. vv \in [D -> Int] /\ ww \in [D -> Int] /\ \A t \in D : vv[t] <= ww[t] /\ (vv[t] = ww[t] => v[t] = w[t])
  <2> HIDE DEF v, w, D
  <2> QED BY <1>10
<1>12. Total(vv) <= Total(ww) /\ (Total(vv) = Total(ww) => \A t \in D : vv[t] = ww[t])
  <2> HIDE DEF vv, ww, D
  <2> QED BY <1>5, <1>11, TotalBelow
<1>13. ASSUME Squares(f, r) = Squares(f, p) PROVE Sums(f, r, "km") <= Sums(f, p, "km")
  <2>1. \A t \in D : v[t] = w[t]
    <3> HIDE DEF vv, ww, D, v, w
    <3> QED BY <1>8, <1>11, <1>12, <1>13
  <2>2. \A t \in Trucks(f) : Replay(ScoresOf(f), t, r[t])["km"] <= Replay(ScoresOf(f), t, p[t])["km"]
    <3> HIDE DEF v, w
    <3> QED BY <1>3, <1>4, <2>1
  <2> QED BY <2>2, SumsBelow
<1>14. Squares(f, r) <= Squares(f, p)
  <2> HIDE DEF vv, ww
  <2> QED BY <1>8, <1>12
<1> QED BY <1>6, <1>7, <1>13, <1>14

(* A plan whose every order is the best of its deliveries is no worse.      *)
LEMMA ImprovedIsNoWorse ==
  ASSUME NEW f, IsFleet(f), f.trucks # <<>>, NEW p \in Book(f).plans, NEW r \in Book(f).plans,
         NEW objective \in {"balanced", "distance", "efficient"}, Improves(f, objective, p, r)
  PROVE  ~Before(PlanKey(objective, f, ScoresOf(f), p), PlanKey(objective, f, ScoresOf(f), r))
<1>1. \A q \in Book(f).plans : q \in Plans(f) /\ ValidPlan(ScoresOf(f), q)
  BY BookHolds
<1>2. Served(r) = Served(p) /\ Misses(f, r) = Misses(f, p) /\ Active(f, r) = Active(f, p)
  BY <1>1, SameMembers
<1> DEFINE k == PlanKey(objective, f, ScoresOf(f), p)
           l == PlanKey(objective, f, ScoresOf(f), r)
<1>4. k \in KeysOf(Width(objective)) /\ l \in KeysOf(Width(objective))
  BY <1>1, PlanKeyTyped DEF Objectives
<1>5. CASE objective = "balanced"
  <2>1. /\ Greatest(Range(Works(f, r))) <= Greatest(Range(Works(f, p)))
        /\ Squares(f, r) <= Squares(f, p) /\ Total(Works(f, r)) <= Total(Works(f, p))
        /\ Squares(f, r) = Squares(f, p) => Sums(f, r, "km") <= Sums(f, p, "km")
    BY <1>5, WorkFollows
  <2>2. k = <<-Served(p), Misses(f, p), -Active(f, p), Greatest(Range(Works(f, p))), Squares(f, p),
              Total(Works(f, p)), Sums(f, p, "km")>>
    BY <1>1, <1>5, PlanKeyIs
  <2>3. l = <<-Served(r), Misses(f, r), -Active(f, r), Greatest(Range(Works(f, r))), Squares(f, r),
              Total(Works(f, r)), Sums(f, r, "km")>>
    BY <1>1, <1>5, PlanKeyIs
  <2>4. k \in KeysOf(7) /\ l \in KeysOf(7)
    BY <1>4, <1>5 DEF Width
  <2> HIDE DEF k, l
  <2>5. l[1] = k[1] /\ l[2] = k[2] /\ l[3] = k[3]
    BY <1>2, <2>2, <2>3
  <2>6. l[4] <= k[4] /\ l[5] <= k[5] /\ l[6] <= k[6] /\ (l[5] = k[5] => l[7] <= k[7])
    BY <2>1, <2>2, <2>3
  <2>7. l[3] <= k[3]
    BY <2>4, <2>5, KeyNumbers
  <2>8. ~Before(k, l)
    BY <2>4, <2>5, <2>6, <2>7, SevenFollow
  <2> QED BY <2>8 DEF k, l
<1>6. CASE objective = "distance"
  <2>1. \A t \in Trucks(f) :
          /\ Replay(ScoresOf(f), t, r[t])["km"] <= Replay(ScoresOf(f), t, p[t])["km"]
          /\ Replay(ScoresOf(f), t, r[t])["km"] = Replay(ScoresOf(f), t, p[t])["km"] =>
               Replay(ScoresOf(f), t, r[t])["minutes"] <= Replay(ScoresOf(f), t, p[t])["minutes"]
    BY <1>6 DEF Improves, Follows
  <2>2. /\ Sums(f, r, "km") <= Sums(f, p, "km")
        /\ Sums(f, r, "km") = Sums(f, p, "km") =>
             \A t \in Trucks(f) : Replay(ScoresOf(f), t, r[t])["km"] = Replay(ScoresOf(f), t, p[t])["km"]
    BY <2>1, SumsBelow
  <2>3. Sums(f, r, "km") = Sums(f, p, "km") => Sums(f, r, "minutes") <= Sums(f, p, "minutes")
    BY <2>1, <2>2, SumsBelow
  <2>4. k = <<-Served(p), Misses(f, p), Sums(f, p, "km"), Sums(f, p, "minutes"), Active(f, p)>>
    BY <1>1, <1>6, PlanKeyIs
  <2>5. l = <<-Served(r), Misses(f, r), Sums(f, r, "km"), Sums(f, r, "minutes"), Active(f, r)>>
    BY <1>1, <1>6, PlanKeyIs
  <2>6. k \in KeysOf(5) /\ l \in KeysOf(5)
    BY <1>4, <1>6 DEF Width
  <2> HIDE DEF k, l
  <2>7. l[1] = k[1] /\ l[2] = k[2] /\ l[5] = k[5]
    BY <1>2, <2>4, <2>5
  <2>8. l[3] <= k[3] /\ (l[3] = k[3] => l[4] <= k[4])
    BY <2>2, <2>3, <2>4, <2>5
  <2>9. l[5] <= k[5]
    BY <2>6, <2>7, KeyNumbers
  <2>10. ~Before(k, l)
    BY <2>6, <2>7, <2>8, <2>9, FiveFollow
  <2> QED BY <2>10 DEF k, l
<1>7. CASE objective = "efficient"
  <2>1. \A t \in Trucks(f) :
          /\ Replay(ScoresOf(f), t, r[t])["cost"] <= Replay(ScoresOf(f), t, p[t])["cost"]
          /\ Replay(ScoresOf(f), t, r[t])["cost"] = Replay(ScoresOf(f), t, p[t])["cost"] =>
               /\ Replay(ScoresOf(f), t, r[t])["km"] <= Replay(ScoresOf(f), t, p[t])["km"]
               /\ Replay(ScoresOf(f), t, r[t])["km"] = Replay(ScoresOf(f), t, p[t])["km"] =>
                    Replay(ScoresOf(f), t, r[t])["minutes"] <= Replay(ScoresOf(f), t, p[t])["minutes"]
    BY <1>7 DEF Improves, Follows
  <2>2. /\ Sums(f, r, "cost") <= Sums(f, p, "cost")
        /\ Sums(f, r, "cost") = Sums(f, p, "cost") =>
             \A t \in Trucks(f) : Replay(ScoresOf(f), t, r[t])["cost"] = Replay(ScoresOf(f), t, p[t])["cost"]
    BY <2>1, SumsBelow
  <2>3. Sums(f, r, "cost") = Sums(f, p, "cost") =>
          /\ Sums(f, r, "km") <= Sums(f, p, "km")
          /\ Sums(f, r, "km") = Sums(f, p, "km") =>
               \A t \in Trucks(f) : Replay(ScoresOf(f), t, r[t])["km"] = Replay(ScoresOf(f), t, p[t])["km"]
    BY <2>1, <2>2, SumsBelow
  <2>4. Sums(f, r, "cost") = Sums(f, p, "cost") /\ Sums(f, r, "km") = Sums(f, p, "km") =>
          Sums(f, r, "minutes") <= Sums(f, p, "minutes")
    BY <2>1, <2>2, <2>3, SumsBelow
  <2>5. k = <<-Served(p), Misses(f, p), Sums(f, p, "cost"), Sums(f, p, "km"), Sums(f, p, "minutes"), Active(f, p)>>
    BY <1>1, <1>7, PlanKeyIs
  <2>6. l = <<-Served(r), Misses(f, r), Sums(f, r, "cost"), Sums(f, r, "km"), Sums(f, r, "minutes"), Active(f, r)>>
    BY <1>1, <1>7, PlanKeyIs
  <2>7. k \in KeysOf(6) /\ l \in KeysOf(6)
    BY <1>4, <1>7 DEF Width
  <2> HIDE DEF k, l
  <2>8. l[1] = k[1] /\ l[2] = k[2] /\ l[6] = k[6]
    BY <1>2, <2>5, <2>6
  <2>9. l[3] <= k[3] /\ (l[3] = k[3] => l[4] <= k[4]) /\ (l[3] = k[3] /\ l[4] = k[4] => l[5] <= k[5])
    BY <2>2, <2>3, <2>4, <2>5, <2>6
  <2>10. l[6] <= k[6]
    BY <2>7, <2>8, KeyNumbers
  <2>11. ~Before(k, l)
    BY <2>7, <2>8, <2>9, <2>10, SixFollow
  <2> QED BY <2>11 DEF k, l
<1> QED BY <1>5, <1>6, <1>7

-----------------------------------------------------------------------------
(* The exhaustive search, and the theorem.                                  *)

(* The exhaustive search, piece by piece: the orders of a group on a        *)
(* vehicle, the best of them, and the plans they make.                      *)
FitOrders(t, members) == {o \in OrdersOf(members) : Workable(t, o)}

Winners(t, members) ==
  {o \in FitOrders(t, members) : \A q \in FitOrders(t, members) : o = <<>> \/ q = <<>> \/
     ~Before(RouteKey(strategy, here.scores[t][q]), RouteKey(strategy, here.scores[t][o]))}

OptionsOf(t) == UNION {Winners(t, members) : members \in SUBSET Jobs(here.fleet)}

Partitions ==
  {r \in [Trucks(here.fleet) -> UNION {OptionsOf(t) : t \in Trucks(here.fleet)}] :
     ValidPlan(here.scores, r) /\ \A t \in Trucks(here.fleet) : r[t] \in OptionsOf(t)}

(* What the exhaustive search considers.                                    *)
LEMMA ExactlyIs ==
  ASSUME SearchExactly
  PROVE  /\ Exact /\ phase' = "found" /\ Consider(BestPlan(here, strategy, Partitions))
         /\ UNCHANGED <<fleet, here, strategy, floor, work, astray>>
<1> DEFINE Winner(t, members) ==
             LET fit == {o \in OrdersOf(members) : Workable(t, o)}
             IN {o \in fit : \A q \in fit : o = <<>> \/ q = <<>> \/
                   ~Before(RouteKey(strategy, here.scores[t][q]), RouteKey(strategy, here.scores[t][o]))}
           options == [t \in Trucks(here.fleet) |-> UNION {Winner(t, members) : members \in SUBSET Jobs(here.fleet)}]
           partitions == {r \in [Trucks(here.fleet) -> UNION {options[t] : t \in Trucks(here.fleet)}] :
                            ValidPlan(here.scores, r) /\ \A t \in Trucks(here.fleet) : r[t] \in options[t]}
<1>1. /\ Exact /\ phase' = "found" /\ Consider(BestPlan(here, strategy, partitions))
      /\ UNCHANGED <<fleet, here, strategy, floor, work, astray>>
  BY DEF SearchExactly, Ask
<1>2. \A t, members : Winner(t, members) = Winners(t, members)
  BY DEF Winners, FitOrders
<1> HIDE DEF Winner
<1>3. \A t \in Trucks(here.fleet) : options[t] = OptionsOf(t)
  BY <1>2 DEF OptionsOf
<1> HIDE DEF options
<1>4. {options[t] : t \in Trucks(here.fleet)} = {OptionsOf(t) : t \in Trucks(here.fleet)}
  BY <1>3
<1>5. partitions = Partitions
  BY <1>3, <1>4 DEF Partitions
<1> HIDE DEF partitions
<1> QED BY <1>1, <1>5

(* Of every group on its vehicle there is a best order.                     *)
LEMMA WinnerIs ==
  ASSUME Asking, NEW p \in here.plans, NEW t \in Trucks(here.fleet)
  PROVE  \E o \in Winners(t, Range(p[t])) :
           /\ o \in OrdersWithin(Jobs(here.fleet)) /\ Range(o) = Range(p[t]) /\ (o = <<>> <=> p[t] = <<>>)
           /\ o # <<>> => here.scores[t][o] # NoScore
           /\ Follows(strategy, Replay(here.scores, t, p[t]), Replay(here.scores, t, o))
<1> DEFINE f == here.fleet
           a == p[t]
           fit == FitOrders(t, Range(a))
<1>1. /\ IsFleet(f) /\ f.trucks # <<>> /\ here = Book(f) /\ here.scores = ScoresOf(f)
      /\ p \in Plans(f) /\ ValidPlan(here.scores, p) /\ strategy \in {"balanced", "distance", "efficient"}
  BY AskedIs, FleetsAssumption DEF Asking
<1>2. a \in OrdersWithin(Jobs(f)) /\ DOMAIN p = Trucks(f)
  BY <1>1 DEF Plans
<1>3. a # <<>> => here.scores[t][a] # NoScore
  BY <1>1, <1>2 DEF ValidPlan
<1>4. /\ IsFiniteSet(OrdersOf(Range(a))) /\ a \in OrdersOf(Range(a))
      /\ OrdersOf(Range(a)) \subseteq OrdersWithin(Jobs(f))
      /\ a # <<>> => <<>> \notin OrdersOf(Range(a))
  BY <1>1, <1>2, OrdersTyped
<1>5. a \in fit /\ fit \subseteq OrdersOf(Range(a)) /\ IsFiniteSet(fit)
  <2>1. fit \subseteq OrdersOf(Range(a))
    BY DEF FitOrders
  <2>2. a \in fit
    BY <1>3, <1>4 DEF FitOrders, Workable
  <2> HIDE DEF fit, a
  <2> QED BY <1>4, <2>1, <2>2, FS_Subset
<1>6. \A o \in OrdersOf(Range(a)) : Range(o) = Range(a)
  BY DEF OrdersOf
<1>7. CASE a = <<>>
  <2>1. a \in Winners(t, Range(a))
    BY <1>5, <1>7 DEF Winners
  <2>2. Replay(here.scores, t, a) = [km |-> 0, minutes |-> 0, cost |-> 0, work |-> 0]
    BY <1>7 DEF Replay
  <2>3. Follows(strategy, Replay(here.scores, t, a), Replay(here.scores, t, a))
    <3> DEFINE z == Replay(here.scores, t, a)
    <3>1. z \in ScoreSet
      BY <2>2 DEF ScoreSet
    <3>2. RouteKey(strategy, z) \in KeysOf(RouteWidth(strategy)) /\ RouteWidth(strategy) \in Nat
      BY <1>1, <3>1, RouteKeyTyped DEF RouteWidth
    <3> HIDE DEF z
    <3>3. Follows(strategy, z, z)
      BY <1>1, <3>1, <3>2, BeforeIrreflexive, FollowsIs
    <3> QED BY <3>3 DEF z
  <2> QED BY <1>2, <1>7, <2>1, <2>3
<1>8. CASE a # <<>>
  <2> DEFINE key == [o \in fit |-> RouteKey(strategy, here.scores[t][o])]
             w == RouteWidth(strategy)
  <2>1. ASSUME NEW o \in fit PROVE o # <<>> /\ o \in OrdersWithin(Jobs(f)) /\ here.scores[t][o] \in ScoreSet
    <3>1. o # <<>> /\ o \in OrdersWithin(Jobs(f))
      BY <1>4, <1>5, <1>8
    <3>2. Workable(t, o)
      BY DEF FitOrders
    <3>3. here.scores[t][o] # NoScore
      BY <3>1, <3>2 DEF Workable
    <3> QED BY <1>1, <3>1, <3>3, ScoreIsOwn
  <2>2. key \in [fit -> KeysOf(w)]
    <3> HIDE DEF fit, w
    <3>1. \A o \in fit : RouteKey(strategy, here.scores[t][o]) \in KeysOf(w)
      BY <1>1, <2>1, RouteKeyTyped DEF w
    <3> QED BY <3>1
  <2>3. w \in Nat /\ \A o \in fit : key[o] = RouteKey(strategy, here.scores[t][o])
    BY DEF RouteWidth
  <2> HIDE DEF key, w, fit
  <2>4. PICK o \in fit : \A q \in fit : ~Before(key[q], key[o])
    BY <1>5, <2>2, <2>3, MinimumExists
  <2>5. \A q \in fit : ~Before(RouteKey(strategy, here.scores[t][q]), RouteKey(strategy, here.scores[t][o]))
    BY <2>3, <2>4
  <2>6. o \in Winners(t, Range(a))
    BY <2>5 DEF Winners, fit
  <2>7. Follows(strategy, here.scores[t][a], here.scores[t][o])
    BY <1>1, <1>5, <2>1, <2>5, FollowsIs
  <2>8. Range(o) = Range(a) /\ o # <<>> /\ o \in OrdersWithin(Jobs(f)) /\ here.scores[t][o] # NoScore
    <3>1. here.scores[t][o] # NoScore
      <4>1. o # <<>> /\ Workable(t, o)
        BY <2>1 DEF fit, FitOrders
      <4> QED BY <4>1 DEF Workable
    <3> QED BY <1>5, <1>6, <2>1, <3>1
  <2>9. Follows(strategy, Replay(here.scores, t, a), Replay(here.scores, t, o))
    BY <1>8, <2>7, <2>8 DEF Replay
  <2> QED BY <1>8, <2>6, <2>8, <2>9
<1> QED BY <1>7, <1>8

(* So every plan has a partition that is no worse.                          *)
LEMMA PartitionIs ==
  ASSUME Asking, NEW p \in here.plans
  PROVE  \E r \in Partitions : ~Better(here, strategy, p, r)
<1> DEFINE f == here.fleet
           T == Trucks(f)
           Wins(t, o) == /\ o \in Winners(t, Range(p[t]))
                         /\ o \in OrdersWithin(Jobs(f)) /\ Range(o) = Range(p[t]) /\ (o = <<>> <=> p[t] = <<>>)
                         /\ o # <<>> => here.scores[t][o] # NoScore
                         /\ Follows(strategy, Replay(here.scores, t, p[t]), Replay(here.scores, t, o))
           r == [t \in T |-> CHOOSE o : Wins(t, o)]
<1>1. /\ IsFleet(f) /\ f.trucks # <<>> /\ here = Book(f) /\ here.scores = ScoresOf(f)
      /\ here.plans = {q \in Plans(f) : ValidPlan(here.scores, q)}
      /\ p \in Plans(f) /\ ValidPlan(here.scores, p) /\ strategy \in {"balanced", "distance", "efficient"}
      /\ strategy \in Compared
  BY AskedIs, FleetsAssumption DEF Asking
<1>2. \A t \in T : Wins(t, r[t])
  <2> SUFFICES ASSUME NEW t \in T PROVE Wins(t, r[t])
    OBVIOUS
  <2>1. \E o : Wins(t, o)
    BY WinnerIs
  <2>2. r[t] = CHOOSE o : Wins(t, o)
    OBVIOUS
  <2> HIDE DEF Wins, r
  <2> QED BY <2>1, <2>2
<1>3. r \in Plans(f) /\ DOMAIN r = T
  <2>1. \A t \in T : r[t] \in OrdersWithin(Jobs(f))
    BY <1>2
  <2>2. r = [t \in T |-> r[t]] /\ DOMAIN r = T
    OBVIOUS
  <2> HIDE DEF r
  <2>3. r \in [T -> OrdersWithin(Jobs(f))]
    BY <2>1, <2>2
  <2> QED BY <2>2, <2>3 DEF Plans
<1> HIDE DEF r
<1>4. ValidPlan(here.scores, r)
  <2>1. Apart(p) /\ DOMAIN p = T
    BY <1>1, PlanIsCounted DEF ValidPlan
  <2>2. Apart(r)
    BY <1>2, <1>3, <2>1 DEF Apart
  <2>3. Cardinality(Aboard(r)) = Served(r)
    BY <1>1, <1>3, <2>2, PlanIsCounted
  <2> QED BY <1>2, <1>3, <2>3 DEF ValidPlan
<1>5. r \in Partitions
  <2>1. \A t \in T : Range(p[t]) \subseteq Jobs(f)
    BY <1>1, PlanIsCounted
  <2>2. \A t \in T : r[t] \in OptionsOf(t)
    BY <1>2, <2>1 DEF OptionsOf
  <2>3. r \in [T -> UNION {OptionsOf(t) : t \in T}]
    <3>1. r = [t \in T |-> r[t]]
      BY <1>3 DEF Plans
    <3>2. \A t \in T : r[t] \in UNION {OptionsOf(u) : u \in T}
      BY <2>2
    <3> QED BY <3>1, <3>2
  <2> QED BY <1>4, <2>2, <2>3 DEF Partitions
<1>6. Improves(f, strategy, p, r)
  BY <1>1, <1>2 DEF Improves
<1>7. r \in here.plans
  BY <1>1, <1>3, <1>4
<1> HIDE DEF f
<1>8. ~Before(PlanKey(strategy, f, ScoresOf(f), p), PlanKey(strategy, f, ScoresOf(f), r))
  BY <1>1, <1>6, <1>7, ImprovedIsNoWorse
<1>9. /\ here.keys[strategy][p] = PlanKey(strategy, f, ScoresOf(f), p)
      /\ here.keys[strategy][r] = PlanKey(strategy, f, ScoresOf(f), r)
  BY <1>1, <1>7, BookHolds DEF Compared
<1> QED BY <1>5, <1>8, <1>9 DEF Better

(* What is no better than one plan is no better than a plan that this one   *)
(* does not improve.                                                        *)
LEMMA NotBetterTransitive ==
  ASSUME Asking, NEW a \in here.plans, NEW b \in here.plans, NEW c \in here.plans,
         ~Better(here, strategy, a, b), ~Better(here, strategy, b, c)
  PROVE  ~Better(here, strategy, a, c)
<1> DEFINE w == Width(strategy)
           Key(p) == here.keys[strategy][p]
<1>1. /\ IsFleet(here.fleet) /\ here.fleet.trucks # <<>> /\ here = Book(here.fleet) /\ strategy \in Compared
  BY AskedIs
<1>2. Key(a) \in KeysOf(w) /\ Key(b) \in KeysOf(w) /\ Key(c) \in KeysOf(w) /\ w \in Nat
  BY <1>1, BookHolds DEF Compared, Width
<1>3. \A p, q : Better(here, strategy, p, q) <=> Before(Key(p), Key(q))
  BY DEF Better
<1> HIDE DEF Key, w
<1> QED BY <1>2, <1>3, NotBeforeTransitive

(* The exhaustive search takes the best plan there is.                      *)
LEMMA ExactKeeps ==
  ASSUME SearchInv, SearchExactly
  PROVE  SearchInv'
<1>1. /\ Exact /\ phase' = "found" /\ Consider(BestPlan(here, strategy, Partitions))
      /\ UNCHANGED <<fleet, here, strategy, floor, work, astray>>
  BY ExactlyIs
<1>2. /\ Asking /\ best \in here.plans /\ ~Better(here, strategy, floor, best)
      /\ work \in here.plans /\ astray \subseteq Jobs(here.fleet)
  BY DEF SearchInv
<1>3. /\ IsFleet(here.fleet) /\ here.fleet.trucks # <<>> /\ here = Book(here.fleet) /\ strategy \in Compared
      /\ here.plans = {q \in Plans(here.fleet) : ValidPlan(here.scores, q)}
  BY <1>2, AskedIs
<1>4. Partitions \subseteq here.plans
  <2>1. \A t \in Trucks(here.fleet) : OptionsOf(t) \subseteq OrdersWithin(Jobs(here.fleet))
    BY DEF OptionsOf, Winners, FitOrders, OrdersWithin
  <2>2. ASSUME NEW q \in Partitions PROVE q \in Plans(here.fleet) /\ ValidPlan(here.scores, q)
    BY <2>1, <2>2 DEF Partitions, Plans
  <2> QED BY <1>3, <2>2
<1>5. Partitions # {}
  BY <1>2, PartitionIs
<1> DEFINE top == BestPlan(here, strategy, Partitions)
<1>6. top \in Partitions /\ \A q \in Partitions : ~Better(here, strategy, q, top)
  BY <1>3, <1>4, <1>5, BestPlanIs
<1>7. top \in here.plans /\ top \in Plans(here.fleet) /\ ValidPlan(here.scores, top) /\ Consider(top)
  BY <1>1, <1>3, <1>4, <1>6
<1> HIDE DEF top
<1>8. /\ best' \in here.plans /\ ~Better(here, strategy, floor, best') /\ ~Better(here, strategy, top, best')
  BY <1>2, <1>7, ConsiderKeeps
<1>9. ASSUME NEW p \in here.plans PROVE ~Better(here, strategy, p, best')
  <2>1. PICK r \in Partitions : ~Better(here, strategy, p, r)
    BY <1>2, PartitionIs
  <2>2. ~Better(here, strategy, p, top)
    BY <1>2, <1>4, <1>6, <1>7, <2>1, NotBetterTransitive
  <2> QED BY <1>2, <1>7, <1>8, <2>2, NotBetterTransitive
<1>10. BestOfAll'
  BY <1>1, <1>9 DEF BestOfAll
<1>11. Asking'
  BY <1>1, <1>2 DEF Asking
<1>12. IsPhase'
  BY <1>1 DEF IsPhase, Phases, Range
<1> QED BY <1>1, <1>2, <1>8, <1>10, <1>11, <1>12 DEF SearchInv

(* Every step of the search keeps what holds of it.                         *)
LEMMA SearchKeeps == SearchInv /\ [SearchNext]_searchVars => SearchInv'
<1> SUFFICES ASSUME SearchInv, [SearchNext]_searchVars PROVE SearchInv'
  OBVIOUS
<1>1. CASE UNCHANGED searchVars
  <2>1. /\ fleet' = fleet /\ here' = here /\ strategy' = strategy /\ floor' = floor /\ best' = best
        /\ work' = work /\ astray' = astray /\ phase' = phase
    BY <1>1 DEF searchVars
  <2> QED BY <2>1 DEF SearchInv, Asking, IsPhase, Exact, BestOfAll
<1>2. CASE SearchExactly
  BY <1>2, ExactKeeps
<1>3. CASE \/ SkipSearch \/ StartSeed \/ AdoptSeed \/ SeedAgain
           \/ phase \in {"seed", "again"} /\ \E routes \in SeedTrials : ImproveSeed(routes)
  BY <1>3, SeedKeeps
<1>4. CASE \E job \in Jobs(here.fleet) : BuildNext(job) \/ InsertMissing(job) \/ PutBack(job)
  BY <1>4, InsertingKeeps
<1>5. CASE \/ BuildAgain \/ Land \/ Rebuilt \/ StartRound \/ NextPhase
           \/ phase = "rounds" /\ \E routes \in Neighbours : TryNeighbour(routes)
  BY <1>5, RepairKeeps
<1>6. CASE \/ \E base \in RepairBases : \E removed \in SUBSET Aboard(base) : TakeApart(base, removed)
           \/ \E base \in RepairBases, t \in Trucks(here.fleet) : \E missing \in Missing(base), removed \in Range(base[t]) :
                EjectFirst(base, t, missing, removed)
           \/ \E t \in Trucks(here.fleet), removed \in Jobs(here.fleet) : EjectNext(t, removed)
  BY <1>6, TakingKeeps
<1>7. CASE phase = "pool" /\ \E pool \in kSubset(PoolRoutes, MetRoutes) : Recombine(pool)
  BY <1>7, RecombineKeeps
<1> QED BY <1>1, <1>2, <1>3, <1>4, <1>5, <1>6, <1>7 DEF SearchNext

(* And what holds of it is what it promises.                                *)
LEMMA SearchIsWhatItPromises == SearchInv => SearchIsSound
<1> SUFFICES ASSUME SearchInv PROVE SearchIsSound
  OBVIOUS
<1>1. /\ Asking /\ best \in here.plans /\ ~Better(here, strategy, floor, best)
      /\ work \in here.plans /\ astray \subseteq Jobs(here.fleet) /\ IsPhase
      /\ phase = "found" /\ Exact => BestOfAll
  BY DEF SearchInv
<1>2. /\ IsFleet(here.fleet) /\ here.scores = ScoresOf(here.fleet)
      /\ here.plans = {q \in Plans(here.fleet) : ValidPlan(here.scores, q)}
  BY <1>1, AskedIs
<1>3. SearchTypeOK
  <2>1. Cardinality(Aboard(work)) = Served(work)
    BY <1>1, <1>2 DEF ValidPlan
  <2> QED BY <1>1, <2>1 DEF SearchTypeOK, Asking, IsPhase
<1>4. ValidPlan(here.scores, best)
  BY <1>1, <1>2
<1>5. ASSUME NEW t \in DOMAIN best, best[t] # <<>>
      PROVE  here.scores[t][best[t]] = ScoreOf(here.fleet, t, best[t])
  <2>1. t \in Trucks(here.fleet) /\ best[t] \in OrdersWithin(Jobs(here.fleet))
    BY <1>1, <1>2 DEF Plans
  <2> QED BY <1>2, <1>5, <2>1, ScoreIsOwn
<1> QED BY <1>1, <1>3, <1>4, <1>5 DEF SearchIsSound, BestOfAll

SearchSpec == SearchInit /\ [][SearchNext]_searchVars

(* For every fleet and objective the search of a plan keeps what it         *)
(* promises (fleet_search.py): whatever the phases try and whenever the     *)
(* budget ends, the answer names no delivery twice, every route of it can   *)
(* be worked and carries the evaluation of its own vehicle, and it is no    *)
(* worse than the constructions; and of the exhaustive search no plan of    *)
(* the fleet at all is better than the answer, although it has seen only    *)
(* one order of each group on each vehicle.                                 *)
THEOREM SearchIsSoundHolds == SearchSpec => []SearchIsSound
<1>1. SearchInit => SearchInv
  BY SearchBegins
<1>2. SearchInv /\ [SearchNext]_searchVars => SearchInv'
  BY SearchKeeps
<1>3. SearchInv => SearchIsSound
  BY SearchIsWhatItPromises
<1> QED BY <1>1, <1>2, <1>3, PTL DEF SearchSpec

=============================================================================
