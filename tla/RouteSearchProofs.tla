-------------------------- MODULE RouteSearchProofs --------------------------
(***************************************************************************)
(* Theorems about the search of one route: for every set of problems, an   *)
(* order that is found keeps every stop, is no worse than the floor and    *)
(* the order of the user, and is feasible when an order without breaks can *)
(* be.  The last one is the completeness of a dynamic programme over sets  *)
(* of stops: its table is sound (a witness is a real run) and no feasible  *)
(* order is sooner than the witness of any of its prefixes.                *)
(***************************************************************************)
EXTENDS RouteSearch, ClockProofs

-----------------------------------------------------------------------------
(* Orders.                                                                  *)

(* The orders of n stops are finitely many; they are the sequences of       *)
(* length n that name every stop.                                           *)
LEMMA OrdersAre ==
  ASSUME NEW n \in Nat
  PROVE  /\ IsFiniteSet(OrdersOf(1 .. n))
         /\ \A o \in OrdersOf(1 .. n) : o \in Seq(1 .. n) /\ Len(o) = n /\ Range(o) = 1 .. n
         /\ \A o \in Seq(1 .. n) : Len(o) = n /\ Range(o) = 1 .. n => o \in OrdersOf(1 .. n)
<1>1. IsFiniteSet(1 .. n) /\ Cardinality(1 .. n) = n
  BY FS_Interval
<1>2. OrdersOf(1 .. n) = {o \in [1 .. n -> 1 .. n] : Range(o) = 1 .. n}
  BY <1>1 DEF OrdersOf
<1>3. IsFiniteSet([1 .. n -> 1 .. n])
  BY <1>1, FunctionsAreFinite
<1>4. OrdersOf(1 .. n) \in SUBSET [1 .. n -> 1 .. n]
  BY <1>2
<1>5. IsFiniteSet(OrdersOf(1 .. n))
  BY <1>3, <1>4, FS_Subset
<1>6. \A o \in [1 .. n -> 1 .. n] : o \in Seq(1 .. n) /\ Len(o) = n
  OBVIOUS
<1>7. \A o \in Seq(1 .. n) : Len(o) = n => o \in [1 .. n -> 1 .. n]
  OBVIOUS
<1> QED BY <1>2, <1>5, <1>6, <1>7

(* Windows that close earlier leave a problem a problem, with the same      *)
(* stops to visit and the same breaks.                                      *)
LEMMA BufferedTyped ==
  ASSUME NEW p, IsProblem(p), NEW minutes \in Nat
  PROVE  IsProblem(Buffered(p, minutes)) /\ Len(Buffered(p, minutes).stops) = Len(p.stops)
         /\ Buffered(p, minutes).breaks = p.breaks
<1> DEFINE n == Len(p.stops)
           Early(stop, w) == [w EXCEPT !.close = Smaller(@, Greater(@ - minutes, w.open + stop.service))]
           Closed(i) == [p.stops[i] EXCEPT !.windows = {Early(p.stops[i], w) : w \in p.stops[i].windows}]
           q == Buffered(p, minutes)
<1>1. n \in Nat /\ DOMAIN p.stops = 1 .. n /\ DOMAIN p = Fields
  BY DEF IsProblem
<1>2. ASSUME NEW i \in 1 .. n PROVE IsStop(Closed(i))
  <2> DEFINE s == p.stops[i]
             f == [w \in s.windows |-> Early(s, w)]
             windows == {Early(s, w) : w \in s.windows}
  <2>1. /\ {"windows", "service"} \subseteq DOMAIN s
        /\ s.windows \in SUBSET WindowSet /\ IsFiniteSet(s.windows) /\ s.service \in Nat
    BY ProblemIs DEF IsStop
  <2>2. \A w \in s.windows : Early(s, w) \in WindowSet
    <3> SUFFICES ASSUME NEW w \in s.windows PROVE Early(s, w) \in WindowSet
      OBVIOUS
    <3>1. w \in WindowSet /\ w.open \in Nat /\ w.close \in Nat
      BY <2>1 DEF WindowSet
    <3>2. Smaller(w.close, Greater(w.close - minutes, w.open + s.service)) \in Nat
      BY <2>1, <3>1 DEF Smaller, Greater
    <3> QED BY <3>1, <3>2 DEF WindowSet
  <2>3. IsFiniteSet(windows)
    <3>1. windows = {f[w] : w \in s.windows}
      OBVIOUS
    <3> HIDE DEF f, windows
    <3> QED BY <2>1, <3>1, ImageIsFinite
  <2>4. windows \in SUBSET WindowSet
    BY <2>2
  <2>5. Closed(i) = [s EXCEPT !.windows = windows]
    OBVIOUS
  <2> HIDE DEF s, windows
  <2>6. [s EXCEPT !.windows = windows].windows = windows /\ [s EXCEPT !.windows = windows].service = s.service
        /\ DOMAIN [s EXCEPT !.windows = windows] = DOMAIN s
    BY <2>1
  <2> HIDE DEF Closed
  <2> QED BY <2>1, <2>3, <2>4, <2>5, <2>6 DEF IsStop
<1> DEFINE stops == [i \in 1 .. n |-> Closed(i)]
<1>3. q = [p EXCEPT !.stops = stops]
  BY <1>1 DEF Buffered
<1>4. Len(stops) = n /\ DOMAIN stops = 1 .. n /\ \A i \in DOMAIN stops : IsStop(stops[i])
  <2>1. stops \in Seq({Closed(i) : i \in 1 .. n})
    <3> HIDE DEF Closed
    <3> QED BY <1>1
  <2>2. DOMAIN stops = 1 .. n /\ \A i \in 1 .. n : stops[i] = Closed(i)
    OBVIOUS
  <2> HIDE DEF stops, Closed
  <2> QED BY <1>1, <1>2, <2>1, <2>2
<1> HIDE DEF stops, q
<1>5. /\ q.stops = stops /\ q.km = p.km /\ q.min = p.min /\ q.breaks = p.breaks /\ q.shift = p.shift
      /\ q.leave = p.leave /\ DOMAIN q = Fields
  BY <1>1, <1>3 DEF Fields
<1>6. IsProblem(q)
  BY <1>1, <1>4, <1>5 DEF IsProblem
<1> QED BY <1>4, <1>5, <1>6 DEF q

-----------------------------------------------------------------------------
(* The parts of the evaluation of a next stop.                              *)
LEMMA CandidateTyped ==
  ASSUME NEW p, IsProblem(p), NEW at \in Int, NEW place \in 0 .. Len(p.stops), NEW stop \in 1 .. Len(p.stops)
  PROVE  /\ p.min[<<place, stop>>] \in Nat /\ p.km[<<place, stop>>] \in Nat /\ p.stops[stop].service \in Nat
         /\ at + p.min[<<place, stop>>] \in Int /\ IsStop(p.stops[stop])
         /\ EvaluateCandidate(at + p.min[<<place, stop>>], p.stops[stop]) \in AppointmentSet
         /\ EarliestFeasibleCandidate(at + p.min[<<place, stop>>], p.stops[stop]) \in AppointmentSet
<1>1. stop \in 0 .. Len(p.stops) /\ IsStop(p.stops[stop])
  BY ProblemIs
<1>2. p.min[<<place, stop>>] \in Nat /\ p.km[<<place, stop>>] \in Nat
  BY <1>1, ProblemIs
<1>3. at + p.min[<<place, stop>>] \in Int
  BY <1>2
<1> QED BY <1>1, <1>2, <1>3, AppointTyped DEF IsStop

(* What the greedy order has become after k of its n stops.                 *)
Grown(n, k) ==
  {v \in [order : Seq(1 .. n), run : [at : Int, place : 0 .. n]] :
     Len(v.order) = k /\ Cardinality(Range(v.order)) = k}

(* One more stop in an order.                                               *)
LEMMA RangeOfAppend ==
  ASSUME NEW S, NEW o \in Seq(S), NEW x \in S
  PROVE  /\ Append(o, x) \in Seq(S) /\ Len(Append(o, x)) = Len(o) + 1
         /\ Range(Append(o, x)) = Range(o) \cup {x} /\ Range(o) \subseteq S
<1>1. Append(o, x) \in Seq(S) /\ Len(Append(o, x)) = Len(o) + 1 /\ Len(o) \in Nat
  OBVIOUS
<1>2. \A i \in 1 .. Len(o) : Append(o, x)[i] = o[i]
  OBVIOUS
<1>3. Append(o, x)[Len(o) + 1] = x
  OBVIOUS
<1>4. Range(Append(o, x)) = {Append(o, x)[i] : i \in 1 .. Len(o) + 1} /\ Range(o) = {o[i] : i \in 1 .. Len(o)}
  BY <1>1 DEF Range
<1> DEFINE a == Append(o, x)
<1> HIDE DEF a
<1>5. {a[i] : i \in 1 .. Len(o) + 1} = {a[i] : i \in 1 .. Len(o)} \cup {a[Len(o) + 1]}
  <2>1. 1 .. Len(o) + 1 = (1 .. Len(o)) \cup {Len(o) + 1}
    BY <1>1
  <2> QED BY <2>1
<1>6. {a[i] : i \in 1 .. Len(o)} = {o[i] : i \in 1 .. Len(o)}
  BY <1>2 DEF a
<1>7. Range(o) \subseteq S
  BY <1>4
<1> QED BY <1>1, <1>3, <1>4, <1>5, <1>6, <1>7 DEF a

(* The stops of an order are finitely many; an order names n of n stops     *)
(* only if it names all.                                                    *)
LEMMA RangeIsFinite ==
  ASSUME NEW n \in Nat, NEW o \in Seq(1 .. n)
  PROVE  /\ IsFiniteSet(Range(o)) /\ Range(o) \subseteq 1 .. n /\ Cardinality(Range(o)) \in Nat
         /\ Cardinality(Range(o)) = n => Range(o) = 1 .. n
         /\ Cardinality(Range(o)) <= n
<1>1. IsFiniteSet(1 .. n) /\ Cardinality(1 .. n) = n
  BY FS_Interval
<1>2. Range(o) \in SUBSET (1 .. n)
  BY DEF Range
<1> QED BY <1>1, <1>2, FS_Subset, FS_CardinalityType

(* The greedy construction takes every stop once: it never runs out of      *)
(* stops before the end, and never takes one again.                         *)
LEMMA GreedyIsOrder ==
  ASSUME NEW p, IsProblem(p)
  PROVE  GreedySequence(p) \in OrdersOf(Visits(p))
<1> DEFINE n == Len(p.stops)
           Key(run, stop) ==
             <<(IF EvaluateCandidate(run.at + p.min[<<run.place, stop>>], p.stops[stop]).feasible THEN 0 ELSE 1),
               p.km[<<run.place, stop>>],
               EvaluateCandidate(run.at + p.min[<<run.place, stop>>], p.stops[stop]).start, stop>>
           Choose(run, left) == CHOOSE s \in left : \A q \in left : ~Before(Key(run, q), Key(run, s))
           Leave(run, stop) ==
             [at |-> EvaluateCandidate(run.at + p.min[<<run.place, stop>>], p.stops[stop]).start
                       + p.stops[stop].service, place |-> stop]
           Next(last) == Choose(last.run, Visits(p) \ Range(last.order))
           Longer(last) == [order |-> Append(last.order, Next(last)), run |-> Leave(last.run, Next(last))]
           base == [order |-> <<>>, run |-> [at |-> p.leave, place |-> 0]]
           E(g) == g = [k \in 0 .. n |-> IF k = 0 THEN base ELSE Longer(g[k - 1])]
           grow == CHOOSE g : E(g)
           W == [k \in 0 .. n |-> Grown(n, k)]
           V == [order : Seq(1 .. n), run : [at : Int, place : 0 .. n]]
           Real == [vk \in V \X (1 .. n) |-> Longer(vk[1])]
<1>1. GreedySequence(p) = grow[n].order
  BY DEF GreedySequence
<1>2. n \in Nat /\ p.leave \in Int /\ Visits(p) = 1 .. n
  BY ProblemIs DEF Visits
<1>3. ASSUME NEW run \in [at : Int, place : 0 .. n], NEW left \in SUBSET (1 .. n), left # {}
      PROVE  Choose(run, left) \in left
  <2> DEFINE key == [s \in left |-> Key(run, s)]
  <2>1. ASSUME NEW s \in left PROVE Key(run, s) \in KeysOf(4)
    <3>1. p.km[<<run.place, s>>] \in Int /\ s \in Int
      BY <1>2, CandidateTyped
    <3>2. EvaluateCandidate(run.at + p.min[<<run.place, s>>], p.stops[s]).start \in Int
      BY <1>2, CandidateTyped DEF AppointmentSet
    <3> QED BY <3>1, <3>2 DEF KeysOf
  <2>2. IsFiniteSet(left)
    <3>1. IsFiniteSet(1 .. n)
      BY <1>2, FS_Interval
    <3> HIDE DEF n
    <3> QED BY <3>1, FS_Subset
  <2>3. key \in [left -> KeysOf(4)] /\ \A s \in left : key[s] = Key(run, s)
    <3> HIDE DEF Key
    <3> QED BY <2>1
  <2>4. \E x \in left : \A y \in left : ~Before(key[y], key[x])
    <3> HIDE DEF key
    <3> QED BY <1>3, <2>2, <2>3, MinimumExists
  <2>5. \E x \in left : \A y \in left : ~Before(Key(run, y), Key(run, x))
    <3> HIDE DEF key, Key
    <3> QED BY <2>3, <2>4
  <2> HIDE DEF Key
  <2> QED BY <2>5
<1>4. base \in Grown(n, 0)
  <2>1. base.order = <<>> /\ Len(base.order) = 0 /\ Range(base.order) = {}
    BY DEF Range
  <2>2. Cardinality(Range(base.order)) = 0
    BY <2>1, FS_EmptySet
  <2> QED BY <1>2, <2>1, <2>2 DEF Grown
<1>5. ASSUME NEW k \in 1 .. n, NEW v \in Grown(n, k - 1)
      PROVE  Longer(v) \in Grown(n, k) /\ v \in V
  <2>1. v.order \in Seq(1 .. n) /\ v.run \in [at : Int, place : 0 .. n] /\ Len(v.order) = k - 1
        /\ Cardinality(Range(v.order)) = k - 1 /\ v \in V
    BY DEF Grown
  <2> DEFINE left == Visits(p) \ Range(v.order)
  <2>2. left \in SUBSET (1 .. n) /\ left # {}
    <3>1. Range(v.order) # 1 .. n
      <4>1. Cardinality(1 .. n) = n
        BY <1>2, FS_Interval
      <4>2. Cardinality(Range(v.order)) # n
        BY <1>2, <2>1
      <4> QED BY <4>1, <4>2
    <3>2. Range(v.order) \subseteq 1 .. n
      BY <1>2, <2>1, RangeIsFinite
    <3> QED BY <1>2, <3>1, <3>2
  <2> HIDE DEF Choose
  <2>3. Next(v) \in left
    <3> HIDE DEF left
    <3>1. Choose(v.run, left) \in left
      BY <1>3, <2>1, <2>2
    <3> QED BY <3>1 DEF left
  <2> DEFINE next == Next(v)
  <2>4. next \in 1 .. n /\ next \in 0 .. n /\ next \notin Range(v.order)
    BY <1>2, <2>3
  <2> HIDE DEF Next, next
  <2>5. Leave(v.run, next) \in [at : Int, place : 0 .. n]
    <3>1. v.run.at \in Int /\ v.run.place \in 0 .. n
      BY <2>1
    <3> DEFINE ev == EvaluateCandidate(v.run.at + p.min[<<v.run.place, next>>], p.stops[next])
    <3>2. ev \in AppointmentSet /\ p.stops[next].service \in Nat
      BY <2>4, <3>1, CandidateTyped
    <3> HIDE DEF ev
    <3>3. ev.start \in Int
      BY <3>2 DEF AppointmentSet
    <3>4. ev.start + p.stops[next].service \in Int
      BY <3>2, <3>3
    <3> QED BY <2>4, <3>4 DEF ev
  <2> DEFINE longer == Append(v.order, next)
  <2>6. longer \in Seq(1 .. n) /\ Len(longer) = k /\ Range(longer) = Range(v.order) \cup {next}
    BY <1>2, <2>1, <2>4, RangeOfAppend
  <2>7. Cardinality(Range(longer)) = k
    <3>1. IsFiniteSet(Range(v.order))
      BY <1>2, <2>1, RangeIsFinite
    <3>2. Cardinality(Range(v.order) \cup {next}) = Cardinality(Range(v.order)) + 1
      BY <2>4, <3>1, FS_AddElement
    <3>3. (k - 1) + 1 = k
      BY <1>2
    <3> QED BY <2>1, <2>6, <3>2, <3>3
  <2> HIDE DEF longer, Leave
  <2>8. Longer(v) = [order |-> longer, run |-> Leave(v.run, next)]
    BY DEF longer, next
  <2> HIDE DEF Longer
  <2>9. Longer(v).order = longer /\ Longer(v) \in V
    BY <2>5, <2>6, <2>8
  <2> QED BY <2>1, <2>6, <2>7, <2>9 DEF Grown
<1> HIDE DEF Longer
<1>6. Stages(n, W, base, Real)
  <2>1. 0 \in 0 .. n /\ W[0] = Grown(n, 0)
    BY <1>2
  <2>2. ASSUME NEW k \in 1 .. n, NEW v \in W[k - 1] PROVE Real[<<v, k>>] \in W[k]
    <3>1. k \in 0 .. n /\ k - 1 \in 0 .. n /\ W[k] = Grown(n, k) /\ W[k - 1] = Grown(n, k - 1)
      BY <1>2
    <3>2. v \in Grown(n, k - 1) /\ v \in V /\ Longer(v) \in Grown(n, k)
      BY <1>5, <2>2, <3>1
    <3>3. Real[<<v, k>>] = Longer(v)
      BY <3>2
    <3> QED BY <3>1, <3>2, <3>3
  <2> HIDE DEF W, Real, base
  <2> QED BY <1>2, <1>4, <2>1, <2>2 DEF Stages
<1>7. ASSUME NEW l, l[0] = base, \A k \in 1 .. n : l[k] = Real[<<l[k - 1], k>>]
      PROVE  \A k \in 0 .. n : l[k] \in Grown(n, k)
  <2>1. \A k \in 0 .. n : l[k] \in W[k]
    <3> HIDE DEF W, Real, base
    <3> QED BY <1>6, <1>7, StagesKept
  <2> QED BY <2>1
<1>8. PICK h : /\ DOMAIN h = 0 .. n /\ h = [k \in 0 .. n |-> h[k]]
               /\ h[0] = base /\ \A k \in 1 .. n : h[k] = Real[<<h[k - 1], k>>]
  <2> HIDE DEF W, Real, base
  <2> QED BY <1>6, StagesRun
<1>9. \A k \in 0 .. n : h[k] \in Grown(n, k)
  <2> HIDE DEF Real, base
  <2> QED BY <1>7, <1>8
<1>10. \A k \in 1 .. n : \A v \in Grown(n, k - 1) : Real[<<v, k>>] = Longer(v)
  BY <1>5
<1>11. E(h)
  <2> HIDE DEF Real, base
  <2>1. ASSUME NEW k \in 0 .. n PROVE h[k] = IF k = 0 THEN base ELSE Longer(h[k - 1])
    <3>1. CASE k = 0
      BY <1>8, <3>1
    <3>2. CASE k # 0
      <4>1. k \in 1 .. n /\ k - 1 \in 0 .. n
        BY <1>2, <3>2
      <4> QED BY <1>8, <1>9, <1>10, <3>2, <4>1
    <3> QED BY <3>1, <3>2
  <2> QED BY <1>8, <2>1
<1>12. E(grow)
  <2> HIDE DEF E
  <2> QED BY <1>11
<1>13. grow[0] = base /\ \A k \in 1 .. n : grow[k] = Longer(grow[k - 1])
  <2>1. 0 \in 0 .. n /\ \A k \in 1 .. n : k \in 0 .. n /\ k # 0
    BY <1>2
  <2> HIDE DEF grow, base
  <2> QED BY <1>12, <2>1
<1>14. \A k \in 0 .. n : grow[k] \in Grown(n, k)
  <2> DEFINE T == {k \in Nat : k <= n => grow[k] \in Grown(n, k)}
  <2> HIDE DEF grow
  <2>1. 0 \in T
    <3> HIDE DEF base
    <3> QED BY <1>4, <1>13
  <2>2. ASSUME NEW k \in Nat, k \in T PROVE k + 1 \in T
    <3> SUFFICES ASSUME k + 1 <= n PROVE grow[k + 1] \in Grown(n, k + 1)
      OBVIOUS
    <3>1. k + 1 \in 1 .. n /\ (k + 1) - 1 = k /\ grow[k] \in Grown(n, k)
      BY <1>2, <2>2
    <3>2. grow[k + 1] = Longer(grow[k])
      BY <1>13, <3>1
    <3>3. Longer(grow[k]) \in Grown(n, k + 1)
      BY <1>5, <3>1
    <3> QED BY <3>2, <3>3
  <2>3. Nat \subseteq T
    <3> HIDE DEF T
    <3> QED BY <2>1, <2>2, NatSet
  <2> QED BY <1>2, <2>3
<1>15. grow[n] \in Grown(n, n)
  <2> HIDE DEF grow
  <2> QED BY <1>2, <1>14
<1> HIDE DEF grow
<1>16. grow[n].order \in Seq(1 .. n) /\ Len(grow[n].order) = n /\ Range(grow[n].order) = 1 .. n
  <2>1. grow[n].order \in Seq(1 .. n) /\ Len(grow[n].order) = n /\ Cardinality(Range(grow[n].order)) = n
    BY <1>15 DEF Grown
  <2> QED BY <1>2, <2>1, RangeIsFinite
<1> QED BY <1>1, <1>2, <1>16, OrdersAre

(* An order reversed is an order.                                           *)
LEMMA ReverseIsOrder ==
  ASSUME NEW n \in Nat, NEW o \in OrdersOf(1 .. n)
  PROVE  Reverse(o) \in OrdersOf(1 .. n)
<1>1. o \in Seq(1 .. n) /\ Len(o) = n /\ Range(o) = 1 .. n
  BY OrdersAre
<1> DEFINE r == [i \in 1 .. n |-> o[n - i + 1]]
<1>2. Reverse(o) = r
  BY <1>1 DEF Reverse
<1>3. \A i \in 1 .. n : n - i + 1 \in 1 .. n /\ o[n - i + 1] \in 1 .. n
  BY <1>1
<1>4. r \in [1 .. n -> 1 .. n]
  BY <1>3
<1>5. ASSUME NEW x \in 1 .. n PROVE \E i \in 1 .. n : r[i] = x
  <2>1. DOMAIN o = 1 .. n /\ x \in {o[i] : i \in DOMAIN o}
    <3>1. DOMAIN o = 1 .. n
      BY <1>1
    <3>2. Range(o) = {o[i] : i \in DOMAIN o}
      BY DEF Range
    <3> QED BY <1>1, <3>1, <3>2
  <2>2. PICK j \in 1 .. n : o[j] = x
    BY <2>1
  <2>3. n - j + 1 \in 1 .. n /\ n - (n - j + 1) + 1 = j
    OBVIOUS
  <2> QED BY <2>2, <2>3
<1>6. Range(r) = 1 .. n
  BY <1>4, <1>5 DEF Range
<1>7. Cardinality(1 .. n) = n
  BY FS_Interval
<1> HIDE DEF r
<1> QED BY <1>2, <1>4, <1>6, <1>7 DEF OrdersOf

-----------------------------------------------------------------------------
(* The witnesses of a set of stops: when, where and in which order they     *)
(* end.                                                                     *)
Ends(n) == [at : Int, place : 1 .. n, order : Seq(1 .. n)]
(* What a witness may be extended from: a witness, or the depot.            *)
Starts(n) == [at : Int, place : 0 .. n, order : Seq(1 .. n)]
(* The finite subsets of a set.                                             *)
FiniteSets(S) == {s \in SUBSET S : IsFiniteSet(s)}

(* A witness followed by one more stop, if that can be served on time.      *)
ExtendedBy(p, from, stop) ==
  LET ev == EarliestFeasibleCandidate(from.at + p.min[<<from.place, stop>>], p.stops[stop])
  IN IF ev.feasible THEN {[at |-> ev.start + p.stops[stop].service, place |-> stop,
                           order |-> Append(from.order, stop)]} ELSE {}

(* The soonest of some witnesses.                                           *)
SoonestOf(found) == IF found = {} THEN {} ELSE {CHOOSE f \in found : \A g \in found : f.at <= g.at}

(* The route that has not left yet.                                         *)
DepotStart(p) == [at |-> p.leave, place |-> 0, order |-> <<>>]

(* The witness of a set of stops with its last stop, from what is known     *)
(* of the set without it.                                                   *)
Onward(p, known, s, last) ==
  IF s = {last} THEN ExtendedBy(p, DepotStart(p), last)
  ELSE SoonestOf(UNION {ExtendedBy(p, f, last) : f \in UNION {known[q] : q \in s \ {last}}})

(* A table of the witnesses of every set of stops.                          *)
Reaches(p, g) ==
  g = [s \in SUBSET Visits(p) |-> [last \in s |-> Onward(p, g[s \ {last}], s, last)]]

(* An extension of a witness is a witness.                                  *)
LEMMA ExtendedIs ==
  ASSUME NEW p, IsProblem(p), NEW from \in Starts(Len(p.stops)), NEW stop \in 1 .. Len(p.stops)
  PROVE  /\ ExtendedBy(p, from, stop) \in FiniteSets(Ends(Len(p.stops)))
         /\ \A f \in ExtendedBy(p, from, stop) :
              /\ f.place = stop /\ f.order = Append(from.order, stop)
              /\ EarliestFeasibleCandidate(from.at + p.min[<<from.place, stop>>], p.stops[stop]).feasible
              /\ f.at = EarliestFeasibleCandidate(from.at + p.min[<<from.place, stop>>], p.stops[stop]).start
                          + p.stops[stop].service
<1> DEFINE ev == EarliestFeasibleCandidate(from.at + p.min[<<from.place, stop>>], p.stops[stop])
           f == [at |-> ev.start + p.stops[stop].service, place |-> stop, order |-> Append(from.order, stop)]
<1>1. from.at \in Int /\ from.place \in 0 .. Len(p.stops) /\ from.order \in Seq(1 .. Len(p.stops))
  BY DEF Starts
<1>2. ev \in AppointmentSet /\ p.stops[stop].service \in Nat
  BY <1>1, CandidateTyped
<1>3. ExtendedBy(p, from, stop) = IF ev.feasible THEN {f} ELSE {}
  BY DEF ExtendedBy
<1> HIDE DEF ev
<1>4. ev.start \in Int
  BY <1>2 DEF AppointmentSet
<1>5. ev.start + p.stops[stop].service \in Int
  BY <1>2, <1>4
<1>6. Append(from.order, stop) \in Seq(1 .. Len(p.stops))
  BY <1>1
<1>7. f \in Ends(Len(p.stops))
  BY <1>5, <1>6 DEF Ends
<1>8. IsFiniteSet({f}) /\ IsFiniteSet({})
  BY FS_Singleton, FS_EmptySet
<1>9. ExtendedBy(p, from, stop) \in FiniteSets(Ends(Len(p.stops)))
  BY <1>3, <1>7, <1>8 DEF FiniteSets
<1>10. \A x \in ExtendedBy(p, from, stop) : x = f /\ ev.feasible
  BY <1>3
<1> QED BY <1>9, <1>10 DEF ev

(* The soonest of some witnesses is one of them, and none of them ends      *)
(* sooner.                                                                  *)
LEMMA SoonestIs ==
  ASSUME NEW n, NEW found \in FiniteSets(Ends(n))
  PROVE  /\ SoonestOf(found) \in FiniteSets(Ends(n)) /\ SoonestOf(found) \subseteq found
         /\ \A g \in found : \E f \in SoonestOf(found) : f.at <= g.at
<1>1. CASE found = {}
  BY <1>1, FS_EmptySet DEF SoonestOf, FiniteSets
<1>2. CASE found # {}
  <2> DEFINE at == [f \in found |-> f.at]
             ats == {at[f] : f \in found}
  <2>1. IsFiniteSet(ats)
    <3> HIDE DEF at
    <3> QED BY ImageIsFinite DEF FiniteSets
  <2>2. \A f \in found : f.at \in Int /\ at[f] = f.at
    BY DEF FiniteSets, Ends
  <2>3. ats # {} /\ ats \subseteq Int
    <3> HIDE DEF at
    <3> QED BY <1>2, <2>2
  <2>4. Least(ats) \in ats /\ \A y \in ats : Least(ats) <= y
    <3> HIDE DEF ats
    <3> QED BY <2>1, <2>3, LeastIs
  <2>5. PICK f \in found : at[f] = Least(ats)
    <3> HIDE DEF at
    <3> QED BY <2>4
  <2>6. \A g \in found : f.at <= g.at
    <3>1. \A g \in found : at[g] \in ats
      OBVIOUS
    <3> HIDE DEF at, ats
    <3> QED BY <2>2, <2>4, <2>5, <3>1
  <2> DEFINE c == CHOOSE x \in found : \A g \in found : x.at <= g.at
  <2>7. c \in found /\ \A g \in found : c.at <= g.at
    BY <2>6
  <2>8. SoonestOf(found) = {c}
    BY <1>2 DEF SoonestOf
  <2> HIDE DEF c
  <2>9. IsFiniteSet({c})
    BY FS_Singleton
  <2> QED BY <2>7, <2>8, <2>9 DEF FiniteSets
<1> QED BY <1>1, <1>2

(* Witnesses gathered from finitely many places are finitely many.          *)
LEMMA GatheredIs ==
  ASSUME NEW n, NEW S, IsFiniteSet(S), NEW f, \A x \in S : f[x] \in FiniteSets(Ends(n))
  PROVE  UNION {f[x] : x \in S} \in FiniteSets(Ends(n))
<1> DEFINE images == {f[x] : x \in S}
<1>1. IsFiniteSet(images) /\ \A y \in images : IsFiniteSet(y) /\ y \subseteq Ends(n)
  <2>1. IsFiniteSet(images)
    BY ImageIsFinite
  <2> QED BY <2>1 DEF FiniteSets
<1> HIDE DEF images
<1>2. IsFiniteSet(UNION images)
  BY <1>1, FS_UNION
<1>3. UNION images \subseteq Ends(n)
  BY <1>1
<1>4. UNION images \in FiniteSets(Ends(n))
  BY <1>2, <1>3 DEF FiniteSets
<1> QED BY <1>4 DEF images

(* The witness of a set of stops comes from an extension, and ends no       *)
(* later than any extension of what is known.                               *)
LEMMA OnwardTyped ==
  ASSUME NEW p, IsProblem(p), NEW s \in SUBSET Visits(p), NEW last \in s,
         NEW known, \A q \in s \ {last} : known[q] \in FiniteSets(Ends(Len(p.stops)))
  PROVE  /\ Onward(p, known, s, last) \in FiniteSets(Ends(Len(p.stops)))
         /\ \A f \in Onward(p, known, s, last) :
              IF s = {last} THEN f \in ExtendedBy(p, DepotStart(p), last)
              ELSE \E q \in s \ {last} : \E b \in known[q] : f \in ExtendedBy(p, b, last)
         /\ s # {last} =>
              \A q \in s \ {last} : \A b \in known[q] : \A g \in ExtendedBy(p, b, last) :
                \E f \in Onward(p, known, s, last) : f.at <= g.at
<1> DEFINE n == Len(p.stops)
           before == UNION {known[q] : q \in s \ {last}}
           ext == [f \in before |-> ExtendedBy(p, f, last)]
           found == UNION {ext[f] : f \in before}
<1>1. n \in Nat /\ Visits(p) = 1 .. n /\ last \in 1 .. n /\ p.leave \in Int
  BY ProblemIs DEF Visits
<1>2. IsFiniteSet(s \ {last})
  <2>1. IsFiniteSet(1 .. n)
    BY <1>1, FS_Interval
  <2>2. s \ {last} \subseteq 1 .. n
    BY <1>1
  <2> HIDE DEF n
  <2> QED BY <2>1, <2>2, FS_Subset
<1>3. before \in FiniteSets(Ends(n))
  <2>1. \A q \in s \ {last} : known[q] \in FiniteSets(Ends(n))
    OBVIOUS
  <2> DEFINE others == s \ {last}
  <2> HIDE DEF n, others
  <2>2. \A q \in others : known[q] \in FiniteSets(Ends(n))
    BY <2>1 DEF others
  <2>3. IsFiniteSet(others)
    BY <1>2 DEF others
  <2>4. UNION {known[q] : q \in others} \in FiniteSets(Ends(n))
    BY <2>2, <2>3, GatheredIs
  <2> QED BY <2>4 DEF others
<1>4. \A f \in before : f \in Starts(n)
  <2>1. Ends(n) \subseteq Starts(n)
    <3>1. 1 .. n \subseteq 0 .. n
      BY <1>1
    <3> QED BY <3>1 DEF Ends, Starts
  <2> HIDE DEF before
  <2> QED BY <1>3, <2>1 DEF FiniteSets
<1>5. \A f \in before : ext[f] = ExtendedBy(p, f, last) /\ ext[f] \in FiniteSets(Ends(n))
  <2> HIDE DEF before
  <2> QED BY <1>1, <1>4, ExtendedIs
<1>6. found \in FiniteSets(Ends(n))
  <2> HIDE DEF before, ext, n
  <2>1. IsFiniteSet(before)
    BY <1>3 DEF FiniteSets
  <2> QED BY <1>5, <2>1, GatheredIs
<1>7. DepotStart(p) \in Starts(n)
  BY <1>1 DEF DepotStart, Starts
<1>8. CASE s = {last}
  <2>1. Onward(p, known, s, last) = ExtendedBy(p, DepotStart(p), last)
    BY <1>8 DEF Onward
  <2>2. DepotStart(p) \in Starts(Len(p.stops)) /\ last \in 1 .. Len(p.stops)
    BY <1>1, <1>7
  <2>3. ExtendedBy(p, DepotStart(p), last) \in FiniteSets(Ends(Len(p.stops)))
    BY <2>2, ExtendedIs
  <2> QED BY <1>8, <2>1, <2>3
<1>9. CASE s # {last}
  <2>1. found = UNION {ExtendedBy(p, f, last) : f \in before}
    <3> HIDE DEF before
    <3> QED OBVIOUS
  <2>2. Onward(p, known, s, last) = SoonestOf(found)
    BY <1>9, <2>1 DEF Onward
  <2>3. /\ SoonestOf(found) \in FiniteSets(Ends(n)) /\ SoonestOf(found) \subseteq found
        /\ \A g \in found : \E f \in SoonestOf(found) : f.at <= g.at
    <3> HIDE DEF found, n
    <3> QED BY <1>6, SoonestIs
  <2>4. \A f \in found : \E q \in s \ {last} : \E b \in known[q] : f \in ExtendedBy(p, b, last)
    <3>1. \A f \in found : \E b \in before : f \in ExtendedBy(p, b, last)
      <4> HIDE DEF before, found
      <4> QED BY <2>1
    <3>2. \A b \in before : \E q \in s \ {last} : b \in known[q]
      OBVIOUS
    <3> HIDE DEF before, found
    <3> QED BY <3>1, <3>2
  <2>5. \A q \in s \ {last} : \A b \in known[q] : \A g \in ExtendedBy(p, b, last) : g \in found
    BY <2>1
  <2> HIDE DEF found
  <2> QED BY <1>9, <2>2, <2>3, <2>4, <2>5
<1> QED BY <1>8, <1>9

(* The table exists: the recursion of the fallback descends along the       *)
(* size of the sets of stops.                                               *)
LEMMA ReachExists ==
  ASSUME NEW p, IsProblem(p)
  PROVE  \E g : Reaches(p, g)
<1> DEFINE n == Len(p.stops)
           F == FiniteSets(Ends(n))
           D == SUBSET Visits(p)
           V == UNION {[s -> F] : s \in D}
           none == [last \in {} |-> {}]
           m == [s \in D |-> Cardinality(s)]
           Known(g, s) == \A last \in s : g[s \ {last}] \in [s \ {last} -> F]
           Phi == [gs \in [D -> V] \X D |->
                     IF Known(gs[1], gs[2])
                     THEN [last \in gs[2] |-> Onward(p, gs[1][gs[2] \ {last}], gs[2], last)]
                     ELSE [last \in gs[2] |-> {}]]
<1>1. n \in Nat /\ Visits(p) = 1 .. n
  BY ProblemIs DEF Visits
<1>2. IsFiniteSet(1 .. n) /\ Cardinality(1 .. n) = n
  BY <1>1, FS_Interval
<1>3. \A s \in D : IsFiniteSet(s) /\ Cardinality(s) \in Nat /\ Cardinality(s) <= n
  <2> SUFFICES ASSUME NEW s \in SUBSET (1 .. n) PROVE IsFiniteSet(s) /\ Cardinality(s) \in Nat /\ Cardinality(s) <= n
    BY <1>1
  <2> HIDE DEF n
  <2> QED BY <1>2, FS_Subset, FS_CardinalityType
<1>4. m \in [D -> Nat] /\ \A s \in D : m[s] <= n
  <2> HIDE DEF n, D
  <2> QED BY <1>3
<1>5. \A s \in D : \A last \in s : s \ {last} \in D /\ m[s \ {last}] < m[s]
  <2> SUFFICES ASSUME NEW s \in D, NEW last \in s PROVE s \ {last} \in D /\ m[s \ {last}] < m[s]
    OBVIOUS
  <2>1. s \ {last} \in D
    OBVIOUS
  <2>2. Cardinality(s \ {last}) = Cardinality(s) - 1
    BY <1>3, FS_RemoveElement
  <2>3. Cardinality(s) \in Nat
    BY <1>3
  <2> HIDE DEF D
  <2> QED BY <2>1, <2>2, <2>3
<1>6. none \in V
  <2>1. none \in [{} -> F] /\ {} \in D
    OBVIOUS
  <2> HIDE DEF none, F, D
  <2> QED BY <2>1
<1>7. \A s \in D : \A k : (\A last \in s : k[s \ {last}] \in [s \ {last} -> F]) =>
        [last \in s |-> Onward(p, k[s \ {last}], s, last)] \in [s -> F]
  <2> SUFFICES ASSUME NEW s \in D, NEW k, \A last \in s : k[s \ {last}] \in [s \ {last} -> F], NEW last \in s
               PROVE  Onward(p, k[s \ {last}], s, last) \in F
    OBVIOUS
  <2> DEFINE known == k[s \ {last}]
  <2>1. known \in [s \ {last} -> F]
    OBVIOUS
  <2> HIDE DEF known
  <2>2. \A q \in s \ {last} : known[q] \in FiniteSets(Ends(Len(p.stops)))
    BY <2>1
  <2>3. Onward(p, known, s, last) \in FiniteSets(Ends(Len(p.stops)))
    BY <2>2, OnwardTyped
  <2> QED BY <2>3 DEF known
<1>8. {} \in F
  BY FS_EmptySet DEF FiniteSets
<1>9. Phi \in [[D -> V] \X D -> V]
  <2> SUFFICES ASSUME NEW k \in [D -> V], NEW s \in D
               PROVE  (IF Known(k, s) THEN [last \in s |-> Onward(p, k[s \ {last}], s, last)]
                       ELSE [last \in s |-> {}]) \in V
    <3> HIDE DEF D, V, Known
    <3> QED OBVIOUS
  <2>1. \A f \in [s -> F] : f \in V
    <3> HIDE DEF F, D
    <3> QED OBVIOUS
  <2>2. [last \in s |-> {}] \in [s -> F]
    <3> HIDE DEF F
    <3> QED BY <1>8
  <2>3. Known(k, s) => [last \in s |-> Onward(p, k[s \ {last}], s, last)] \in [s -> F]
    BY <1>7
  <2> HIDE DEF Known, V, F, D
  <2> QED BY <2>1, <2>2, <2>3
<1>10. \A g, h \in [D -> V], s \in D :
         (\A u \in D : m[u] < m[s] => g[u] = h[u]) => Phi[<<g, s>>] = Phi[<<h, s>>]
  <2> SUFFICES ASSUME NEW g \in [D -> V], NEW h \in [D -> V], NEW s \in D,
                      \A u \in D : m[u] < m[s] => g[u] = h[u]
               PROVE  Phi[<<g, s>>] = Phi[<<h, s>>]
    <3> HIDE DEF D, V, Phi, m
    <3> QED OBVIOUS
  <2> HIDE DEF m, V
  <2>1. \A last \in s : g[s \ {last}] = h[s \ {last}]
    <3> HIDE DEF D
    <3> QED BY <1>5
  <2>2. Known(g, s) <=> Known(h, s)
    BY <2>1
  <2>3. [last \in s |-> Onward(p, g[s \ {last}], s, last)] = [last \in s |-> Onward(p, h[s \ {last}], s, last)]
    BY <2>1
  <2> HIDE DEF Known, D
  <2> QED BY <2>2, <2>3
<1>11. Descends(D, V, none, m, n, Phi)
  <2> HIDE DEF D, V, none, m, n, Phi
  <2> QED BY <1>1, <1>4, <1>6, <1>9, <1>10 DEF Descends
<1>12. Solvable(D, V, Phi)
  <2> HIDE DEF D, V, none, m, n, Phi
  <2> QED BY <1>11, MeasuredRecursion
<1>13. PICK g \in [D -> V] : \A s \in D : g[s] = Phi[<<g, s>>]
  <2> HIDE DEF D, V, Phi
  <2> QED BY <1>12 DEF Solvable
<1>14. \A s \in D : g[s] = IF Known(g, s) THEN [last \in s |-> Onward(p, g[s \ {last}], s, last)]
                           ELSE [last \in s |-> {}]
  <2> SUFFICES ASSUME NEW s \in D
               PROVE  g[s] = IF Known(g, s) THEN [last \in s |-> Onward(p, g[s \ {last}], s, last)]
                             ELSE [last \in s |-> {}]
    OBVIOUS
  <2> HIDE DEF D, V, Known
  <2>1. <<g, s>> \in [D -> V] \X D
    OBVIOUS
  <2>2. g[s] = Phi[<<g, s>>]
    <3> HIDE DEF Phi
    <3> QED BY <1>13
  <2>3. Phi[<<g, s>>] = IF Known(g, s) THEN [last \in s |-> Onward(p, g[s \ {last}], s, last)]
                        ELSE [last \in s |-> {}]
    BY <2>1
  <2> HIDE DEF Phi
  <2> QED BY <2>2, <2>3
<1> DEFINE T == {s \in D : g[s] \in [s -> F]}
<1>15. \A s \in SUBSET (1 .. n) : s \in T
  <2>1. ASSUME NEW s \in SUBSET (1 .. n), \A u \in SUBSET s : u # s => u \in T PROVE s \in T
    <3>1. s \in D /\ \A last \in s : s \ {last} \in SUBSET s /\ s \ {last} # s
      BY <1>1
    <3>2. \A last \in s : s \ {last} \in T
      BY <2>1, <3>1
    <3>3. Known(g, s)
      BY <3>2
    <3>4. g[s] = [last \in s |-> Onward(p, g[s \ {last}], s, last)]
      <4> HIDE DEF Known, D
      <4> QED BY <1>14, <3>1, <3>3
    <3>5. g[s] \in [s -> F]
      <4>1. \A last \in s : g[s \ {last}] \in [s \ {last} -> F]
        BY <3>3
      <4> HIDE DEF F, D, Known
      <4>2. [last \in s |-> Onward(p, g[s \ {last}], s, last)] \in [s -> F]
        BY <1>7, <3>1, <4>1
      <4> QED BY <3>4, <4>2
    <3> QED BY <3>1, <3>5
  <2> HIDE DEF T, n
  <2> QED BY <1>2, <2>1, FiniteInduction
<1>16. \A s \in D : Known(g, s)
  BY <1>1, <1>15
<1>17. \A s \in D : g[s] = [last \in s |-> Onward(p, g[s \ {last}], s, last)]
  <2> HIDE DEF Known, D
  <2> QED BY <1>14, <1>16
<1>18. g = [s \in D |-> g[s]]
  <2> HIDE DEF D, V
  <2> QED BY <1>13
<1>19. g = [s \in D |-> [last \in s |-> Onward(p, g[s \ {last}], s, last)]]
  <2> HIDE DEF D
  <2> QED BY <1>17, <1>18
<1> QED BY <1>19 DEF Reaches

(* The fallback reads its orders off such a table.                          *)
LEMMA FallbackReaches ==
  ASSUME NEW p, IsProblem(p)
  PROVE  \E g : /\ Reaches(p, g)
                /\ FallbackOrders(p) = {f.order : f \in UNION {g[Visits(p)][last] : last \in Visits(p)}}
<1> DEFINE reach == CHOOSE g : Reaches(p, g)
<1>1. Reaches(p, reach)
  BY ReachExists
<1>2. FallbackOrders(p) = {f.order : f \in UNION {reach[Visits(p)][last] : last \in Visits(p)}}
  BY DEF FallbackOrders, Reaches, Onward, ExtendedBy, SoonestOf, DepotStart
<1> QED BY <1>1, <1>2

(* A witness is sound: its order names exactly the stops of the set and,    *)
(* without breaks, it ends when and where the canonical run of that order   *)
(* ends, with no window missed.                                             *)
Witnesses(p, f, s) ==
  /\ f \in Starts(Len(p.stops)) /\ Len(f.order) = Cardinality(s) /\ Range(f.order) = s
  /\ Len(p.breaks) = 0 =>
       /\ Visited(p, f.order, FALSE).at = f.at /\ Visited(p, f.order, FALSE).place = f.place
       /\ Visited(p, f.order, FALSE).broken = 0

(* The route that has not left is a sound witness of no stop.               *)
LEMMA DepotWitnesses ==
  ASSUME NEW p, IsProblem(p)
  PROVE  Witnesses(p, DepotStart(p), {})
<1>1. Len(p.stops) \in Nat /\ p.leave \in Int
  BY ProblemIs
<1>2. DepotStart(p) \in Starts(Len(p.stops))
  BY <1>1 DEF DepotStart, Starts
<1>3. DepotStart(p).order = <<>> /\ DepotStart(p).at = p.leave /\ DepotStart(p).place = 0
  BY DEF DepotStart
<1>4. Len(<<>>) = 0 /\ Range(<<>>) = {}
  BY DEF Range
<1>5. Visited(p, <<>>, FALSE) = AtDepot(p)
  BY VisitedNothing
<1>6. AtDepot(p).at = p.leave /\ AtDepot(p).place = 0 /\ AtDepot(p).broken = 0
  BY DEF AtDepot
<1> QED BY <1>2, <1>3, <1>4, <1>5, <1>6, FS_EmptySet DEF Witnesses

(* An extension of a sound witness is sound.                                *)
LEMMA ExtensionWitnesses ==
  ASSUME NEW p, IsProblem(p), NEW s \in SUBSET Visits(p), NEW last \in s, NEW b,
         Witnesses(p, b, s \ {last}), NEW f \in ExtendedBy(p, b, last)
  PROVE  Witnesses(p, f, s) /\ f.place = last
<1> DEFINE n == Len(p.stops)
           reached == b.at + p.min[<<b.place, last>>]
           ev == EarliestFeasibleCandidate(reached, p.stops[last])
           cv == EvaluateCandidate(reached, p.stops[last])
<1>1. n \in Nat /\ Visits(p) = 1 .. n /\ last \in 1 .. n
  BY ProblemIs DEF Visits
<1>2. b \in Starts(n) /\ b.order \in Seq(1 .. n) /\ b.at \in Int /\ b.place \in 0 .. n
  BY DEF Witnesses, Starts
<1>3. /\ f \in Ends(n) /\ f.place = last /\ f.order = Append(b.order, last)
      /\ ev.feasible /\ f.at = ev.start + p.stops[last].service
  BY <1>1, <1>2, ExtendedIs DEF FiniteSets
<1>4. f \in Starts(n)
  <2>1. 1 .. n \subseteq 0 .. n
    BY <1>1
  <2> QED BY <1>3, <2>1 DEF Ends, Starts
<1>5. /\ Len(f.order) = Len(b.order) + 1 /\ Range(f.order) = Range(b.order) \cup {last}
  BY <1>1, <1>2, <1>3, RangeOfAppend
<1>6. IsFiniteSet(s) /\ Cardinality(s) \in Nat
  <2>1. IsFiniteSet(1 .. n) /\ s \subseteq 1 .. n
    BY <1>1, FS_Interval
  <2> QED BY <2>1, FS_Subset, FS_CardinalityType
<1>7. Cardinality(s \ {last}) = Cardinality(s) - 1
  BY <1>6, FS_RemoveElement
<1>8. Len(f.order) = Cardinality(s) /\ Range(f.order) = s
  BY <1>5, <1>6, <1>7 DEF Witnesses
<1>9. ASSUME Len(p.breaks) = 0
      PROVE  /\ Visited(p, f.order, FALSE).at = f.at /\ Visited(p, f.order, FALSE).place = f.place
             /\ Visited(p, f.order, FALSE).broken = 0
  <2> DEFINE run == Visited(p, b.order, FALSE)
  <2>1. run \in RunSet(n) /\ Visited(p, f.order, FALSE) = Visit(p, FALSE, run, last)
    BY <1>1, <1>2, <1>3, VisitedAppends
  <2>2. run.at = b.at /\ run.place = b.place /\ run.broken = 0
    BY <1>9 DEF Witnesses
  <2> HIDE DEF run
  <2>3. cv = EvaluateCandidate(run.at + p.min[<<run.place, last>>], p.stops[last])
    BY <2>2
  <2>4. reached \in Int /\ IsStop(p.stops[last]) /\ p.stops[last].service \in Nat
    BY <1>1, <1>2, CandidateTyped
  <2>5. cv \in AppointmentSet /\ ev \in AppointmentSet
    BY <1>1, <1>2, CandidateTyped
  <2> HIDE DEF reached
  <2>6. Serves(cv, reached, p.stops[last]) /\ Serves(ev, reached, p.stops[last])
    BY <2>4, CandidatesServe
  <2> HIDE DEF cv, ev
  <2>7. cv.feasible
    BY <1>3, <2>6 DEF Serves
  <2>8. cv.start <= ev.start /\ ev.start <= cv.start
    BY <1>3, <2>4, <2>6, <2>7, SoonerServes
  <2>9. cv.start = ev.start
    BY <2>5, <2>8 DEF AppointmentSet
  <2>10. /\ Visit(p, FALSE, run, last).at = cv.start + p.stops[last].service
         /\ Visit(p, FALSE, run, last).place = last
         /\ Visit(p, FALSE, run, last).broken = run.broken + (IF cv.feasible THEN 0 ELSE 1)
    <3>1. run \in RunSet(Len(p.stops)) /\ last \in 1 .. Len(p.stops) /\ Len(p.breaks) = 0
      BY <1>1, <1>9, <2>1
    <3>2. VisitsPlainly(p, run, last)
      BY <3>1, PlainVisit
    <3> QED BY <2>3, <3>2 DEF VisitsPlainly
  <2>11. /\ Visited(p, f.order, FALSE).at = cv.start + p.stops[last].service
         /\ Visited(p, f.order, FALSE).place = last /\ Visited(p, f.order, FALSE).broken = 0
    <3>1. run.broken + (IF cv.feasible THEN 0 ELSE 1) = 0
      BY <2>2, <2>7
    <3> QED BY <2>1, <2>10, <3>1
  <2>12. f.at = cv.start + p.stops[last].service
    BY <1>3, <2>9
  <2>13. f.place = last
    BY <1>3
  <2> QED BY <2>11, <2>12, <2>13
<1> QED BY <1>3, <1>4, <1>8, <1>9 DEF Witnesses

(* Every witness of a set of stops is sound.                                *)
KnownWitnesses(p, g, s) ==
  \A last \in s : /\ g[s][last] \in FiniteSets(Ends(Len(p.stops)))
                  /\ \A f \in g[s][last] : Witnesses(p, f, s) /\ f.place = last

(* All the witnesses of the table are sound.                                *)
LEMMA ReachWitnesses ==
  ASSUME NEW p, IsProblem(p), NEW g, Reaches(p, g)
  PROVE  \A s \in SUBSET Visits(p) : KnownWitnesses(p, g, s)
<1> DEFINE n == Len(p.stops)
           T == {s \in SUBSET Visits(p) : KnownWitnesses(p, g, s)}
<1>1. n \in Nat /\ Visits(p) = 1 .. n /\ IsFiniteSet(Visits(p))
  <2>1. n \in Nat /\ Visits(p) = 1 .. n
    BY ProblemIs DEF Visits
  <2>2. IsFiniteSet(1 .. n)
    BY <2>1, FS_Interval
  <2> QED BY <2>1, <2>2
<1>2. ASSUME NEW s \in SUBSET Visits(p), \A u \in SUBSET s : u # s => u \in T PROVE s \in T
  <2> SUFFICES ASSUME NEW last \in s
               PROVE  /\ g[s][last] \in FiniteSets(Ends(Len(p.stops)))
                      /\ \A f \in g[s][last] : Witnesses(p, f, s) /\ f.place = last
    BY DEF KnownWitnesses
  <2>1. s \ {last} \in T /\ s \ {last} \in SUBSET s
    BY <1>2
  <2> DEFINE known == g[s \ {last}]
  <2>2. g[s][last] = Onward(p, known, s, last)
    <3>1. g[s] = [q \in s |-> Onward(p, g[s \ {q}], s, q)]
      BY DEF Reaches
    <3> QED BY <3>1
  <2>3. \A q \in s \ {last} : /\ known[q] \in FiniteSets(Ends(Len(p.stops)))
                              /\ \A f \in known[q] : Witnesses(p, f, s \ {last}) /\ f.place = q
    BY <2>1 DEF KnownWitnesses
  <2> HIDE DEF known
  <2>4. /\ Onward(p, known, s, last) \in FiniteSets(Ends(Len(p.stops)))
        /\ \A f \in Onward(p, known, s, last) :
             IF s = {last} THEN f \in ExtendedBy(p, DepotStart(p), last)
             ELSE \E q \in s \ {last} : \E b \in known[q] : f \in ExtendedBy(p, b, last)
    BY <2>3, OnwardTyped
  <2>5. ASSUME NEW f \in Onward(p, known, s, last) PROVE Witnesses(p, f, s) /\ f.place = last
    <3>1. CASE s = {last}
      <4>1. s \ {last} = {} /\ Witnesses(p, DepotStart(p), s \ {last})
        BY <3>1, DepotWitnesses
      <4>2. f \in ExtendedBy(p, DepotStart(p), last)
        BY <2>4, <3>1
      <4> QED BY <4>1, <4>2, ExtensionWitnesses
    <3>2. CASE s # {last}
      <4>1. PICK q \in s \ {last} : \E b \in known[q] : f \in ExtendedBy(p, b, last)
        BY <2>4, <3>2
      <4>2. PICK b \in known[q] : f \in ExtendedBy(p, b, last)
        BY <4>1
      <4>3. Witnesses(p, b, s \ {last})
        BY <2>3
      <4> QED BY <4>2, <4>3, ExtensionWitnesses
    <3> QED BY <3>1, <3>2
  <2> QED BY <2>2, <2>4, <2>5
<1>3. \A s \in SUBSET Visits(p) : s \in T
  <2> HIDE DEF T
  <2> QED BY <1>1, <1>2, FiniteInduction
<1> QED BY <1>3

(* The fallback proposes orders of all the stops, each of them once.        *)
LEMMA FallbackAreOrders ==
  ASSUME NEW p, IsProblem(p)
  PROVE  FallbackOrders(p) \subseteq OrdersOf(Visits(p))
<1>1. PICK g : /\ Reaches(p, g)
               /\ FallbackOrders(p) = {f.order : f \in UNION {g[Visits(p)][last] : last \in Visits(p)}}
  BY FallbackReaches
<1>2. KnownWitnesses(p, g, Visits(p))
  BY <1>1, ReachWitnesses
<1>3. Len(p.stops) \in Nat /\ Visits(p) = 1 .. Len(p.stops)
  BY ProblemIs DEF Visits
<1>4. Cardinality(1 .. Len(p.stops)) = Len(p.stops)
  BY <1>3, FS_Interval
<1>5. ASSUME NEW last \in Visits(p), NEW f \in g[Visits(p)][last] PROVE f.order \in OrdersOf(Visits(p))
  <2>1. Witnesses(p, f, Visits(p))
    BY <1>2 DEF KnownWitnesses
  <2>2. f.order \in Seq(1 .. Len(p.stops)) /\ Len(f.order) = Len(p.stops) /\ Range(f.order) = 1 .. Len(p.stops)
    BY <1>3, <1>4, <2>1 DEF Witnesses, Starts
  <2>3. f.order \in OrdersOf(1 .. Len(p.stops))
    BY <1>3, <2>2, OrdersAre
  <2> QED BY <1>3, <2>3
<1> QED BY <1>1, <1>5

-----------------------------------------------------------------------------
(* A visit misses one window more, or none.                                 *)
LEMMA BrokenIs ==
  ASSUME NEW p, IsProblem(p), Len(p.breaks) = 0, NEW run \in RunSet(Len(p.stops)), NEW x \in 1 .. Len(p.stops)
  PROVE  \/ Visit(p, FALSE, run, x).broken = run.broken
         \/ Visit(p, FALSE, run, x).broken = run.broken + 1
<1> DEFINE ev == EvaluateCandidate(run.at + p.min[<<run.place, x>>], p.stops[x])
<1>1. VisitsPlainly(p, run, x)
  BY PlainVisit
<1>2. Visit(p, FALSE, run, x).broken = run.broken + (IF ev.feasible THEN 0 ELSE 1)
  BY <1>1 DEF VisitsPlainly
<1>3. run.broken \in Int
  BY DEF RunSet
<1>6. ev.feasible \in BOOLEAN
  <2>1. run.at \in Int /\ run.place \in 0 .. Len(p.stops)
    BY DEF RunSet
  <2>2. ev \in AppointmentSet
    BY <2>1, CandidateTyped
  <2> HIDE DEF ev
  <2> QED BY <2>2 DEF AppointmentSet
<1> HIDE DEF ev
<1> DEFINE b == ev.feasible
           next == Visit(p, FALSE, run, x).broken
           old == run.broken
<1>7. b \in BOOLEAN /\ old \in Int /\ next = old + (IF b THEN 0 ELSE 1)
  BY <1>2, <1>3, <1>6
<1> HIDE DEF b, next, old
<1>4. CASE b = TRUE
  <2>1. next = old
    BY <1>7, <1>4
  <2> QED BY <2>1 DEF next, old
<1>5. CASE b = FALSE
  <2>1. next = old + 1
    BY <1>7, <1>5
  <2> QED BY <2>1 DEF next, old
<1>8. b = TRUE \/ b = FALSE
  BY <1>7
<1> QED BY <1>4, <1>5, <1>8

(* If a run misses no window at its next stop, a witness that is no         *)
(* later, at the same place, can be extended by that stop, and ends no      *)
(* later.                                                                   *)
LEMMA ExtendsSooner ==
  ASSUME NEW p, IsProblem(p), Len(p.breaks) = 0, NEW run \in RunSet(Len(p.stops)), NEW x \in 1 .. Len(p.stops),
         NEW b \in Starts(Len(p.stops)), b.at <= run.at, b.place = run.place,
         Visit(p, FALSE, run, x).broken = run.broken
  PROVE  /\ Visit(p, FALSE, run, x).place = x
         /\ \E f \in ExtendedBy(p, b, x) : f.at <= Visit(p, FALSE, run, x).at
<1> DEFINE soon == b.at + p.min[<<b.place, x>>]
           late == run.at + p.min[<<run.place, x>>]
           ev == EarliestFeasibleCandidate(soon, p.stops[x])
           cv == EvaluateCandidate(late, p.stops[x])
<1>1. b.at \in Int /\ b.place \in 0 .. Len(p.stops) /\ run.at \in Int /\ run.broken \in Int
  BY DEF Starts, RunSet
<1>2. /\ p.min[<<b.place, x>>] \in Nat /\ soon \in Int /\ ev \in AppointmentSet
      /\ IsStop(p.stops[x]) /\ p.stops[x].service \in Nat
  BY <1>1, CandidateTyped
<1>3. late \in Int /\ soon <= late
  BY <1>1, <1>2
<1>4. cv \in AppointmentSet
  BY <1>1, CandidateTyped
<1>5. VisitsPlainly(p, run, x)
  BY PlainVisit
<1>6. /\ Visit(p, FALSE, run, x).at = cv.start + p.stops[x].service /\ Visit(p, FALSE, run, x).place = x
      /\ Visit(p, FALSE, run, x).broken = run.broken + (IF cv.feasible THEN 0 ELSE 1)
  BY <1>5 DEF VisitsPlainly
<1>7. ExtendedBy(p, b, x) = IF ev.feasible THEN {[at |-> ev.start + p.stops[x].service, place |-> x,
                                                  order |-> Append(b.order, x)]} ELSE {}
  BY DEF ExtendedBy
<1> HIDE DEF soon, late
<1>8. Serves(ev, soon, p.stops[x]) /\ Serves(cv, late, p.stops[x])
  BY <1>2, <1>3, CandidatesServe
<1> HIDE DEF ev, cv
<1>9. cv.feasible
  <2> DEFINE met == cv.feasible
             old == run.broken
  <2>1. met \in BOOLEAN /\ old \in Int /\ old = old + (IF met THEN 0 ELSE 1)
    BY <1>1, <1>4, <1>6 DEF AppointmentSet
  <2> HIDE DEF met, old
  <2>2. met
    BY <2>1
  <2> QED BY <2>2 DEF met
<1>10. ev.feasible /\ ev.start <= cv.start
  BY <1>2, <1>3, <1>8, <1>9, SoonerServes
<1>11. ev.start + p.stops[x].service <= cv.start + p.stops[x].service
  BY <1>2, <1>4, <1>10 DEF AppointmentSet
<1> DEFINE f == [at |-> ev.start + p.stops[x].service, place |-> x, order |-> Append(b.order, x)]
<1>12. f \in ExtendedBy(p, b, x) /\ f.at = ev.start + p.stops[x].service
  BY <1>7, <1>10
<1> HIDE DEF f
<1> QED BY <1>6, <1>11, <1>12

(* The first k stops of an order.                                           *)
Prefix(o, k) == {o[i] : i \in 1 .. k}

(* An order names no stop twice, so a stop is not among those before it.    *)
LEMMA PrefixIs ==
  ASSUME NEW n \in Nat, NEW o \in OrdersOf(1 .. n)
  PROVE  /\ Prefix(o, n) = 1 .. n
         /\ \A i, j \in 1 .. n : o[i] = o[j] => i = j
         /\ \A k \in 1 .. n : /\ Prefix(o, k) \in SUBSET (1 .. n) /\ o[k] \in Prefix(o, k)
                              /\ Prefix(o, k) \ {o[k]} = Prefix(o, k - 1)
                              /\ k > 1 => o[k - 1] \in Prefix(o, k) \ {o[k]}
         /\ 1 \in 1 .. n => Prefix(o, 1) = {o[1]}
<1>1. IsFiniteSet(1 .. n) /\ Cardinality(1 .. n) = n
  BY FS_Interval
<1>2. o \in [1 .. n -> 1 .. n] /\ Range(o) = 1 .. n
  BY <1>1 DEF OrdersOf
<1>3. \A t \in 1 .. n : \E s \in 1 .. n : o[s] = t
  BY <1>2 DEF Range
<1>4. o \in Surjection(1 .. n, 1 .. n)
  BY <1>2, <1>3 DEF Surjection
<1>5. o \in Injection(1 .. n, 1 .. n)
  BY <1>1, <1>4, FS_SurjSameCardinalityImpliesInj
<1>6. \A i, j \in 1 .. n : o[i] = o[j] => i = j
  BY <1>2, <1>5 DEF Injection, IsInjective
<1>7. Prefix(o, n) = 1 .. n
  BY <1>2, <1>3 DEF Prefix
<1>8. ASSUME NEW k \in 1 .. n
      PROVE  /\ Prefix(o, k) \in SUBSET (1 .. n) /\ o[k] \in Prefix(o, k)
             /\ Prefix(o, k) \ {o[k]} = Prefix(o, k - 1)
             /\ k > 1 => o[k - 1] \in Prefix(o, k) \ {o[k]}
  <2>1. \A i \in 1 .. k : i \in 1 .. n /\ (i = k \/ i \in 1 .. k - 1)
    OBVIOUS
  <2>2. k \in 1 .. k /\ \A i \in 1 .. k - 1 : i \in 1 .. k /\ i # k /\ i \in 1 .. n
    OBVIOUS
  <2>3. Prefix(o, k) \in SUBSET (1 .. n) /\ o[k] \in Prefix(o, k)
    BY <1>2, <2>1, <2>2 DEF Prefix
  <2>4. Prefix(o, k) \ {o[k]} = Prefix(o, k - 1)
    BY <1>6, <2>1, <2>2 DEF Prefix
  <2>5. k > 1 => o[k - 1] \in Prefix(o, k - 1)
    <3>1. k > 1 => k - 1 \in 1 .. k - 1
      OBVIOUS
    <3> QED BY <3>1 DEF Prefix
  <2> QED BY <2>3, <2>4, <2>5
<1>9. Prefix(o, 1) = {o[1]}
  <2>1. \A i : i \in 1 .. 1 <=> i = 1
    OBVIOUS
  <2> QED BY <2>1 DEF Prefix
<1> QED BY <1>6, <1>7, <1>8, <1>9

(* No order without a missed window ends sooner than the witness of its     *)
(* stops, at each of its prefixes.                                          *)
LEMMA ReachIsSoonest ==
  ASSUME NEW p, IsProblem(p), Len(p.breaks) = 0, NEW g, Reaches(p, g), NEW o \in OrdersOf(Visits(p)),
         NEW h, RunOf(h, p, o, FALSE)
  PROVE  \A k \in 1 .. Len(p.stops) :
           /\ 0 <= h[k].broken
           /\ h[k].broken = 0 => h[k].place = o[k] /\ \E f \in g[Prefix(o, k)][o[k]] : f.at <= h[k].at
<1> DEFINE n == Len(p.stops)
           Good(k) == k = 0 \/ (h[k].place = o[k] /\ \E f \in g[Prefix(o, k)][o[k]] : f.at <= h[k].at)
           T == {k \in Nat : k <= n => 0 <= h[k].broken /\ (h[k].broken = 0 => Good(k))}
<1>1. n \in Nat /\ Visits(p) = 1 .. n
  BY ProblemIs DEF Visits
<1>2. o \in Seq(1 .. n) /\ Len(o) = n
  BY <1>1, OrdersAre
<1>3. \A k \in 0 .. n : h[k] \in RunSet(n)
  BY <1>2 DEF RunOf
<1>4. h[0] = AtDepot(p) /\ \A k \in 1 .. n : h[k] = Visit(p, FALSE, h[k - 1], o[k])
  BY <1>2 DEF RunOf
<1>5. 0 \in T
  <2>1. h[0].broken = 0
    BY <1>4 DEF AtDepot
  <2> QED BY <2>1
<1>6. ASSUME NEW k \in Nat, k \in T PROVE k + 1 \in T
  <2> SUFFICES ASSUME k + 1 <= n
               PROVE  0 <= h[k + 1].broken /\ (h[k + 1].broken = 0 => Good(k + 1))
    OBVIOUS
  <2> DEFINE x == o[k + 1]
             run == h[k]
             s == Prefix(o, k + 1)
  <2>1. k + 1 \in 1 .. n /\ k \in 0 .. n /\ (k + 1) - 1 = k
    BY <1>1
  <2>2. x \in 1 .. n /\ run \in RunSet(n) /\ h[k + 1] = Visit(p, FALSE, run, x)
    <3>1. x \in 1 .. n
      BY <1>2, <2>1
    <3>2. run \in RunSet(n)
      BY <1>3, <2>1
    <3>3. h[k + 1] = Visit(p, FALSE, h[(k + 1) - 1], o[k + 1])
      BY <1>4, <2>1
    <3> QED BY <2>1, <3>1, <3>2, <3>3
  <2>3. 0 <= run.broken /\ (run.broken = 0 => Good(k)) /\ run.broken \in Int
    BY <1>6, <2>1, <2>2 DEF RunSet
  <2>4. s \in SUBSET Visits(p) /\ x \in s /\ s \ {x} = Prefix(o, k)
    BY <1>1, <2>1, PrefixIs
  <2> DEFINE next == Visit(p, FALSE, run, x)
  <2> HIDE DEF x, run
  <2>5. next.broken = run.broken \/ next.broken = run.broken + 1
    BY <2>2, BrokenIs
  <2>6. 0 <= next.broken /\ (next.broken = 0 => run.broken = 0 /\ next.broken = run.broken)
    <3> HIDE DEF next
    <3> QED BY <2>3, <2>5
  <2>7. ASSUME next.broken = 0 PROVE next.place = x /\ \E f \in g[s][x] : f.at <= next.at
    <3>1. run.broken = 0 /\ next.broken = run.broken /\ Good(k)
      BY <2>3, <2>6, <2>7
    <3>2. \A b \in Starts(n) : b.at <= run.at /\ b.place = run.place =>
            next.place = x /\ \E f \in ExtendedBy(p, b, x) : f.at <= next.at
      BY <2>2, <3>1, ExtendsSooner
    <3> DEFINE known == g[s \ {x}]
    <3> HIDE DEF s, next
    <3>3. g[s][x] = Onward(p, known, s, x)
      <4>1. g[s] = [q \in s |-> Onward(p, g[s \ {q}], s, q)]
        BY <2>4 DEF Reaches
      <4> QED BY <2>4, <4>1
    <3>4. \A q \in s \ {x} : /\ known[q] \in FiniteSets(Ends(n))
                             /\ \A f \in known[q] : Witnesses(p, f, s \ {x}) /\ f.place = q
      <4>1. KnownWitnesses(p, g, s \ {x})
        BY <2>4, ReachWitnesses
      <4> QED BY <4>1 DEF KnownWitnesses
    <3>5. CASE k = 0
      <4>1. s = {x}
        BY <1>1, <2>1, <3>5, PrefixIs DEF s, x
      <4>2. Witnesses(p, DepotStart(p), {})
        BY DepotWitnesses
      <4>3. DepotStart(p) \in Starts(n) /\ DepotStart(p).at = p.leave /\ DepotStart(p).place = 0
        BY <4>2 DEF Witnesses, DepotStart
      <4>4. run.at = p.leave /\ run.place = 0 /\ p.leave \in Int
        BY <1>4, <3>5, ProblemIs DEF AtDepot, run
      <4>5. next.place = x /\ \E f \in ExtendedBy(p, DepotStart(p), x) : f.at <= next.at
        BY <3>2, <4>3, <4>4
      <4>6. g[s][x] = ExtendedBy(p, DepotStart(p), x)
        BY <3>3, <4>1 DEF Onward
      <4> QED BY <4>5, <4>6
    <3>6. CASE k # 0
      <4>1. k \in 1 .. n /\ k + 1 > 1
        BY <2>1, <3>6
      <4>2. o[k] \in s \ {x}
        BY <1>1, <2>1, <4>1, PrefixIs DEF s, x
      <4>3. PICK b \in known[o[k]] : b.at <= run.at
        BY <2>4, <3>1, <3>6 DEF run
      <4>4. run.place = o[k]
        BY <3>1, <3>6 DEF run
      <4> HIDE DEF known
      <4>5. b \in Starts(n) /\ b.place = o[k]
        BY <3>4, <4>2 DEF Witnesses
      <4>6. next.place = x
        BY <3>2, <4>3, <4>4, <4>5
      <4>7. PICK e \in ExtendedBy(p, b, x) : e.at <= next.at
        BY <3>2, <4>3, <4>4, <4>5
      <4>8. s # {x}
        BY <4>2
      <4>9. /\ Onward(p, known, s, x) \in FiniteSets(Ends(Len(p.stops)))
            /\ s # {x} =>
              \A q \in s \ {x} : \A c \in known[q] : \A d \in ExtendedBy(p, c, x) :
                \E f \in Onward(p, known, s, x) : f.at <= d.at
        BY <2>4, <3>4, OnwardTyped
      <4>10. PICK f \in Onward(p, known, s, x) : f.at <= e.at
        BY <4>2, <4>8, <4>9
      <4>11. f.at \in Int
        BY <4>9 DEF FiniteSets, Ends
      <4>12. e.at \in Int
        <5>1. ExtendedBy(p, b, x) \in FiniteSets(Ends(Len(p.stops)))
          BY <2>2, <4>5, ExtendedIs
        <5> QED BY <5>1 DEF FiniteSets, Ends
      <4>13. next.at \in Int
        <5>1. next \in RunSet(n)
          BY <2>1, <2>2, <1>3, VisitTyped DEF next
        <5> QED BY <5>1 DEF RunSet
      <4>14. f.at <= next.at
        BY <4>7, <4>10, <4>11, <4>12, <4>13
      <4> QED BY <3>3, <4>6, <4>10, <4>14
    <3> QED BY <3>5, <3>6
  <2>8. h[k + 1] = next
    BY <2>2
  <2> HIDE DEF next
  <2>9. h[k + 1].broken = 0 => Good(k + 1)
    BY <2>7, <2>8 DEF x
  <2> QED BY <2>6, <2>8, <2>9
<1>7. Nat \subseteq T
  <2> HIDE DEF T
  <2> QED BY <1>5, <1>6, NatSet
<1>8. ASSUME NEW k \in 1 .. n
      PROVE  /\ 0 <= h[k].broken
             /\ h[k].broken = 0 => h[k].place = o[k] /\ \E f \in g[Prefix(o, k)][o[k]] : f.at <= h[k].at
  <2>1. k \in Nat /\ k <= n /\ k # 0
    BY <1>1
  <2>2. 0 <= h[k].broken /\ (h[k].broken = 0 => Good(k))
    <3> HIDE DEF Good
    <3> QED BY <1>7, <2>1
  <2> QED BY <2>1, <2>2
<1> QED BY <1>8

(* The road home, without breaks, takes its duration and misses no          *)
(* window.                                                                  *)
LEMMA HomeIs ==
  ASSUME NEW p, IsProblem(p), Len(p.breaks) = 0, NEW order, order # <<>>, NEW run \in RunSet(Len(p.stops))
  PROVE  /\ Back(p, order, run).broken = run.broken
         /\ p.back => Back(p, order, run).at = run.at + p.min[<<run.place, 0>>]
         /\ ~p.back => Back(p, order, run).at = run.at
<1>1. run.at \in Int /\ run.place \in 0 .. Len(p.stops)
  BY DEF RunSet
<1>2. Len(p.stops) \in Nat /\ p.breaks \in Seq(WindowSet)
  BY ProblemIs
<1>3. 0 \in 0 .. Len(p.stops)
  BY <1>2
<1>4. p.min[<<run.place, 0>>] \in Int
  BY <1>1, <1>3, ProblemIs
<1>5. TravelEnd(run.at, p.min[<<run.place, 0>>], p.breaks) = run.at + p.min[<<run.place, 0>>]
  BY <1>1, <1>2, <1>4, PlainDrive
<1>6. DOMAIN run = {"at", "place", "km", "wait", "opening", "late", "broken", "warned"}
  BY DEF RunSet
<1>7. CASE p.back
  <2>1. Back(p, order, run) = [run EXCEPT !.at = TravelEnd(@, p.min[<<run.place, 0>>], p.breaks),
                                          !.km = @ + p.km[<<run.place, 0>>]]
    BY <1>7 DEF Back
  <2>2. Back(p, order, run).broken = run.broken
    BY <1>6, <2>1
  <2>3. Back(p, order, run).at = TravelEnd(run.at, p.min[<<run.place, 0>>], p.breaks)
    BY <1>6, <2>1
  <2> QED BY <1>5, <1>7, <2>2, <2>3
<1>8. CASE ~p.back
  BY <1>8 DEF Back
<1> QED BY <1>7, <1>8

(* The fallback is complete: without breaks, if some order breaks no        *)
(* rule, one of the orders it proposes breaks none.                         *)
LEMMA FallbackIsFeasible ==
  ASSUME NEW p, IsProblem(p), p.breaks = <<>>, Len(p.stops) # 0, NEW o \in OrdersOf(Visits(p)),
         ~(EvaluateFixedSequence(p, o, FALSE).violations > 0)
  PROVE  \E f \in FallbackOrders(p) : ~(EvaluateFixedSequence(p, f, FALSE).violations > 0)
<1> DEFINE n == Len(p.stops)
<1>1. n \in Nat \ {0} /\ Visits(p) = 1 .. n /\ n \in 1 .. n /\ p.leave \in Int
  BY ProblemIs DEF Visits
<1>2. o \in Seq(1 .. n) /\ Len(o) = n /\ o # <<>> /\ o[n] \in 1 .. n
  <2>1. o \in Seq(1 .. n) /\ Len(o) = n
    BY <1>1, OrdersAre
  <2>2. Len(<<>>) = 0
    OBVIOUS
  <2> QED BY <1>1, <2>1, <2>2
<1>3. Len(p.breaks) = 0
  OBVIOUS
<1>4. PICK h : RunOf(h, p, o, FALSE)
  BY <1>2, RunOfOrder
<1>5. PICK g : /\ Reaches(p, g)
               /\ FallbackOrders(p) = {f.order : f \in UNION {g[Visits(p)][last] : last \in Visits(p)}}
  BY FallbackReaches
<1> DEFINE run == h[n]
           home == Back(p, o, run)
<1>6. run = Visited(p, o, FALSE) /\ run \in RunSet(n)
  BY <1>1, <1>2, <1>4 DEF RunOf
<1>7. 0 <= run.broken /\ (run.broken = 0 => run.place = o[n] /\ \E f \in g[Prefix(o, n)][o[n]] : f.at <= run.at)
  BY <1>1, <1>3, <1>4, <1>5, ReachIsSoonest
<1> HIDE DEF run
<1>8. EvaluateFixedSequence(p, o, FALSE).violations =
        home.broken + (IF OutsideShift(p, p.leave, home.at) THEN 1 ELSE 0)
  BY <1>6, ViolationsAre
<1>9. /\ home.broken = run.broken
      /\ p.back => home.at = run.at + p.min[<<run.place, 0>>]
      /\ ~p.back => home.at = run.at
  BY <1>2, <1>3, <1>6, HomeIs
<1> HIDE DEF home
<1>10. run.broken = 0 /\ ~OutsideShift(p, p.leave, home.at)
  <2> DEFINE broken == run.broken
             late == OutsideShift(p, p.leave, home.at)
  <2>1. broken \in Int /\ 0 <= broken /\ ~(broken + (IF late THEN 1 ELSE 0) > 0)
    BY <1>6, <1>7, <1>8, <1>9 DEF RunSet
  <2> HIDE DEF broken, late
  <2>2. broken = 0 /\ ~late
    BY <2>1
  <2> QED BY <2>2 DEF broken, late
<1>11. Prefix(o, n) = Visits(p)
  BY <1>1, PrefixIs
<1>12. PICK f \in g[Visits(p)][o[n]] : f.at <= run.at
  BY <1>7, <1>10, <1>11
<1>13. Witnesses(p, f, Visits(p)) /\ f.place = o[n]
  BY <1>1, <1>2, <1>5, ReachWitnesses DEF KnownWitnesses
<1>14. f.order \in FallbackOrders(p)
  BY <1>1, <1>2, <1>5
<1> DEFINE run2 == Visited(p, f.order, FALSE)
           home2 == Back(p, f.order, run2)
<1>15. f.order \in Seq(1 .. n) /\ f.order # <<>>
  <2>1. f.order \in OrdersOf(1 .. n)
    BY <1>1, <1>14, FallbackAreOrders
  <2>2. f.order \in Seq(1 .. n) /\ Len(f.order) = n
    BY <1>1, <2>1, OrdersAre
  <2>3. Len(<<>>) = 0
    OBVIOUS
  <2> QED BY <1>1, <2>2, <2>3
<1>16. run2.at = f.at /\ run2.place = f.place /\ run2.broken = 0
  BY <1>3, <1>13 DEF Witnesses
<1>17. run2 \in RunSet(n)
  BY <1>1, <1>15, VisitedAppends
<1>18. EvaluateFixedSequence(p, f.order, FALSE).violations =
         home2.broken + (IF OutsideShift(p, p.leave, home2.at) THEN 1 ELSE 0)
  BY ViolationsAre
<1> HIDE DEF run2
<1>19. /\ home2.broken = run2.broken
       /\ p.back => home2.at = run2.at + p.min[<<run2.place, 0>>]
       /\ ~p.back => home2.at = run2.at
  BY <1>3, <1>15, <1>17, HomeIs
<1> HIDE DEF home2
<1>20. home2.at \in Int /\ home.at \in Int /\ home2.at <= home.at
  <2> DEFINE drive == p.min[<<o[n], 0>>]
  <2>1. drive \in Nat
    <3>1. o[n] \in 0 .. n /\ 0 \in 0 .. n
      BY <1>1, <1>2
    <3> QED BY <3>1, ProblemIs
  <2>2. run.at \in Int /\ run2.at \in Int /\ run2.at <= run.at
    BY <1>6, <1>12, <1>16, <1>17 DEF RunSet
  <2>3. run.place = o[n] /\ run2.place = o[n]
    BY <1>7, <1>10, <1>13, <1>16
  <2>4. /\ p.back => home.at = run.at + drive /\ home2.at = run2.at + drive
        /\ ~p.back => home.at = run.at /\ home2.at = run2.at
    BY <1>9, <1>19, <2>3
  <2> HIDE DEF drive
  <2>5. CASE p.back
    BY <2>1, <2>2, <2>4, <2>5
  <2>6. CASE ~p.back
    BY <2>1, <2>2, <2>4, <2>6
  <2> QED BY <2>5, <2>6
<1>21. ~OutsideShift(p, p.leave, home2.at)
  <2>1. p.shift = <<>> \/ p.shift \in Nat \X Nat
    BY DEF IsProblem
  <2>2. CASE p.shift = <<>>
    BY <2>2 DEF OutsideShift
  <2>3. CASE p.shift # <<>>
    <3>1. p.shift[1] \in Int /\ p.shift[2] \in Int
      BY <2>1, <2>3
    <3>2. ~(p.leave < p.shift[1]) /\ ~(home.at > p.shift[2])
      BY <1>10, <2>3 DEF OutsideShift
    <3>3. ~(home2.at > p.shift[2])
      BY <1>20, <3>1, <3>2
    <3> QED BY <3>2, <3>3 DEF OutsideShift
  <2> QED BY <2>2, <2>3
<1>23. ~(EvaluateFixedSequence(p, f.order, FALSE).violations > 0)
  <2> DEFINE v == EvaluateFixedSequence(p, f.order, FALSE).violations
             late == OutsideShift(p, p.leave, home2.at)
  <2>1. home2.broken = 0
    BY <1>16, <1>19
  <2>2. v = home2.broken + (IF late THEN 1 ELSE 0) /\ ~late
    BY <1>18, <1>21
  <2> HIDE DEF v, late
  <2>3. v = 0
    BY <2>1, <2>2
  <2>4. ~(v > 0)
    BY <2>3
  <2> QED BY <2>4 DEF v
<1> QED BY <1>14, <1>23
-----------------------------------------------------------------------------
(* The problem and the keys of its orders, that no step of the search       *)
(* changes.                                                                 *)
RouteTables ==
  /\ task \in Tasks /\ margin \in Margins
  /\ ranks = [o \in OrdersOf(Visits(task)) |-> SolutionKey(EvaluateFixedSequence(Sought, o, FALSE))]

(* The keys of the orders can be compared.                                  *)
RanksOK ==
  /\ ranks \in [DOMAIN ranks -> KeysOf(6)] /\ IsFiniteSet(DOMAIN ranks)
  /\ DOMAIN ranks = OrdersOf(Visits(task)) /\ \A o \in DOMAIN ranks : ranks[o][1] \in {0, 1}

(* The keys of a problem can be compared, whatever the problem.             *)
LEMMA TablesAreRanks == RouteTables => RanksOK
<1> SUFFICES ASSUME RouteTables PROVE RanksOK
  OBVIOUS
<1>1. IsProblem(task) /\ margin \in Nat
  BY TasksAssumption DEF RouteTables
<1>2. IsProblem(Sought) /\ Len(Sought.stops) = Len(task.stops) /\ Len(task.stops) \in Nat
  BY <1>1, BufferedTyped, ProblemIs DEF Sought
<1>3. DOMAIN ranks = OrdersOf(Visits(task)) /\ IsFiniteSet(DOMAIN ranks)
  BY <1>2, OrdersAre DEF RouteTables, Visits
<1>4. ASSUME NEW o \in DOMAIN ranks PROVE ranks[o] \in KeysOf(6) /\ ranks[o][1] \in {0, 1}
  <2>1. o \in Seq(1 .. Len(Sought.stops))
    BY <1>2, <1>3, OrdersAre DEF Visits
  <2>2. EvaluateFixedSequence(Sought, o, FALSE) \in ReportSet
    BY <1>2, <2>1, EvaluateTyped
  <2>3. ranks[o] = SolutionKey(EvaluateFixedSequence(Sought, o, FALSE))
    BY DEF RouteTables
  <2> QED BY <2>2, <2>3, SolutionKeyTyped
<1>5. ranks = [o \in DOMAIN ranks |-> ranks[o]]
  BY DEF RouteTables
<1> QED BY <1>3, <1>4, <1>5 DEF RanksOK

(* Improving is a strict order of the orders, the better of two is not      *)
(* improved by either, and what a feasible order does not improve is        *)
(* feasible.                                                                *)
LEMMA ImprovesIs ==
  ASSUME RanksOK, NEW a \in DOMAIN ranks, NEW b \in DOMAIN ranks, NEW c \in DOMAIN ranks
  PROVE  /\ ~Improves(a, a)
         /\ Improves(a, b) => ~Improves(b, a)
         /\ ~Improves(a, b) /\ ~Improves(b, c) => ~Improves(a, c)
         /\ Best(a, b) \in {a, b} /\ ~Improves(a, Best(a, b)) /\ ~Improves(b, Best(a, b))
         /\ ~Improves(a, b) /\ Feasible(a) => Feasible(b)
<1>1. ranks[a] \in KeysOf(6) /\ ranks[b] \in KeysOf(6) /\ ranks[c] \in KeysOf(6)
  BY DEF RanksOK
<1>2. ~Improves(a, a) /\ ~Improves(b, b)
  BY <1>1, BeforeIrreflexive DEF Improves
<1>3. Improves(a, b) => ~Improves(b, a)
  <2> SUFFICES ASSUME Improves(a, b), Improves(b, a) PROVE FALSE
    OBVIOUS
  <2>1. Before(ranks[a], ranks[a])
    BY <1>1, BeforeTransitive DEF Improves
  <2> QED BY <1>2, <2>1 DEF Improves
<1>4. ~Improves(a, b) /\ ~Improves(b, c) => ~Improves(a, c)
  BY <1>1, NotBeforeTransitive DEF Improves
<1>5. ~Improves(a, b) /\ Feasible(a) => Feasible(b)
  <2> SUFFICES ASSUME Feasible(a), ~Feasible(b) PROVE Improves(a, b)
    OBVIOUS
  <2>1. ranks[a][1] < ranks[b][1]
    BY DEF Feasible, RanksOK
  <2>2. 1 \in 1 .. Len(ranks[a]) /\ \A j \in 1 .. 1 - 1 : ranks[a][j] = ranks[b][j]
    BY <1>1 DEF KeysOf
  <2> QED BY <2>1, <2>2 DEF Improves, Before
<1> QED BY <1>2, <1>3, <1>4, <1>5 DEF Best

(* The best of some orders is one of them, and none of them improves it.    *)
LEMMA BestOfIs ==
  ASSUME RanksOK, NEW S \in SUBSET DOMAIN ranks, S # {}
  PROVE  BestOf(S) \in S /\ \A o \in S : ~Improves(o, BestOf(S))
<1> DEFINE key == [o \in S |-> ranks[o]]
<1>1. IsFiniteSet(S)
  BY FS_Subset DEF RanksOK
<1>2. key \in [S -> KeysOf(6)] /\ \A o \in S : key[o] = ranks[o]
  BY DEF RanksOK
<1>3. \E x \in S : \A y \in S : ~Before(key[y], key[x])
  <2> HIDE DEF key
  <2> QED BY <1>1, <1>2, MinimumExists
<1>4. \E x \in S : \A y \in S : ~Improves(y, x)
  BY <1>2, <1>3 DEF Improves
<1> QED BY <1>4 DEF BestOf

(* The problem has no breaks, and an order of its stops is feasible.        *)
SomeFeasible == task.breaks = <<>> /\ \E o \in DOMAIN ranks : Feasible(o)

(* The fallback never makes an order worse, and finds a feasible one if     *)
(* there is one and there are no breaks.                                    *)
LEMMA FallbackIs ==
  ASSUME RouteTables, NEW o \in DOMAIN ranks
  PROVE  /\ FeasibleFallback(o) \in DOMAIN ranks /\ ~Improves(o, FeasibleFallback(o))
         /\ SomeFeasible => Feasible(FeasibleFallback(o))
<1>1. RanksOK
  BY TablesAreRanks
<1>2. IsProblem(task) /\ margin \in Nat
  BY TasksAssumption DEF RouteTables
<1>3. /\ IsProblem(Sought) /\ Visits(Sought) = Visits(task) /\ Sought.breaks = task.breaks
      /\ DOMAIN ranks = OrdersOf(Visits(Sought))
  BY <1>1, <1>2, BufferedTyped DEF Sought, Visits, RanksOK
<1> DEFINE S == {o} \cup FallbackOrders(Sought)
<1>4. S \in SUBSET DOMAIN ranks /\ S # {}
  BY <1>3, FallbackAreOrders
<1> HIDE DEF S
<1>5. BestOf(S) \in S /\ \A q \in S : ~Improves(q, BestOf(S))
  BY <1>1, <1>4, BestOfIs
<1>6. CASE Feasible(o)
  BY <1>1, <1>6, ImprovesIs DEF FeasibleFallback
<1>7. CASE ~Feasible(o)
  <2>1. FeasibleFallback(o) = BestOf(S) /\ o \in S
    BY <1>7 DEF FeasibleFallback, S
  <2>2. ASSUME SomeFeasible PROVE Feasible(BestOf(S))
    <3>1. \A q \in DOMAIN ranks : Feasible(q) <=> ~(EvaluateFixedSequence(Sought, q, FALSE).violations > 0)
      <4> SUFFICES ASSUME NEW q \in DOMAIN ranks
                   PROVE  Feasible(q) <=> ~(EvaluateFixedSequence(Sought, q, FALSE).violations > 0)
        OBVIOUS
      <4>1. q \in Seq(1 .. Len(Sought.stops))
        BY <1>3, ProblemIs, OrdersAre DEF Visits
      <4>2. EvaluateFixedSequence(Sought, q, FALSE) \in ReportSet
        BY <1>3, <4>1, EvaluateTyped
      <4>3. ranks[q] = SolutionKey(EvaluateFixedSequence(Sought, q, FALSE))
        BY DEF RouteTables
      <4>4. ranks[q][1] = IF EvaluateFixedSequence(Sought, q, FALSE).violations > 0 THEN 1 ELSE 0
        BY <4>2, <4>3, SolutionKeyTyped
      <4> DEFINE bad == EvaluateFixedSequence(Sought, q, FALSE).violations > 0
      <4>5. ranks[q][1] = IF bad THEN 1 ELSE 0
        BY <4>4
      <4> HIDE DEF bad
      <4>6. bad => ranks[q][1] = 1
        BY <4>5
      <4>7. ~bad => ranks[q][1] = 0
        BY <4>5
      <4>8. Feasible(q) <=> ~bad
        BY <4>6, <4>7 DEF Feasible
      <4> QED BY <4>8 DEF bad
    <3>2. PICK q \in DOMAIN ranks : Feasible(q)
      BY <2>2 DEF SomeFeasible
    <3>5. Len(Sought.stops) # 0
      <4> SUFFICES ASSUME Len(Sought.stops) = 0 PROVE FALSE
        OBVIOUS
      <4>1. \A x \in DOMAIN ranks : x \in Seq(1 .. 0) /\ Len(x) = 0
        BY <1>3, OrdersAre DEF Visits
      <4>2. o = q
        BY <4>1
      <4> QED BY <1>7, <3>2, <4>2
    <3>3. PICK f \in FallbackOrders(Sought) : ~(EvaluateFixedSequence(Sought, f, FALSE).violations > 0)
      <4>1. Sought.breaks = <<>> /\ q \in OrdersOf(Visits(Sought))
        BY <1>3, <2>2, <3>2 DEF SomeFeasible
      <4>2. ~(EvaluateFixedSequence(Sought, q, FALSE).violations > 0)
        BY <3>1, <3>2
      <4> QED BY <1>3, <3>5, <4>1, <4>2, FallbackIsFeasible
    <3>4. f \in S /\ f \in DOMAIN ranks
      BY <1>4 DEF S
    <3> QED BY <1>1, <1>4, <1>5, <3>1, <3>3, <3>4, ImprovesIs
  <2> QED BY <1>4, <1>5, <2>1, <2>2
<1> QED BY <1>6, <1>7

-----------------------------------------------------------------------------
(* The fields of a search.                                                  *)
TourFields == {"phase", "order", "floor", "leave", "current", "start", "seeds", "turn", "round", "used", "until"}

(* The floor of the longer search: no worse than the order of the user,     *)
(* feasible if an order is, and no better than the order at hand.           *)
FloorOK ==
  /\ tour.floor \in DOMAIN ranks
  /\ ~Improves(tour.floor, tour.order) /\ ~Improves(Operator(task), tour.floor)
  /\ SomeFeasible => Feasible(tour.floor)

(* The orders the search holds in each of its phases, and the share of      *)
(* the budget a seed may use.                                               *)
SeedsOK ==
  /\ tour.phase = "climbing" => Long /\ tour.current \in DOMAIN ranks
  /\ tour.phase = "seeding" => Long
  /\ tour.phase = "descending" =>
       /\ Long /\ tour.start \in DOMAIN ranks /\ tour.current \in DOMAIN ranks
       /\ tour.turn \in 1 .. Len(tour.seeds) /\ tour.until \in Int /\ tour.until <= Candidates

(* The inductive invariant of the search. RouteIsSearched says nothing of   *)
(* the phases before an order is found; this says what they hold: the       *)
(* floor, once fixed, bounds the order at hand, and the budget of a seed    *)
(* ends within the budget of the search.                                    *)
RouteInv ==
  /\ RouteTables
  /\ DOMAIN tour = TourFields
  /\ tour.order \in DOMAIN ranks /\ tour.seeds \in Seq(DOMAIN ranks)
  /\ tour.used \in Int /\ tour.used <= Candidates
  /\ SeedsOK
  /\ tour.phase \in {"seeding", "descending"} \/ Found => FloorOK
  /\ ShortIsBest

(* The order of the user is one of the orders.                              *)
LEMMA OperatorIsOrder == RouteTables => Operator(task) \in DOMAIN ranks
<1> SUFFICES ASSUME RouteTables PROVE Operator(task) \in DOMAIN ranks
  OBVIOUS
<1>1. Len(task.stops) \in Nat
  BY TasksAssumption, ProblemIs DEF RouteTables
<1>2. DOMAIN ranks = OrdersOf(1 .. Len(task.stops))
  BY TablesAreRanks DEF RanksOK, Visits
<1> DEFINE n == Len(task.stops)
           o == [i \in 1 .. n |-> i]
<1>3. o \in [1 .. n -> 1 .. n] /\ Range(o) = 1 .. n
  BY DEF Range
<1>4. Cardinality(1 .. n) = n
  BY <1>1, FS_Interval
<1>5. o \in OrdersOf(1 .. n)
  <2> HIDE DEF o, n
  <2> QED BY <1>3, <1>4 DEF OrdersOf
<1> QED BY <1>2, <1>5 DEF Operator, Visits

(* The greedy order and its reverse are among the orders that were          *)
(* ranked.                                                                  *)
LEMMA GreedyIsRanked ==
  RouteTables => GreedySequence(Sought) \in DOMAIN ranks /\ Reverse(GreedySequence(Sought)) \in DOMAIN ranks
<1> SUFFICES ASSUME RouteTables
             PROVE  GreedySequence(Sought) \in DOMAIN ranks /\ Reverse(GreedySequence(Sought)) \in DOMAIN ranks
  OBVIOUS
<1>1. IsProblem(task) /\ margin \in Nat
  BY TasksAssumption DEF RouteTables
<1>2. IsProblem(Sought) /\ Visits(Sought) = Visits(task) /\ Len(task.stops) \in Nat
  BY <1>1, BufferedTyped, ProblemIs DEF Sought, Visits
<1>3. DOMAIN ranks = OrdersOf(1 .. Len(task.stops))
  BY TablesAreRanks DEF RanksOK, Visits
<1> QED BY <1>2, <1>3, GreedyIsOrder, ReverseIsOrder DEF Visits

(* The search begins within its invariant.                                  *)
LEMMA RouteSearchBegins == RouteSearchInit => RouteInv
<1> SUFFICES ASSUME RouteSearchInit PROVE RouteInv
  OBVIOUS
<1>1. RouteTables
  BY DEF RouteSearchInit, RouteTables, Sought
<1>2. Operator(task) \in DOMAIN ranks
  BY <1>1, OperatorIsOrder
<1>3. /\ DOMAIN tour = TourFields /\ tour.phase = "asked" /\ tour.order = Operator(task)
      /\ tour.seeds = <<>> /\ tour.used = 0
  BY DEF RouteSearchInit, TourFields
<1> QED BY <1>1, <1>2, <1>3, TasksAssumption DEF RouteInv, SeedsOK, Found, ShortIsBest

(* No step of the search changes the problem or the keys.                   *)
LEMMA TablesStay ==
  ASSUME RouteTables, UNCHANGED <<task, margin, ranks>>
  PROVE  /\ RouteTables' /\ RanksOK /\ Operator(task)' = Operator(task) /\ (SomeFeasible' <=> SomeFeasible)
         /\ (Long' <=> Long) /\ DOMAIN ranks' = DOMAIN ranks
         /\ \A a, b : Improves(a, b)' <=> Improves(a, b)
<1>1. RouteTables' /\ Operator(task)' = Operator(task) /\ DOMAIN ranks' = DOMAIN ranks
  BY DEF RouteTables, Sought, Operator, Visits
<1>2. Long' <=> Long
  BY DEF Long
<1>3. \A a, b : Improves(a, b)' <=> Improves(a, b)
  BY DEF Improves
<1>4. SomeFeasible' <=> SomeFeasible
  BY DEF SomeFeasible, Feasible
<1> QED BY <1>1, <1>2, <1>3, <1>4, TablesAreRanks

(* The share of a seed ends within the budget.                              *)
LEMMA ShareIs ==
  ASSUME tour.used \in Int, tour.used <= Candidates, NEW turn \in 1 .. Len(tour.seeds), Len(tour.seeds) \in Nat
  PROVE  Share(turn) \in Int /\ Share(turn) <= Candidates
<1> DEFINE x == Candidates - tour.used
           k == Len(tour.seeds) - turn + 1
<1>1. x \in Nat /\ k \in Nat \ {0} /\ Candidates \in Nat
  BY TasksAssumption
<1>2. ASSUME NEW y \in Nat, NEW j \in Nat \ {0} PROVE (y \div j) \in Nat /\ y \div j <= y
  OBVIOUS
<1>3. (x \div k) \in Nat /\ x \div k <= x
  <2> HIDE DEF x, k
  <2> QED BY <1>1, <1>2
<1>4. Share(turn) = tour.used + (x \div k)
  BY DEF Share
<1> DEFINE q == x \div k
<1> HIDE DEF q, k
<1> QED BY <1>1, <1>3, <1>4 DEF q

(* Every step of the search keeps its invariant, action by action.          *)
LEMMA RouteSearchStep ==
  ASSUME RouteInv, RouteSearchNext
  PROVE  RouteInv'
<1> USE DEF RouteInv
<1>1. /\ RouteTables /\ RanksOK /\ UNCHANGED <<task, margin, ranks>>
  BY TablesAreRanks DEF RouteSearchNext, SearchAll, Climb, FixFloor, Descend, EndRound, EndSeed, Depart, ClimbTo,
     ClimbAgain, AddSeed, TryMove, OrtoolsSingle
<1>2. /\ RouteTables' /\ Operator(task)' = Operator(task) /\ (SomeFeasible' <=> SomeFeasible)
      /\ (Long' <=> Long) /\ DOMAIN ranks' = DOMAIN ranks
      /\ \A a, b : Improves(a, b)' <=> Improves(a, b)
  BY <1>1, TablesStay
<1> DEFINE Asked(t) ==
      /\ DOMAIN t = TourFields /\ t.order \in DOMAIN ranks /\ t.seeds \in Seq(DOMAIN ranks)
      /\ t.used \in Int /\ t.used <= Candidates
    Seeded(t) ==
      /\ t.phase = "climbing" => Long /\ t.current \in DOMAIN ranks
      /\ t.phase = "seeding" => Long
      /\ t.phase = "descending" =>
           /\ Long /\ t.start \in DOMAIN ranks /\ t.current \in DOMAIN ranks
           /\ t.turn \in 1 .. Len(t.seeds) /\ t.until \in Int /\ t.until <= Candidates
    Floored(t) ==
      /\ t.floor \in DOMAIN ranks
      /\ ~Improves(t.floor, t.order) /\ ~Improves(Operator(task), t.floor)
      /\ SomeFeasible => Feasible(t.floor)
    Ended(t) == t.phase \in {"found", "ordered", "timed"}
    Good(t) ==
      /\ Asked(t) /\ Seeded(t)
      /\ t.phase \in {"seeding", "descending"} \/ Ended(t) => Floored(t)
      /\ Ended(t) /\ ~Long => \A o \in DOMAIN ranks : ~Improves(o, t.order)
<1>3. Good(tour)
  BY DEF SeedsOK, FloorOK, ShortIsBest, Found
<1>4. Good(tour') => RouteInv'
  <2> SUFFICES ASSUME Good(tour') PROVE RouteInv'
    OBVIOUS
  <2>1. SeedsOK'
    BY <1>2 DEF SeedsOK
  <2>2. (tour.phase \in {"seeding", "descending"} \/ Found => FloorOK)'
    BY <1>1, <1>2 DEF FloorOK, Found, Feasible
  <2>3. ShortIsBest'
    BY <1>2 DEF ShortIsBest, Found
  <2> QED BY <1>2, <2>1, <2>2, <2>3
<1>5. Operator(task) \in DOMAIN ranks /\ GreedySequence(Sought) \in DOMAIN ranks
      /\ Reverse(GreedySequence(Sought)) \in DOMAIN ranks
  BY <1>1, OperatorIsOrder, GreedyIsRanked
<1> SUFFICES Good(tour')
  BY <1>4
<1> HIDE DEF RouteInv
<1>6. CASE SearchAll
  <2> DEFINE top == BestOf(DOMAIN ranks)
             best == FeasibleFallback(top)
  <2>1. top \in DOMAIN ranks /\ \A o \in DOMAIN ranks : ~Improves(o, top)
    BY <1>1, <1>5, BestOfIs
  <2> HIDE DEF top
  <2>2. best \in DOMAIN ranks /\ ~Improves(top, best) /\ (SomeFeasible => Feasible(best))
    BY <1>1, <2>1, FallbackIs
  <2> HIDE DEF best
  <2>3. \A o \in DOMAIN ranks : ~Improves(o, best)
    BY <1>1, <2>1, <2>2, ImprovesIs
  <2>4. ~Long /\ tour' = [tour EXCEPT !.phase = "found", !.order = best, !.floor = best]
    BY <1>6 DEF SearchAll, best, top
  <2>5. /\ tour'.phase = "found" /\ tour'.order = best /\ tour'.floor = best /\ DOMAIN tour' = TourFields
        /\ tour'.seeds = tour.seeds /\ tour'.used = tour.used
    BY <1>3, <2>4 DEF TourFields
  <2> QED BY <1>3, <1>5, <2>2, <2>3, <2>4, <2>5
<1>7. CASE Climb
  <2> DEFINE greedy == GreedySequence(Sought)
  <2>1. Long /\ tour' = [tour EXCEPT !.phase = "climbing", !.order = greedy, !.current = greedy]
    BY <1>7 DEF Climb
  <2> HIDE DEF greedy
  <2>2. /\ tour'.phase = "climbing" /\ tour'.order = greedy /\ tour'.current = greedy /\ DOMAIN tour' = TourFields
        /\ tour'.seeds = tour.seeds /\ tour'.used = tour.used
    BY <1>3, <2>1 DEF TourFields
  <2> QED BY <1>3, <1>5, <2>1, <2>2 DEF greedy
<1>8. ASSUME NEW o \in DOMAIN ranks, ClimbTo(o) PROVE Good(tour')
  <2>1. tour.phase = "climbing" /\ tour' = [tour EXCEPT !.current = o]
    BY <1>8 DEF ClimbTo
  <2>2. /\ tour'.phase = "climbing" /\ tour'.order = tour.order /\ tour'.current = o /\ DOMAIN tour' = TourFields
        /\ tour'.seeds = tour.seeds /\ tour'.used = tour.used
    BY <1>3, <2>1 DEF TourFields
  <2> QED BY <1>3, <2>1, <2>2
<1>9. ASSUME NEW o \in DOMAIN ranks, ClimbAgain(o) PROVE Good(tour')
  <2>1. tour.phase = "climbing" /\ tour' = [tour EXCEPT !.order = Best(tour.current, tour.order), !.current = o]
    BY <1>9 DEF ClimbAgain
  <2>2. Best(tour.current, tour.order) \in DOMAIN ranks
    BY <1>3, <2>1 DEF Best
  <2>3. /\ tour'.phase = "climbing" /\ tour'.order = Best(tour.current, tour.order) /\ tour'.current = o
        /\ DOMAIN tour' = TourFields /\ tour'.seeds = tour.seeds /\ tour'.used = tour.used
    BY <1>3, <2>1 DEF TourFields
  <2> QED BY <1>3, <2>1, <2>2, <2>3
<1>10. CASE FixFloor
  <2> DEFINE known == Best(tour.current, tour.order)
             written == Best(Operator(task), known)
             floor == FeasibleFallback(written)
  <2>1. tour.phase = "climbing" /\ tour' = [tour EXCEPT !.phase = "seeding", !.order = floor, !.floor = floor]
    BY <1>10 DEF FixFloor
  <2>2. known \in DOMAIN ranks
    BY <1>3, <2>1 DEF Best
  <2> HIDE DEF known
  <2>3. written \in DOMAIN ranks /\ ~Improves(Operator(task), written)
    BY <1>1, <1>5, <2>2, ImprovesIs
  <2> HIDE DEF written
  <2>4. floor \in DOMAIN ranks /\ ~Improves(written, floor) /\ (SomeFeasible => Feasible(floor))
    BY <1>1, <2>3, FallbackIs
  <2> HIDE DEF floor
  <2>5. ~Improves(Operator(task), floor) /\ ~Improves(floor, floor)
    BY <1>1, <1>5, <2>3, <2>4, ImprovesIs
  <2>6. /\ tour'.phase = "seeding" /\ tour'.order = floor /\ tour'.floor = floor /\ DOMAIN tour' = TourFields
        /\ tour'.seeds = tour.seeds /\ tour'.used = tour.used
    BY <1>3, <2>1 DEF TourFields
  <2> QED BY <1>3, <2>1, <2>4, <2>5, <2>6
<1>11. ASSUME NEW o \in DOMAIN ranks, AddSeed(o) PROVE Good(tour')
  <2>1. PICK cost \in SeedCosts(Len(o)) :
          /\ Affords(cost)
          /\ tour' = [tour EXCEPT !.seeds = Append(@, o), !.used = @ + cost, !.order = Best(o, @)]
    BY <1>11 DEF AddSeed
  <2>2. tour.phase = "seeding" /\ Floored(tour)
    BY <1>3, <1>11 DEF AddSeed
  <2>3. cost \in Int
    <3>1. Len(o) \in Nat
      <4>1. Len(task.stops) \in Nat
        BY <1>1, TasksAssumption, ProblemIs DEF RouteTables
      <4>2. o \in Seq(1 .. Len(task.stops))
        BY <1>1, <4>1, OrdersAre DEF RanksOK, Visits
      <4> QED BY <4>2
    <3> DEFINE m == Len(o) * (Len(o) + 1)
    <3>2. m \in Int
      BY <3>1
    <3>3. m \div 2 + 1 \in Int
      <4> HIDE DEF m
      <4> QED BY <3>2
    <3>4. cost = 1 \/ cost = m \div 2 + 1
      BY DEF SeedCosts
    <3> HIDE DEF m
    <3> QED BY <3>3, <3>4
  <2>4. /\ tour'.phase = "seeding" /\ tour'.order = Best(o, tour.order) /\ tour'.floor = tour.floor
        /\ DOMAIN tour' = TourFields /\ tour'.seeds = Append(tour.seeds, o) /\ tour'.used = tour.used + cost
    BY <1>3, <2>1, <2>2 DEF TourFields
  <2>5. Best(o, tour.order) \in DOMAIN ranks
    BY <1>3 DEF Best
  <2>6. ~Improves(tour.floor, Best(o, tour.order))
    <3>1. ~Improves(tour.order, Best(o, tour.order)) /\ ~Improves(tour.floor, tour.order)
      BY <1>1, <1>3, <2>2, ImprovesIs
    <3> QED BY <1>1, <1>3, <2>2, <2>5, <3>1, ImprovesIs
  <2>7. tour'.used \in Int /\ tour'.used <= Candidates
    BY <1>3, <2>1, <2>3, <2>4 DEF Affords
  <2>8. Append(tour.seeds, o) \in Seq(DOMAIN ranks)
    BY <1>3
  <2> QED BY <1>3, <2>2, <2>4, <2>5, <2>6, <2>7, <2>8
<1>12. ASSUME NEW o \in DOMAIN ranks, TryMove(o) PROVE Good(tour')
  <2>1. /\ tour.phase = "descending" /\ tour.used < tour.until
        /\ tour' = [tour EXCEPT !.used = @ + 1, !.current = Best(o, @)]
    BY <1>12 DEF TryMove
  <2>2. /\ tour'.phase = "descending" /\ tour'.order = tour.order /\ tour'.floor = tour.floor
        /\ DOMAIN tour' = TourFields /\ tour'.seeds = tour.seeds /\ tour'.used = tour.used + 1
        /\ tour'.current = Best(o, tour.current) /\ tour'.start = tour.start /\ tour'.turn = tour.turn
        /\ tour'.until = tour.until
    BY <1>3, <2>1 DEF TourFields
  <2>3. Best(o, tour.current) \in DOMAIN ranks
    BY <1>3, <2>1 DEF Best
  <2>4. tour.used + 1 <= Candidates
    BY <1>3, <2>1, TasksAssumption
  <2> QED BY <1>3, <2>1, <2>2, <2>3, <2>4
<1>13. ASSUME NEW best \in DOMAIN ranks, tour.phase \in {"seeding", "descending"}, tour' = Settle(best)
       PROVE  Good(tour')
  <2> DEFINE order == IF Improves(best, tour.floor) THEN best ELSE tour.floor
  <2>1. Floored(tour) /\ Long
    BY <1>3, <1>13
  <2>2. order \in DOMAIN ranks /\ ~Improves(tour.floor, order)
    BY <1>1, <1>13, <2>1, ImprovesIs
  <2> HIDE DEF order
  <2>3. tour' = [tour EXCEPT !.phase = "found", !.order = order]
    BY <1>13 DEF Settle, order
  <2>4. /\ tour'.phase = "found" /\ tour'.order = order /\ tour'.floor = tour.floor
        /\ DOMAIN tour' = TourFields /\ tour'.seeds = tour.seeds /\ tour'.used = tour.used
    BY <1>3, <2>3 DEF TourFields
  <2> QED BY <1>3, <2>1, <2>2, <2>4
<1>14. ASSUME NEW turn \in 1 .. Len(tour.seeds), NEW best \in DOMAIN ranks,
              tour.phase \in {"seeding", "descending"}, tour' = [TakeSeed(turn) EXCEPT !.order = best],
              ~Improves(tour.floor, best)
       PROVE  Good(tour')
  <2>1. Floored(tour) /\ Long
    BY <1>3, <1>14
  <2>2. /\ tour'.phase = "descending" /\ tour'.order = best /\ tour'.floor = tour.floor
        /\ DOMAIN tour' = TourFields /\ tour'.seeds = tour.seeds /\ tour'.used = tour.used
        /\ tour'.current = tour.seeds[turn] /\ tour'.start = tour.seeds[turn] /\ tour'.turn = turn
        /\ tour'.until = Share(turn)
    BY <1>3, <1>14 DEF TourFields, TakeSeed
  <2>3. tour.seeds[turn] \in DOMAIN ranks /\ Len(tour.seeds) \in Nat
    BY <1>3
  <2>4. Share(turn) \in Int /\ Share(turn) <= Candidates
    BY <1>3, <2>3, ShareIs
  <2> QED BY <1>3, <1>14, <2>1, <2>2, <2>3, <2>4
<1>15. CASE Descend
  <2>1. tour.phase = "seeding" /\ tour' = IF tour.seeds = <<>> THEN Settle(tour.order) ELSE TakeSeed(1)
    BY <1>15 DEF Descend
  <2>2. CASE tour.seeds = <<>>
    BY <1>3, <1>13, <2>1, <2>2
  <2>3. CASE tour.seeds # <<>>
    <3>1. 1 \in 1 .. Len(tour.seeds)
      BY <1>3, <2>3
    <3>2. TakeSeed(1) = [TakeSeed(1) EXCEPT !.order = tour.order]
      BY <1>3 DEF TakeSeed, TourFields
    <3>3. ~Improves(tour.floor, tour.order) /\ tour.order \in DOMAIN ranks
      BY <1>3, <2>1
    <3>4. tour' = [TakeSeed(1) EXCEPT !.order = tour.order] /\ tour.phase \in {"seeding", "descending"}
      BY <2>1, <2>3, <3>2
    <3> QED BY <1>14, <3>1, <3>3, <3>4
  <2> QED BY <2>2, <2>3
<1>16. CASE EndRound
  <2>1. tour.phase = "descending" /\ tour' = [tour EXCEPT !.start = tour.current, !.round = @ + 1]
    BY <1>16 DEF EndRound
  <2>2. /\ tour'.phase = "descending" /\ tour'.order = tour.order /\ tour'.floor = tour.floor
        /\ DOMAIN tour' = TourFields /\ tour'.seeds = tour.seeds /\ tour'.used = tour.used
        /\ tour'.current = tour.current /\ tour'.start = tour.current /\ tour'.turn = tour.turn
        /\ tour'.until = tour.until
    BY <1>3, <2>1 DEF TourFields
  <2> QED BY <1>3, <2>1, <2>2
<1>17. CASE EndSeed
  <2> DEFINE best == Best(tour.current, tour.order)
  <2>1. /\ tour.phase = "descending"
        /\ tour' = IF tour.turn < Len(tour.seeds)
                   THEN [TakeSeed(tour.turn + 1) EXCEPT !.order = best] ELSE Settle(best)
    BY <1>17 DEF EndSeed
  <2>2. best \in DOMAIN ranks /\ ~Improves(tour.order, best)
    BY <1>1, <1>3, <2>1, ImprovesIs
  <2>3. ~Improves(tour.floor, best)
    BY <1>1, <1>3, <2>1, <2>2, ImprovesIs
  <2> HIDE DEF best
  <2>4. CASE tour.turn < Len(tour.seeds)
    <3>1. tour.turn + 1 \in 1 .. Len(tour.seeds)
      BY <1>3, <2>1, <2>4
    <3> QED BY <1>14, <2>1, <2>2, <2>3, <2>4, <3>1
  <2>5. CASE ~(tour.turn < Len(tour.seeds))
    BY <1>13, <2>1, <2>2, <2>5
  <2> QED BY <2>4, <2>5
<1>18. ASSUME NEW o, OrtoolsSingle(o) PROVE Good(tour')
  <2> DEFINE order == IF Long /\ o \in DOMAIN ranks THEN Best(o, tour.order) ELSE tour.order
  <2>1. tour.phase = "found" /\ tour' = [tour EXCEPT !.phase = "ordered", !.order = order]
    BY <1>18 DEF OrtoolsSingle
  <2>2. Floored(tour)
    BY <1>3, <2>1
  <2>3. order \in DOMAIN ranks /\ ~Improves(tour.order, order) /\ (~Long => order = tour.order)
    BY <1>1, <1>3, ImprovesIs
  <2> HIDE DEF order
  <2>4. ~Improves(tour.floor, order)
    BY <1>1, <1>3, <2>2, <2>3, ImprovesIs
  <2>5. /\ tour'.phase = "ordered" /\ tour'.order = order /\ tour'.floor = tour.floor
        /\ DOMAIN tour' = TourFields /\ tour'.seeds = tour.seeds /\ tour'.used = tour.used
    BY <1>3, <2>1 DEF TourFields
  <2> QED BY <1>3, <2>1, <2>2, <2>3, <2>4, <2>5
<1>19. CASE Depart
  <2>1. /\ tour.phase = "ordered"
        /\ tour' = [tour EXCEPT !.phase = "timed",
                                !.leave = IF task.movable THEN LaterDeparture(task, tour.order, FALSE) ELSE @]
    BY <1>19 DEF Depart
  <2>2. /\ tour'.phase = "timed" /\ tour'.order = tour.order /\ tour'.floor = tour.floor
        /\ DOMAIN tour' = TourFields /\ tour'.seeds = tour.seeds /\ tour'.used = tour.used
    BY <1>3, <2>1 DEF TourFields
  <2> QED BY <1>3, <2>1, <2>2
<1> QED
  BY <1>6, <1>7, <1>8, <1>9, <1>10, <1>11, <1>12, <1>15, <1>16, <1>17, <1>18, <1>19 DEF RouteSearchNext

(* So does a step that changes nothing.                                     *)
LEMMA RouteSearchStutters ==
  ASSUME RouteInv, UNCHANGED routeVars
  PROVE  RouteInv'
BY DEF RouteInv, routeVars, RouteTables, Sought, SeedsOK, Long, FloorOK, Improves, SomeFeasible, Feasible, Found,
       ShortIsBest

(* The search of one route, for every set of problems, margins, budgets     *)
(* and rounds: whichever seeds, moves and orders of the external engine     *)
(* come, in whichever order, the proposed order names every stop once, is   *)
(* no worse than the floor, which is no worse than the order of the user,   *)
(* costs no more evaluations than the budget, is the best one when the      *)
(* route is short, and is feasible when there are no breaks and an order    *)
(* is feasible.                                                             *)
THEOREM RouteIsSearchedHolds == RouteSearchInit /\ [][RouteSearchNext]_routeVars => []RouteIsSearched
<1>1. RouteInv => RouteIsSearched
  <2> SUFFICES ASSUME RouteInv PROVE RouteIsSearched
    OBVIOUS
  <2>1. EveryStopOnce /\ BudgetIsKept /\ ShortIsBest
    BY DEF RouteInv, EveryStopOnce, BudgetIsKept
  <2>2. FloorIsKept
    BY DEF RouteInv, FloorIsKept, FloorOK
  <2>3. FeasibleIsFound
    <3> SUFFICES ASSUME Found, SomeFeasible PROVE Feasible(tour.order)
      BY DEF FeasibleIsFound, SomeFeasible
    <3>1. RanksOK /\ FloorOK /\ tour.order \in DOMAIN ranks
      BY TablesAreRanks DEF RouteInv
    <3> QED BY <3>1, ImprovesIs DEF FloorOK
  <2> QED BY <2>1, <2>2, <2>3 DEF RouteIsSearched
<1> QED BY <1>1, RouteSearchBegins, RouteSearchStep, RouteSearchStutters, PTL
=============================================================================
