----------------------------- MODULE FleetSearch -----------------------------
(* The search of the best plan of a fleet under one strategy                *)
(* (app/services/fleet_search.py, fleet_seed_search.py and                  *)
(* fleet_route_pool.py).  A small fleet is searched exhaustively.  A larger *)
(* one starts from the constructions, an older search under another         *)
(* objective, and new constructions; it repairs what is missing, improves   *)
(* in rounds, takes routes apart and puts them together again, and at last  *)
(* recombines every route it has met.  Whatever it tries, only a complete   *)
(* candidate that is better replaces the plan.                              *)
(*                                                                          *)
(* The budget of evaluations is left open: a phase may end after any trial. *)
(* So is the order of the trials inside a neighbourhood.                    *)
EXTENDS FleetScores

CONSTANTS
  ExactJobs, ExactTrucks,  (* The exhaustive search: 7 and 3 in the code.    *)
  PoolRoutes               (* The other routes a pool has in the model.      *)

VARIABLES
  fleet,             (* The number of the problem.                           *)
  here,              (* Its book, with every evaluation.                     *)
  strategy,          (* The objective of this search.                        *)
  floor,             (* The plan the search was given.                       *)
  best,              (* The incumbent.                                       *)
  work,              (* A plan under repair, or the seed of the older search.*)
  astray,            (* The deliveries taken out of it.                      *)
  phase

searchVars == <<fleet, here, strategy, floor, best, work, astray, phase>>

Phases == <<"seed", "again", "build", "repair", "rounds", "ruin", "pool", "found">>

(* The books of the fleets, computed once.                                  *)
Books == [f \in DOMAIN Fleets |-> Book(Fleets[f])]

Exact ==
  Cardinality(Jobs(here.fleet)) <= ExactJobs /\ Cardinality(Trucks(here.fleet)) <= ExactTrucks

Missing(routes) == Jobs(here.fleet) \ Aboard(routes)

Workable(t, order) == order = <<>> \/ here.scores[t][order] # NoScore

Floors ==
  [objective \in Strategies \cup {"distance"} |->
    [f \in DOMAIN Fleets |-> BestPlan(Books[f], objective, Constructions(Books[f]))]]

(* The former construction, from which the older search leaves.             *)
FirstSeeds ==
  [objective \in Strategies \cup {"distance"} |-> [f \in DOMAIN Fleets |->
     Construct(Books[f], (IF objective = "balanced" THEN "balanced" ELSE "time"), LegacyOrder(Fleets[f]))]]

SearchInit ==
  /\ fleet \in DOMAIN Fleets /\ here = Books[fleet]
  /\ strategy \in Strategies \cup {"distance"}
  /\ floor = Floors[strategy][fleet]
  /\ best = floor /\ work = Empty(here) /\ astray = {} /\ phase = "asked"

-----------------------------------------------------------------------------

(* Mutant: a candidate that serves more is taken without its routes. *)
ConsiderAny(routes) ==
  best' = IF Served(routes) > Served(best) THEN routes
          ELSE IF ValidPlan(here.scores, routes) THEN BetterOf(here, strategy, routes, best) ELSE best

(* The one place where the plan changes.                                    *)
Consider(routes) ==
  best' = IF ValidPlan(here.scores, routes) THEN BetterOf(here, strategy, routes, best) ELSE best

Ask(next) ==
  /\ phase = "asked" /\ phase' = next
  /\ UNCHANGED <<fleet, here, strategy, floor>>

(* The best order of every group on every vehicle, then every partition.    *)
SearchExactly ==
  /\ Exact /\ Ask("found")
  /\ LET Winner(t, members) ==
           LET fit == {o \in OrdersOf(members) : Workable(t, o)}
           IN {o \in fit : \A q \in fit : o = <<>> \/ q = <<>> \/
                 ~Before(RouteKey(strategy, here.scores[t][q]), RouteKey(strategy, here.scores[t][o]))}
         options == [t \in Trucks(here.fleet) |-> UNION {Winner(t, members) : members \in SUBSET Jobs(here.fleet)}]
         partitions == {r \in [Trucks(here.fleet) -> UNION {options[t] : t \in Trucks(here.fleet)}] :
                          ValidPlan(here.scores, r) /\ \A t \in Trucks(here.fleet) : r[t] \in options[t]}
     IN Consider(BestPlan(here, strategy, partitions))
  /\ UNCHANGED <<work, astray>>

(* Without a budget the constructions are the answer.                       *)
SkipSearch == ~Exact /\ Ask("found") /\ UNCHANGED <<best, work, astray>>

StartSeed ==
  /\ ~Exact /\ Ask("seed")
  /\ work' = FirstSeeds[strategy][fleet]
  /\ UNCHANGED <<best, astray>>

-----------------------------------------------------------------------------
(* Neighbourhoods.                                                          *)

Inserted(routes) == UNION {InsertedAt(here, routes, job) : job \in Missing(routes)}

(* Relocations, swaps and reversals inside one route.                       *)
Reordered(routes) ==
  UNION {{[routes EXCEPT ![t] = o] : o \in OrdersOf(Range(routes[t]))} : t \in DOMAIN routes}

(* The end of a route for the end of another.                               *)
TailsExchanged(routes) ==
  {[routes EXCEPT ![c[1][1]] = SubSeq(@, 1, c[2]) \o SubSeq(routes[c[1][2]], c[3] + 1, Len(routes[c[1][2]])),
                  ![c[1][2]] = SubSeq(@, 1, c[3]) \o SubSeq(routes[c[1][1]], c[2] + 1, Len(routes[c[1][1]]))] :
     c \in UNION {{tu} \X (0 .. Len(routes[tu[1]])) \X (0 .. Len(routes[tu[2]])) :
                     tu \in {p \in (DOMAIN routes) \X (DOMAIN routes) : p[1] < p[2]}}}

Without(routes, jobs) == [t \in DOMAIN routes |-> LeftOver(routes[t], jobs)]

(* A delivery to another vehicle, and perhaps a missing one where it was.   *)
Displaced(routes) ==
  LET moved == UNION {{r \in InsertedAt(here, Without(routes, {job}), job) :
                         \A t \in Trucks(here.fleet) : job \in Range(routes[t]) => job \notin Range(r[t])} :
                        job \in Aboard(routes)}
  IN moved \cup UNION {Inserted(r) : r \in moved}

(* Two deliveries exchange their vehicles and their places.                 *)
Exchanged(routes) ==
  {[t \in DOMAIN routes |-> [i \in DOMAIN routes[t] |->
      IF routes[t][i] = ab[1] THEN ab[2] ELSE IF routes[t][i] = ab[2] THEN ab[1] ELSE routes[t][i]]] :
     ab \in Aboard(routes) \X Aboard(routes)}

(* The best place for a delivery on one vehicle.                            *)
BestOn(objective, routes, t, job) ==
  LET found == {r \in InsertedAt(here, routes, job) : r[t] # routes[t]}
  IN IF found = {} THEN {} ELSE {BestPlan(here, objective, found)}

-----------------------------------------------------------------------------
(* The older search: its own incumbent, under its own objective; again,     *)
(* under another one, when balanced work leaves a delivery out.             *)

SeedObjective == IF strategy = "balanced" /\ phase = "seed" THEN "balanced" ELSE "vehicles"

(* Its own constructions, in whatever order of the deliveries.              *)
SeedPlans ==
  [objective \in {"balanced", "vehicles"} |-> [f \in DOMAIN Fleets |->
    LET Insert(routes, job) ==
          LET found == InsertedAt(Books[f], routes, job)
          IN IF found = {} THEN routes ELSE BestPlan(Books[f], objective, found)
    IN {FoldLeft(Insert, Empty(Books[f]), order) : order \in OrdersOf(Jobs(Fleets[f]))}]]

SeedTrials ==
  SeedPlans[SeedObjective][fleet]
    \cup Inserted(work) \cup Reordered(work) \cup Displaced(work) \cup Exchanged(work)

ImproveSeed(routes) ==
  /\ phase \in {"seed", "again"}
  /\ ValidPlan(here.scores, routes) /\ Better(here, SeedObjective, routes, work)
  /\ work' = routes
  /\ UNCHANGED <<fleet, here, strategy, floor, best, astray, phase>>

(* Its plan competes under the objective of this search.                    *)
AdoptSeed ==
  /\ phase \in {"seed", "again"} /\ phase' = "build"
  /\ Consider(work)
  /\ work' = Empty(here)
  /\ UNCHANGED <<fleet, here, strategy, floor, astray>>

SeedAgain ==
  /\ phase = "seed" /\ phase' = "again" /\ strategy = "balanced"
  /\ Consider(work)
  /\ Missing(best') # {}
  /\ work' = best'
  /\ UNCHANGED <<fleet, here, strategy, floor, astray>>

-----------------------------------------------------------------------------
(* The constructions of this search, one delivery at a time; a part of one  *)
(* may already serve more than the plan.                                    *)

BuildNext(job) ==
  /\ phase = "build" /\ job \in Missing(work)
  /\ InsertedAt(here, work, job) # {}
  /\ LET routes == BestPlan(here, strategy, InsertedAt(here, work, job))
     IN work' = routes /\ Consider(routes)
  /\ UNCHANGED <<fleet, here, strategy, floor, astray, phase>>

BuildAgain ==
  /\ phase = "build" /\ work # Empty(here)
  /\ work' = Empty(here)
  /\ UNCHANGED <<fleet, here, strategy, floor, best, astray, phase>>

-----------------------------------------------------------------------------
(* What is missing: inserted, or in the place of another delivery that goes *)
(* somewhere else, or after a part of the plan is taken away.               *)

InsertMissing(job) ==
  /\ phase \in {"repair", "rounds"} /\ astray = {} /\ job \in Missing(best)
  /\ InsertedAt(here, best, job) # {}
  /\ Consider(BestPlan(here, strategy, InsertedAt(here, best, job)))
  /\ work' = IF phase = "rounds" THEN best' ELSE work
  /\ UNCHANGED <<fleet, here, strategy, floor, astray, phase>>

(* A plan of the repair population: worse than the incumbent by three       *)
(* deliveries at most.                                                      *)
RepairBases ==
  {best} \cup {r \in here.plans : phase = "repair" /\ Missing(r) # {} /\ Served(r) >= Served(best) - 3}

EjectFirst(base, t, missing, removed) ==
  /\ phase = "repair" /\ astray = {}
  /\ work' \in BestOn(strategy, Without(base, {removed}), t, missing)
  /\ astray' = {removed}
  /\ UNCHANGED <<fleet, here, strategy, floor, best, phase>>

(* The one that was displaced displaces another, one step deep.             *)
EjectNext(t, removed) ==
  /\ phase = "repair" /\ Cardinality(astray) = 1 /\ removed \in Range(work[t])
  /\ \E job \in astray : work' \in BestOn(strategy, Without(work, {removed}), t, job)
  /\ astray' = {removed}
  /\ UNCHANGED <<fleet, here, strategy, floor, best, phase>>

Land ==
  /\ phase = "repair" /\ astray # {}
  /\ \E job \in astray :
       IF InsertedAt(here, work, job) = {} THEN best' = best
       ELSE Consider(BestPlan(here, strategy, InsertedAt(here, work, job)))
  /\ work' = Empty(here) /\ astray' = {}
  /\ UNCHANGED <<fleet, here, strategy, floor, phase>>

(* A part of a plan is taken away, if what stays can be worked.             *)
TakeApart(base, removed) ==
  /\ phase \in {"repair", "rounds", "ruin"} /\ astray = {} /\ removed # {}
  /\ ValidPlan(here.scores, Without(base, removed))
  /\ work' = Without(base, removed) /\ astray' = Missing(Without(base, removed))
  /\ UNCHANGED <<fleet, here, strategy, floor, best, phase>>

(* One at a time, each where it is best on some vehicle.                    *)
PutBack(job) ==
  /\ phase \in {"repair", "rounds", "ruin"} /\ job \in astray
  /\ \E t \in Trucks(here.fleet) : work' \in BestOn(strategy, work, t, job)
  /\ astray' = astray \ {job}
  /\ UNCHANGED <<fleet, here, strategy, floor, best, phase>>

Rebuilt ==
  /\ phase \in {"repair", "rounds", "ruin"} /\ work # Empty(here)
  /\ Consider(work)
  /\ work' = (IF phase = "rounds" THEN best' ELSE Empty(here)) /\ astray' = {}
  /\ UNCHANGED <<fleet, here, strategy, floor, phase>>

-----------------------------------------------------------------------------
(* The rounds: the neighbours of the plan as the round began.               *)

StartRound ==
  /\ phase = "rounds" /\ astray = {}
  /\ work' = best
  /\ UNCHANGED <<fleet, here, strategy, floor, best, astray, phase>>

Neighbours == Reordered(work) \cup TailsExchanged(work) \cup Displaced(work) \cup Exchanged(work)

TryNeighbour(routes) ==
  /\ phase = "rounds" /\ astray = {} /\ work # Empty(here)
  /\ Consider(routes)
  /\ UNCHANGED <<fleet, here, strategy, floor, work, astray, phase>>

(* Every route that was met, one for each group on each vehicle, and those  *)
(* of the plan: the best plan they make.                                    *)
Recombine(pool) ==
  /\ phase = "pool" /\ phase' = "found"
  /\ LET Own(t) == {o \in {best[t], <<>>} : TRUE} \cup {r[2] : r \in {q \in pool : q[1] = t}}
         Kept(t) == {o \in Own(t) : \A q \in Own(t) : o # <<>> /\ Range(q) = Range(o) =>
                       ~Before(RouteKey(strategy, here.scores[t][q]), RouteKey(strategy, here.scores[t][o]))}
         made == {r \in [Trucks(here.fleet) -> UNION {Kept(t) : t \in Trucks(here.fleet)}] :
                    ValidPlan(here.scores, r) /\ \A t \in Trucks(here.fleet) : r[t] \in Kept(t)}
     IN Consider(BestPlan(here, strategy, made))
  /\ UNCHANGED <<fleet, here, strategy, floor, work, astray>>

MetRoutes == {r \in Trucks(here.fleet) \X (OrdersWithin(Jobs(here.fleet)) \ {<<>>}) : Workable(r[1], r[2])}

NextPhase ==
  /\ phase \in {"build", "repair", "rounds", "ruin"}
  /\ phase' = Phases[1 + CHOOSE i \in DOMAIN Phases : Phases[i] = phase]
  /\ work' = Empty(here) /\ astray' = {}
  /\ UNCHANGED <<fleet, here, strategy, floor, best>>

SearchNext ==
  \/ SearchExactly \/ SkipSearch \/ StartSeed \/ AdoptSeed \/ SeedAgain \/ BuildAgain
  \/ Land \/ Rebuilt \/ StartRound \/ NextPhase
  \/ \E job \in Jobs(here.fleet) : BuildNext(job) \/ InsertMissing(job) \/ PutBack(job)
  \/ phase \in {"seed", "again"} /\ \E routes \in SeedTrials : ImproveSeed(routes)
  \/ phase = "rounds" /\ \E routes \in Neighbours : TryNeighbour(routes)
  \/ \E base \in RepairBases : \E removed \in SUBSET Aboard(base) : TakeApart(base, removed)
  \/ \E base \in RepairBases, t \in Trucks(here.fleet) : \E missing \in Missing(base), removed \in Range(base[t]) :
       EjectFirst(base, t, missing, removed)
  \/ \E t \in Trucks(here.fleet), removed \in Jobs(here.fleet) : EjectNext(t, removed)
  \/ phase = "pool" /\ \E pool \in kSubset(PoolRoutes, MetRoutes) : Recombine(pool)

-----------------------------------------------------------------------------

SearchTypeOK ==
  /\ fleet \in DOMAIN Fleets /\ strategy \in Strategies \cup {"distance"}
  /\ {floor, best} \subseteq here.plans
  /\ Cardinality(Aboard(work)) = Served(work) /\ astray \subseteq Jobs(here.fleet)
  /\ phase \in Range(Phases) \cup {"asked"}

(* What a search promises: a plan without repetitions, that every driver    *)
(* can work from the true start to the true end, with the evaluation that   *)
(* the whole calendar gives for that very driver; never worse than the      *)
(* constructions; and the best there is if the search was exhaustive.       *)
SearchIsSound ==
  phase # "asked" =>
    /\ SearchTypeOK
    /\ ValidPlan(here.scores, best) /\ ~Better(here, strategy, floor, best)
    /\ \A t \in DOMAIN best : best[t] # <<>> =>
         here.scores[t][best[t]] = ScoreOf(here.fleet, t, best[t])
    /\ phase = "found" /\ Exact => \A r \in here.plans : ~Better(here, strategy, r, best)

=============================================================================
