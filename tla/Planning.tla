------------------------------- MODULE Planning -------------------------------
(***************************************************************************)
(* What one scheduling cycle computes between its awaits                   *)
(* (src/optimizer/scheduler.py): candidates from a snapshot of the         *)
(* warehouse, at most one per SKU, and tasks from the candidates, by the   *)
(* greedy path, by the assignment solver (src/optimizer/assignment.py) or  *)
(* by the RL policy with the solver to fall back on                        *)
(* (src/optimizer/rl_policy.py).  Scheduler.tla has the cycles themselves. *)
(*                                                                         *)
(* A candidate is its pair <<appointment, position>>, from which all its   *)
(* fields follow.  CP-SAT and the policy network are external: the solver  *)
(* returns any assignment its model admits, a best one if it is not timed  *)
(* out, and the network any action its mask admits.                        *)
(***************************************************************************)
EXTENDS ValueFunction, FiniteSets, FiniteSetsExt

CONSTANTS
    Warehouses,        \* what get_warehouse_state may return
    Paths,             \* configured ways to dispatch: "greedy", "or", "rl"
    MinScore,          \* config.min_score_threshold
    MaxCandidates,     \* config.max_candidates
    BatchSize,         \* config.dispatch_batch_size
    Resources,         \* config.available_resources
    FallbackResources, \* the policy's fallback_resources
    MaxDistance,       \* config.max_staging_distance_meters
    PolicyActions      \* candidates the policy network can name

Warehouse ==
    [stock : Seq(InventoryPosition),
     staging : Seq(Location),
     appointments : Seq(Int),
     orders : Seq(OutboundOrder),
     full : SUBSET Location,
     busy : Nat]

ASSUME PlanningAssumption ==
    /\ \A w \in Warehouses : w \in Warehouse
    /\ Paths \subseteq {"greedy", "or", "rl"}
    /\ MinScore \in Int
    /\ {MaxCandidates, BatchSize, Resources, FallbackResources, PolicyActions} \subseteq Nat

VARIABLES
    path,       \* how this scheduler dispatches
    wh,         \* the snapshot
    suppressed, \* SKUs, of those asked about, that the rejection store suppresses
    pc,
    at,         \* the pair the two nested loops are at
    next,       \* where the loop over candidates stands
    candidates, \* candidates before deduplication
    best,       \* best_by_sku, in the order of its keys
    offered,    \* what generate_candidates returns
    status,     \* solver_status, or "NONE"
    tasks       \* the tasks of the cycle

vars == <<path, wh, suppressed, pc, at, next, candidates, best, offered, status, tasks>>

-----------------------------------------------------------------------------
(* Candidates of a warehouse.                                              *)

Pairs(w) == (DOMAIN w.appointments) \X (DOMAIN w.stock)

SkuOf(w, c) == w.stock[c[2]].sku
From(w, c) == w.stock[c[2]].loc
Door(w, c) == w.appointments[c[1]]

Distance(l, m) == Manhattan(Site[l], Site[m])

(* The spots of the door if it has any, else all.                          *)
Spots(w, door) ==
    LET mine == {i \in DOMAIN w.staging : Site[w.staging[i]].door = door}
    IN  IF mine = {} THEN DOMAIN w.staging ELSE mine

(* _find_best_staging_location: the nearest to the pallet, the first on    *)
(* ties.                                                                   *)
StagingFor(w, from, door) ==
    w.staging[CHOOSE i \in Spots(w, door) : \A j \in Spots(w, door) :
        LET di == Distance(from, w.staging[i])
            dj == Distance(from, w.staging[j])
        IN  di < dj \/ (di = dj /\ i <= j)]

To(w, c) == StagingFor(w, From(w, c), Door(w, c))

MoveOf(w, c) == [sku |-> SkuOf(w, c), from |-> From(w, c), to |-> To(w, c)]

Value(w, c) == Score(w, MoveOf(w, c))

StagedAlready(w, c) ==
    Site[From(w, c)].staging /\ Site[From(w, c)].door = Door(w, c)

(* What a pair must pass to become a candidate.                            *)
Passes(w, c) ==
    /\ w.staging # <<>>
    /\ ~ StagedAlready(w, c)
    /\ From(w, c) # To(w, c)
    /\ Feasible(w, MoveOf(w, c))
    /\ Value(w, c) >= MinScore

-----------------------------------------------------------------------------
Init ==
    /\ path \in Paths
    /\ wh \in Warehouses
    /\ suppressed = {}
    /\ pc = IF wh.appointments = <<>> THEN "select" ELSE "generate"
    /\ at = <<1, 1>>
    /\ next = 1
    /\ candidates = <<>>
    /\ best = <<>>
    /\ offered = <<>>
    /\ status = "NONE"
    /\ tasks = {}

InLoops == at[1] <= Len(wh.appointments) /\ at[2] <= Len(wh.stock)

(* One turn of the loops over appointments and positions.                  *)
Consider ==
    /\ pc = "generate"
    /\ InLoops
    /\ candidates' = IF Passes(wh, at) THEN Append(candidates, at) ELSE candidates
    /\ at' = IF at[2] < Len(wh.stock) THEN <<at[1], at[2] + 1>> ELSE <<at[1] + 1, 1>>
    /\ UNCHANGED <<path, wh, suppressed, pc, next, best, offered, status, tasks>>

Considered ==
    /\ pc = "generate"
    /\ ~ InLoops
    /\ pc' = "deduplicate"
    /\ UNCHANGED <<path, wh, suppressed, at, next, candidates, best, offered, status, tasks>>

Existing(c) == {i \in DOMAIN best : SkuOf(wh, best[i]) = SkuOf(wh, c)}

Beats(c, d) == Value(wh, c) > Value(wh, d)

(* One turn of the loop that keeps the best candidate per SKU; its key     *)
(* keeps its place.                                                        *)
Deduplicate ==
    /\ pc = "deduplicate"
    /\ next <= Len(candidates)
    /\ LET c == candidates[next] IN
          best' = IF Existing(c) = {} THEN Append(best, c)
                  ELSE [i \in DOMAIN best |->
                           IF i \in Existing(c) /\ Beats(c, best[i]) THEN c ELSE best[i]]
    /\ next' = next + 1
    /\ UNCHANGED <<path, wh, suppressed, pc, at, candidates, offered, status, tasks>>

(* A stable sort by falling value.                                         *)
Precedes(s, i, j) ==
    \/ Value(wh, s[i]) > Value(wh, s[j])
    \/ Value(wh, s[i]) = Value(wh, s[j]) /\ i < j

Rankings(s, places) ==
    {p \in [1..Cardinality(places) -> places] :
        \A i, j \in DOMAIN p : i < j => Precedes(s, p[i], p[j])}

ListedOfTheFirst(barred) ==
    {i \in DOMAIN best :
        /\ SkuOf(wh, best[i]) \notin barred
        /\ Cardinality({j \in DOMAIN best : Precedes(best, j, i)}) < MaxCandidates}

(* Suppressed SKUs go before the list is cut.                              *)
Listed(barred) == {i \in DOMAIN best : SkuOf(wh, best[i]) \notin barred}

Cut(n) == Least(n, MaxCandidates)

(* The answers of the rejection store, and what generate_candidates        *)
(* returns.                                                                *)
Offer ==
    /\ pc = "deduplicate"
    /\ next > Len(candidates)
    /\ suppressed' \in SUBSET {SkuOf(wh, best[i]) : i \in DOMAIN best}
    /\ \E p \in Rankings(best, Listed(suppressed')) :
          offered' = [k \in 1..Cut(Cardinality(Listed(suppressed'))) |-> best[p[k]]]
    /\ pc' = "select"
    /\ UNCHANGED <<path, wh, at, next, candidates, best, status, tasks>>

-----------------------------------------------------------------------------
(* From candidates to tasks.                                               *)

Task(c, spot) == [candidate |-> c, to |-> spot]

End(ts, st) ==
    /\ tasks' = ts
    /\ status' = st
    /\ pc' = "done"
    /\ UNCHANGED <<path, wh, suppressed, at, next, candidates, best, offered>>

(* The greedy path and dispatch_top_movements: the first n, each to the    *)
(* place it was scored for.                                                *)
Greedy(n) == {Task(offered[i], To(wh, offered[i])) : i \in 1..Least(n, Len(offered))}

SelectGreedy ==
    /\ pc = "select"
    /\ path = "greedy" \/ offered = <<>>
    /\ End(Greedy(BatchSize), "NONE")

(* The staging locations the candidates name.                              *)
NamedSpots == {To(wh, offered[i]) : i \in DOMAIN offered}

(* The solver's mask.  The zone it goes by is the one the pallet is in.    *)
Assignable(c, spot) ==
    /\ ZoneFitsZone(Site[From(wh, c)].zone, Site[spot].zone)
    /\ Distance(From(wh, c), spot) <= MaxDistance

(* score_components never has a "hazmat_class".                            *)
ComponentClass(c) == NoClass

(* _add_hazmat_constraints: incompatible candidates in different aisles.   *)
Separated(f) ==
    \A i, j \in DOMAIN f :
        i < j /\ SolverIncompatible(ComponentClass(offered[i]), ComponentClass(offered[j]))
            => Site[f[i]].aisle # Site[f[j]].aisle

OnePerSpot(f) == \A i, j \in DOMAIN f : f[i] = f[j] => i = j

(* The solutions of the solver's model: which candidates go where.         *)
Assignments(resources) ==
    {f \in UNION {[chosen -> NamedSpots] : chosen \in SUBSET DOMAIN offered} :
        /\ Cardinality(DOMAIN f) <= resources
        /\ OnePerSpot(f)
        /\ \A i \in DOMAIN f : Assignable(offered[i], f[i])
        /\ Separated(f)}

Worth == [i \in DOMAIN offered |-> Value(wh, offered[i])]

Total(chosen) == SumFunctionOnSet(Worth, chosen)

Optimal(f, resources) ==
    \A g \in Assignments(resources) : Total(DOMAIN g) <= Total(DOMAIN f)

LastOf(f, n) ==
    {i \in DOMAIN f : Cardinality({j \in DOMAIN f : Precedes(offered, i, j)}) < n}

(* The first n of an assignment, sorted by score.                          *)
FirstOf(f, n) ==
    {i \in DOMAIN f : Cardinality({j \in DOMAIN f : Precedes(offered, j, i)}) < n}

Batch(f) == {Task(offered[i], f[i]) : i \in FirstOf(f, BatchSize)}

(* solve(), its answer cut to a batch: a best assignment, any if it is     *)
(* timed out, none if it has found none or there is nothing to assign.     *)
Solve(resources) ==
    IF \E i \in DOMAIN offered, spot \in NamedSpots : Assignable(offered[i], spot)
    THEN \/ \E f \in Assignments(resources) :
               \/ Optimal(f, resources) /\ End(Batch(f), "OPTIMAL")
               \/ End(Batch(f), "FEASIBLE")
         \/ End({}, "UNKNOWN")
    ELSE End({}, "INFEASIBLE")

SelectAssigned ==
    /\ pc = "select"
    /\ path = "or"
    /\ offered # <<>>
    /\ Solve(Resources)

(* The policy's choice: a candidate the mask admits, to its own place.     *)
SelectByPolicy ==
    /\ pc = "select"
    /\ path = "rl"
    /\ \E i \in 1..Least(Len(offered), PolicyActions) :
          End(IF BatchSize = 0 THEN {} ELSE {Task(offered[i], To(wh, offered[i]))}, "NONE")

(* NO_OP, no model, or an exception of it.                                 *)
PolicyFallsBack ==
    /\ pc = "select"
    /\ path = "rl"
    /\ offered # <<>>
    /\ Solve(FallbackResources)

Next ==
    \/ Consider \/ Considered \/ Deduplicate \/ Offer
    \/ SelectGreedy \/ SelectAssigned \/ SelectByPolicy \/ PolicyFallsBack

Spec == Init /\ [][Next]_vars

-----------------------------------------------------------------------------
Candidate == Pairs(wh)

TypeOK ==
    /\ path \in Paths
    /\ wh \in Warehouses
    /\ suppressed \subseteq Sku
    /\ pc \in {"generate", "deduplicate", "select", "done"}
    /\ at \in (Nat \ {0}) \X (Nat \ {0})
    /\ next \in Nat \ {0}
    /\ candidates \in Seq(Candidate)
    /\ best \in Seq(Candidate)
    /\ offered \in Seq(Candidate)
    /\ Len(offered) <= MaxCandidates
    /\ status \in {"NONE", "OPTIMAL", "FEASIBLE", "UNKNOWN", "INFEASIBLE"}
    /\ tasks \subseteq [candidate : Candidate, to : Location]
    /\ pc # "done" => tasks = {}

Free(c) == SkuOf(wh, c) \notin suppressed

(* What the loops amount to: among all pairs of the snapshot that pass and *)
(* whose SKU is free, each SKU's best one is offered, once; a SKU is left  *)
(* out only when the list is full of better ones; and the list falls.      *)
NothingBetterIsLeftOut ==
    pc = "select" =>
        /\ \A i, j \in DOMAIN offered :
              i < j => /\ SkuOf(wh, offered[i]) # SkuOf(wh, offered[j])
                       /\ Value(wh, offered[i]) >= Value(wh, offered[j])
        /\ \A i \in DOMAIN offered : Passes(wh, offered[i]) /\ Free(offered[i])
        /\ \A c \in Candidate : Passes(wh, c) /\ Free(c) =>
              \/ \E i \in DOMAIN offered :
                    /\ SkuOf(wh, offered[i]) = SkuOf(wh, c)
                    /\ ~ Beats(c, offered[i])
              \/ /\ Len(offered) = MaxCandidates
                 /\ \A i \in DOMAIN offered : ~ Beats(c, offered[i])

(* Stock that is where its temperature zone allows.                        *)
WellStored(w) ==
    \A i \in DOMAIN w.stock :
        Site[w.stock[i].loc].zone \in AcceptableZones(Needs[w.stock[i].sku])

(* Whoever selects, no task is of a suppressed SKU or goes to a place that *)
(* is full, although the solver moves pallets to places that were checked  *)
(* for another; and none leaves the zones its SKU can stand, as long as    *)
(* its pallet is in one, though the solver never looks at the SKU.         *)
TasksSuitTheirPlace ==
    \A t \in tasks :
        /\ Free(t.candidate)
        /\ t.to \notin wh.full
        /\ WellStored(wh) => Site[t.to].zone \in AcceptableZones(Needs[SkuOf(wh, t.candidate)])

Budget == IF path = "or" THEN Resources ELSE FallbackResources

(* Cutting a best assignment to a batch loses nothing: no assignment of a  *)
(* batch of pallets is worth more, though the solver optimized another sum.*)
CutLosesNothing ==
    status = "OPTIMAL" =>
        \A g \in Assignments(Least(BatchSize, Budget)) :
            Total(DOMAIN g) <= SumFunction([t \in tasks |-> Value(wh, t.candidate)])

(* Every candidate brings its pallet nearer to the door of some truck that *)
(* loads its SKU, although candidates are made for every appointment and   *)
(* valued for another, if moves without value are below the threshold.     *)
CandidatesApproachTheirTruck ==
    MinScore > 0 =>
        \A i \in DOMAIN candidates :
            LET move == MoveOf(wh, candidates[i])
            IN  \E a \in DOMAIN wh.appointments :
                    /\ Loads(wh, a, move.sku)
                    /\ TimeSaved(move.from, move.to, DoorSite(wh.appointments[a])) > 0

(* What makes them inductive.  The pairs before the loops' place have been *)
(* considered; of the candidates before the loop's place, each SKU's entry *)
(* is beaten by none; and nothing is offered before the loops are through. *)
LoopsCover ==
    /\ at[2] = 1 \/ at[2] <= Len(wh.stock)
    /\ \A i \in DOMAIN candidates : Passes(wh, candidates[i])
    /\ \A c \in Candidate :
          Passes(wh, c) /\ (pc = "generate" => Before(c, at)) =>
              \E i \in DOMAIN candidates : candidates[i] = c

BestCovers ==
    /\ pc = "generate" => next = 1
    /\ pc = "select" => next > Len(candidates)
    /\ \A i \in DOMAIN best : Passes(wh, best[i])
    /\ \A i, j \in DOMAIN best : SkuOf(wh, best[i]) = SkuOf(wh, best[j]) => i = j
    /\ \A i \in DOMAIN candidates : i < next =>
          \E k \in DOMAIN best :
              /\ SkuOf(wh, best[k]) = SkuOf(wh, candidates[i])
              /\ ~ Beats(candidates[i], best[k])

NothingYet == pc \in {"generate", "deduplicate"} => offered = <<>>

TasksAreOffered ==
    /\ IsFiniteSet(tasks)
    /\ \A t \in tasks : \E i \in DOMAIN offered : offered[i] = t.candidate

PlanningInvariant ==
    /\ TypeOK
    /\ TasksAreOffered
    /\ LoopsCover
    /\ BestCovers
    /\ NothingYet
    /\ NothingBetterIsLeftOut
    /\ TasksSuitTheirPlace

(* A status is a cycle's that is over.                                     *)
CutInvariant ==
    /\ PlanningInvariant
    /\ status # "NONE" => pc = "done"
    /\ CutLosesNothing

-----------------------------------------------------------------------------
(* "Hard constraints (temperature, hazmat, capacity) are NEVER relaxed.    *)
(* They filter before scoring." (src/IMPLEMENTATION.md)                    *)
HardConstraintsAreKept ==
    \A t \in tasks :
        Feasible(wh, [sku |-> SkuOf(wh, t.candidate), from |-> From(wh, t.candidate), to |-> t.to])

(* "No two incompatible hazmat SKUs are assigned to the same staging area  *)
(* (locations sharing the same aisle are considered adjacent)"             *)
(* (optimizer/assignment.py)                                               *)
SolverSeparatesHazmat ==
    status \in {"OPTIMAL", "FEASIBLE"} =>
        \A t, u \in tasks :
            /\ Incompatible(Class[SkuOf(wh, t.candidate)], Class[SkuOf(wh, u.candidate)])
            => Site[t.to].aisle # Site[u.to].aisle

(* "SKU temperature zone is compatible with the assigned location's zone"  *)
(* (optimizer/assignment.py)                                               *)
SolverKeepsZones ==
    \A t \in tasks : Site[t.to].zone \in AcceptableZones(Needs[SkuOf(wh, t.candidate)])

(* "Skip if source and target are the same" (optimizer/scheduler.py)       *)
TargetIsNotSource == \A t \in tasks : t.to # From(wh, t.candidate)

(* "Staging location distance from candidate's dock door does not exceed   *)
(* max_staging_distance_meters" (optimizer/assignment.py)                  *)
TargetIsNearDoor ==
    status \in {"OPTIMAL", "FEASIBLE"} =>
        \A t \in tasks :
            Manhattan(Site[t.to], DoorSite(Door(wh, t.candidate))) <= MaxDistance

(* "Pre-stage for appointment ... at dock door ..." (the reason a task     *)
(* gives; optimizer/scheduler.py): that truck loads the SKU.               *)
ReasonIsRight ==
    \A i \in DOMAIN offered : Loads(wh, offered[i][1], SkuOf(wh, offered[i]))

(* "A SKU with a confirmed order for an approaching appointment scores     *)
(* higher than a SKU with no order." (src/IMPLEMENTATION.md)               *)
OrderedScoresHigher ==
    \A c, d \in Candidate : wh.staging # <<>> =>
        (Departures(wh, SkuOf(wh, c)) # {} /\ Departures(wh, SkuOf(wh, d)) = {}
            => Value(wh, c) > Value(wh, d))
=============================================================================
