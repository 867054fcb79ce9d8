# AReasonableWMS in TLA+

TLA+ specifications, TLC configurations and TLAPS proofs for the warehouse
pre-positioning optimizer: an asyncio service that every few minutes looks at
the warehouse through its WMS, scores pallet moves ahead of truck arrivals,
pushes the best ones to a queue in Redis, and lets operators approve, reject,
acknowledge and complete them.

Paths below are relative to `warehouse-preposition-optimizer/src/`.

## 1. The system

| Component | State it keeps | Operations | What is hard | What makes it correct |
|---|---|---|---|---|
| Task queue (`dispatch/task_queue.py`) | per task, in Redis: record, sorted-set entry, expiry marker; two metrics | `push`, `update_status`, `expire_old_tasks`, `get_task`, `pop`, `get_active_tasks` | every command is an await; read, then write, without comparing; keys lapse | finished tasks leave the queue, unstarted ones stay, nothing started is forgotten, only overdue tasks are cancelled |
| Movement routes (`api/routes/movements.py`) | none | list, approve, reject, acknowledge, complete, clear | checks made before an await; ids that are minted anew by each request | events follow records; an approval finds its candidate |
| Rejection store (`dispatch/rejection_store.py`) | per movement and per SKU a key with a time to live; a capped history | `record`, `clear`, `is_sku_suppressed`, `get_history` | movements share the key of their SKU; `clear` reads, then deletes | a rejected SKU stays suppressed; suppression ends |
| Scheduler (`optimizer/scheduler.py`, `api/routes/scheduler.py`) | statistics of the last cycle | `generate_candidates`, `run_cycle`, `get_status` | the loop and trigger calls overlap on one object; each push may fail | what was suppressed all along is not sent; statistics are of one cycle |
| Background loop (`api/main.py`) | none | sleep, cycle, catch, until cancelled | any step raises | the loop goes on |
| WebSocket feed (`api/websocket.py`) | list of sockets | connect, disconnect, broadcast | the list changes at every awaited send | every client that stays gets each event once; no dead socket stays |
| WMS reads (`ingestion/adapters/generic_db.py`, `wms_adapter.py`) | five keys in Redis | five reads, `get_warehouse_state` | readers overlap and write back old answers; Redis fails | the cache is never older than its time to live and one query; rest is noticed |
| Prediction (`prediction/inference.py`) | circuit breaker, cache | `predict`, `explain`, `circuit_state` | the state changes as it is read; the cache answers for the model | a failing model is left alone, a healthy one is used again |
| Weights (`api/routes/config.py`) | two copies | get, update | copies set in different places | see section 6 |
| Digital twin, RL environment (`simulation/`) | inventory, forklifts, trucks, metrics; candidates of a step | `run`, `apply_movement`; `reset`, `step` | jobs share forklifts; candidates are stale | metrics add up; shaping rewards telescope |
| Constraint engine (`constraints/`) | none | `evaluate` with its temperature, hazmat and capacity filters | tables; which stock counts | no move into a full place or a wrong zone |
| Value function (`scoring/value_function.py`, `demand_predictor.py`) | none | `score` | picks one of many trucks and orders; short cuts; divisions | a candidate brings its pallet nearer to a truck that loads it |
| Assignment solver, RL policy (`optimizer/assignment.py`, `rl_policy.py`) | none | `solve`, `select` | reassigns places; tables of its own; the answer is cut | tasks suit their places; the cut costs nothing |
| Route planner (`optimizer/routing.py`) | a graph of the building | `add_edge`, `plan` | edges overwrite each other; legs of no time; what is extracted from a solution | each task is routed once, a resource is at one stop at a time |
| File importers (`ingestion/csv_loader.py`, `floor_plan_parser.py`, `../scripts/import_*.py`) | seven tables of the database | parse a drawing, read a directory, generate SQL, apply | statements fail half way; table order under foreign keys; what is drawn twice; generated ids | an import is all or nothing; files that fit are imported; ids differ; aisles are bands |

How they interact: a cycle of the scheduler calls the WMS reads, the
constraint engine and the value function (which calls the prediction), asks
the rejection store about each candidate, pushes to the task queue and
broadcasts; routes call the same objects from their own coroutines. All of it
is one asyncio process (imports are programs of their own): between two awaits a coroutine runs alone, at an await
every other one and the clock of the Redis server may move. Nothing holds a
lock across an await, and no Redis write is conditional. **One action of a
model is therefore the code between two awaits, with the command it awaits.**
A Redis pipeline is a transaction, and one action.

## 2. The modules

| Module | Models | State and actions |
|---|---|---|
| `TaskQueue` | the queue with the acknowledge and complete routes and the sweep | a record is its status; `pc[r]` is where call `r` stands; `Get`, `Set`, `Zrem`, `Zcard` are the awaits of `update_status`; `MarkerLapse`, `DataLapse` the server's clock; `Abort` a Redis error at any await, `RemovalUnanswered` one for a `ZREM` that was applied |
| `TaskListing` | `pop` and `get_active_tasks` over `TaskQueue` | one read of the ids, then one per record; ids stand for their scores |
| `TaskLifecycle` | abstract: what a task may go through | `status` only |
| `TaskQueueSerial` | `TaskQueue` when calls take turns | the refinement mapping `statusOf`; the application as `main.py` wires it (`AppSpec`) |
| `RejectionStore` | the store and its routes | times to live in ticks; `clear` in two steps |
| `Scheduler` | cycles of the loop and of trigger calls | what a cycle holds between its awaits; the surroundings change what is eligible and suppressed |
| `Constraints` | the constraint engine, and the tables of engine and solver | operators only; a location is its attributes, a SKU its class and zone |
| `ValueFunction` | the value of a move | operators only, on fixed-point integers |
| `Planning` | what a cycle computes between its awaits, by each dispatch path | a candidate is its pair of appointment and position; `Consider` and `Deduplicate` are turns of the code's loops, `Offer` the answers of the rejection store with sort and cut, `Select*` a dispatch path |
| `Routes` | the route planner, for the tasks that `Planning` selected | `Plan` takes a graph, a speed, a number of resources, a depot and a horizon; the solver gives any assignment of tasks to resources, in any order, that fits the horizon |
| `FloorPlan` | `FloorPlanParser` | an entity is its layer, its centroid and the id drawn at it; `ReadEntity`, `Merge`, `NumberLocation` are turns of the code's loops |
| `Import` | the importers, over `FloorPlan`; the database (external) with its keys, foreign keys and transactions | a row is its key, its references and what is wrong with it; a script is a sequence of statements, one executed per step, any of which may fail or lose its connection |
| `CandidateRoutes` | candidates from listing to approval, rejection and explanation | ids are minted by every generation |
| `EventFeed` | registry, handlers, broadcasts | a broadcast walks over its copy, a send per step |
| `WmsCache` | snapshots of cached reads | a value is a version of the database; `Hit`, `Miss`, `Query`, `Store` are the awaits of a read |
| `Inference` | breaker, prediction cache, weights | every operation is free of awaits, hence one action; time in ticks |
| `DigitalTwin` | a simulated shift | a SimPy process is a job, its code at one event an action; `Advance` is the event loop |
| `WarehouseEnv` | composition: `DigitalTwin` with the environment that drives a twin of its own | `Reset`, `Step` |
| `MC*` | instances for TLC | |
| `*Proofs` | theorems about the module of that name and others of its kind | `SchedulerProofs`: also `Inference`; `RedisProofs`: `RejectionStore` and `WmsCache`; `PlanningProofs`: also `Routes`; `ImportProofs`: also `FloorPlan`; `SimulationProofs`: `WarehouseEnv` with its `DigitalTwin`; `TaskQueueProofs`: also `TaskListing`, `TaskQueueSerial` |
| `Sums` | lemmas | what a sum over a finite set is |

In `Planning` one action is one turn of a loop, although no await lies between
the turns, for the invariants of the loops; there is one actor, so nothing is
interleaved that the code does not interleave. `CP-SAT` is any assignment its
model admits, a best one when it reports `OPTIMAL`; the policy is any choice its
mask admits; the routing solver any set of tours within the horizon, or none
under any of its other statuses.

What is abstracted: payloads, texts, metrics nobody reads, and, outside
`Planning`, scores (orders in which candidates or ids come, left open).
`Scheduler` takes the candidates of a cycle as a set that `Planning` explains.
`TaskListing`, `WarehouseEnv`, `Routes` and `Import`
extend the component they compose with; `TaskQueueSerial` restricts it.
A CSV cell is what comes of it (fine, bad, blank), coordinates are integers, an
id is its prefix and its number. The value function reads the clock for each
score (`value_function.py:251`); here an order's urgency is that of its snapshot,
the same for all candidates of a cycle. Of the twin's metrics
`total_seconds_saved` is left out: it is the number of fast loads times a constant.
`Scheduler` keeps the SKUs that the two numbers of the status count, so that a
property can tell whether they are of one cycle; the code keeps their numbers.

## 3. The runs

| Run | Question | Bounds, and why they are enough |
|---|---|---|
| `queue_safety` | what does the queue keep whatever interleaves, with Redis failing or its replies lost anywhere, beside a listing? | two tasks, two overlapping calls of any kind, one listing, `pop` with 0 and 1. A race of `update_status` needs two calls on one task; a second task shows that they do not disturb others and that scans go on. A call is used once, so three calls in a row are left to `queue_serial` |
| `queue_liveness` | does every call end and leave the queue clean? | the same without failures |
| `queue_serial` | does the queue implement `TaskLifecycle` when calls take turns? | two tasks, three calls: enough for start, finish and a call too many |
| `rejection` | is a rejected SKU suppressed for as long as it should, and no longer? | two movements of one SKU, one movement of none, two clears, a window of three ticks (a rejection half way through another's), a history of two (it overflows) |
| `scheduler` | overlapping cycles | the loop and one trigger call, two SKUs, more candidates than the batch |
| `planning` | what is offered, dispatched and routed, from one snapshot? | 1152 warehouses: up to four positions of four SKUs (two of incompatible classes, one chilled), no, one or two trucks in either order, two orders or more (one not loading the SKU), up to three staging spots (one frozen, one full), every answer of the rejection store, every assignment of the solver; a list of three and a batch of two, so that both overflow or the solver has more resources than the batch; three planners: two resources over a graph with one-way, overwritten and missing edges and a short horizon, one resource from a depot at speed 0, none |
| `feed` | delivery and registry | two sockets, two broadcasts: a broadcast prunes the other's sockets, and a handler does |
| `wms` | how stale is a snapshot? | two pieces, two readers (one overtakes the other), two changes, a time to live of two ticks, queries of one |
| `inference` | the breaker's promises | three failures, three ticks: strictly more than one step from every boundary |
| `approval_refused` | finding: no candidate can be approved | six ids, two per generation |
| `imports` | what do a drawing and files become, and what does the database hold when statements fail? | drawings of up to four of twelve entities (racks in a row, a chain of rows, lanes in two aisles, ids drawn that could be generated, entities on top of each other): three make a chain, the fourth stands beside it. Ten directories (all tables, files that do not fit, cannot be read or are empty), imported twice in a row, with and without truncation, `BEGIN` and driver, into an empty and a filled database; the connection may be lost at any statement |
| `simulation` | a shift's books | 48 shifts (two sets of movements, three trucks), two forklifts, two runs over one inventory; episodes of three steps with stale, surplus and unknown candidates; a SKU without a position is moved, loaded and offered |

Runs say `CHECK_DEADLOCK FALSE` because their clients may stop: a queue with
every call served, a shift that is over, an empty clock.

### What they show

* **Queue.** `FinishedLeavesQueue`, `UnstartedStaysQueued`,
  `CancelledOnlyOverdue`, `CompletionIsCounted`, `AnnouncedIsStarted`,
  `StartedIsRemembered` hold for every interleaving and
  every failure, a `ZREM` that is applied but not answered included (the
  completion is then never counted, and its call has failed), though the code compares nothing before it writes. They rest
  on three facts: a record is terminal before its id is removed, `SET` without
  `EX` makes a record permanent, and the marker always lapses before the record.
  `StayedIsListed`: a listing does not miss a task that stays. Events follow
  their records, but two calls' events may come in the other order than their
  writes, and nothing says otherwise. What does *not*
  hold under overlap is in section 6.
* **Serial queue.** With calls in turns the queue implements `TaskLifecycle`
  (`ImplementsLifecycle`), counts a completion once, and set and records
  agree between calls.
* **Rejections.** A SKU's key outlasts every rejection of it that no clear has
  touched (`clear` deletes a key that a rejection has set since it read the
  record, too: section 6); suppression ends when rejections stop.
* **Scheduler.** What was suppressed throughout a cycle is not among its
  candidates (what was rejected after its check is sent, section 6). The two
  numbers of the status are of one and the same cycle, which dispatched all it
  could: the SKUs dispatched are of the candidates counted, however cycles
  overlap and fail (`StatusIsOfOneCycle`). The loop goes on.
* **Planning.** Each SKU's best feasible move is offered, once, unless the list
  is full of better ones (`NothingBetterIsLeftOut`): loops, dictionary order,
  stable sort, suppression and cut amount to that maximum. Whatever the solver
  answers, no task is of a suppressed SKU, into a full place, or out of the
  zones its SKU may stand in, provided its pallet stands in one
  (`TasksSuitTheirPlace`): the solver looks only at the zone of the location the
  pallet is in, but acceptable zones compose. Cutting a best assignment to a
  batch leaves a best one of that size (`CutLosesNothing`, as in every weighted
  matching in which the weight is the pallet's). With a positive threshold every
  candidate nears a truck that loads it, though not necessarily the one its
  reason names (`CandidatesApproachTheirTruck`). The application wires only
  the greedy path (`api/main.py` passes neither switch of the others).
* **Routes.** Each task of a cycle is on one route, once (`EachTaskIsRouted`),
  and arrivals on a route grow strictly and end within the horizon
  (`OneStopAtATime`): every leg takes at least a second, though pallets stand in
  one place and the speed may be 0. Which edge of a pair is in force does not
  matter for that; that a one-way aisle is driven against, and what a route says
  of departures and distances, is in section 6. Nothing in `src/` calls the planner.
* **Imports.** Merging is greedy and nearness not transitive, yet what is left
  covers what was drawn (`MergingCovers`); aisles are bands that never chain
  along a row of neighbours, numbered without gaps (`AislesAreBands`); generated
  ids differ (`GeneratedIdsDiffer`). A CSV import in a transaction is all or nothing
  (`ImportIsAtomic`), whether the driver gives up at an error or `psql` goes on;
  of files that fit each other no statement is refused, by either way, and they
  are imported whatever tables they are of (`ConsistentFilesAreImported`; `errors`
  counts the statements that failed, for the driver at most one). A floor plan's script is neither in a transaction
  nor does it fit its tables, section 6.
* **Feed.** Each client that stays gets each event once; every registered
  socket is served; who leaves is dropped for good.
* **WMS.** Overlapping write-backs can put an old answer over a new one, but
  nothing in the cache is older than the time to live and one query; once the
  warehouse rests, snapshots show it.
* **Prediction.** A failing model is asked at most once per recovery time, over
  any number of rounds, by `predict` or `explain`; a healthy one is used again
  although the cache answers in between.
* **Simulation.** Booked work never exceeds forklifts times elapsed time and
  nobody waits while one is free. Departures add up: these books count lines as
  they were loaded, wherever their stock was, so they say nothing of the stock a
  second run starts from or of a look-up that is out of date (section 6).
  Shaping rewards telescope to the distance gained, for stale candidates too.

### Fairness

Stated action by action and only for what the code or its servers owe: a call
in flight moves on because Redis answers or raises (`Step`, `ReaderStep`), the
clock ticks, the loop's sleep ends, a client that left is noticed by
`receive_text`, the scheduler goes on to predict and to read. Clients, operators,
the warehouse and failures owe nothing.

## 4. The proofs

Checked by TLAPS, for every value of the constants that meets the named
assumptions (`NoTaskAssumption`, `ListingAssumption`, `RejectionAssumption`,
`SchedulerAssumption`, `InferenceAssumption`, `WmsCacheAssumption`,
`ConstraintsAssumption`, `ValueAssumption`, `PlanningAssumption`,
`RoutesAssumption`, `FloorPlanAssumption`, `ImportAssumption`,
`DigitalTwinAssumption`, `WarehouseEnvAssumption`). Each asks for types, for
finite sets where the program has lists, and that what a configuration must
have more than none of is positive. Every safety property of a run has a theorem.

The library's induction theorems take an operator as a parameter, which the
provers cannot instantiate. Where a proof needs induction it takes the least
natural number that would be a counterexample (`LeastNatural`,
`LeastCounterexample` of `Sums`), of a property stated for the definition at
hand, and derives a smaller one.

* `TaskQueueProofs`: the seven safety properties of the queue, for any set of
  tasks, any number of calls and failures anywhere (`FaultySpec`). They are not
  inductive by themselves. `QueueInvariant` adds what a call in flight knows:
  only pushed ids are known, a call past its checks has a goal its route allows,
  the removal of an id comes after its record was written
  (`WritesPrecedeRemovals`), a sweep's task is overdue and stays so, and only
  untouched records have a time to live. `StartedIsRemembered` then follows as
  an action property.
  Of the listing, `StayedTasksListed`, from `ListingCovers`: a task that stays is
  listed, still to be read, or below all that are. With callers that take turns,
  `LifecycleImplemented`, the refinement of `TaskLifecycle`, from `Turns` (what the
  only call in flight may rely on), and `CompletionsCountOnce` and
  `QueueHoldsLiveTasks` from `BooksAreKept` (what is not finished is queued, what was
  counted is finished, and a call about to remove an id has not counted it yet).
* `RedisProofs`: of the rejection store, types with the history's cap, and
  `SuppressionHolds`, which is inductive given the types; of the WMS cache,
  `CacheRecency`, from `AnswersAreRecent` (an answer is no older than its query)
  and `OnlyThePastIsKnown`.
* `SchedulerProofs`: `SuppressionRespected`, `StatusConsistent`, `BatchBounded`,
  from `SchedulerInvariant` (what a cycle holds in each phase; a cycle has seen
  every SKU that is now free; what is reported was one cycle's). Of the breaker, `FailingModelRests`, from
  `BreakerFollowsHistory` (it counts what happened; while open it has been so
  since the last failure).
* `PlanningProofs`: `NothingLeftOut`, `TasksSuit`, `CandidatesApproach` and types,
  for every set of warehouses and every setting, from `PlanningInvariant`: the
  pairs the loops have passed are among the candidates (`LoopsCover`, which needs
  `LoopTurn`: the pairs before the next turn are those before this one and this
  one); of the candidates passed each SKU has an entry that none of them beats
  (`BestCovers`). The step of `Offer` rests on `CutRanking`: a ranking of as many
  places as there are is onto (`RankingIsOnto`, a pigeonhole), so an entry that
  was cut comes after `max_candidates` others. That the nearest staging location
  and the heaviest departure exist, hence are of their types, follows from
  `LeastNatural`. `ZonesDoCompose` carries `TasksSuit` over the solver's
  reassignment. `CutIsNoLoss`, with `CutInvariant` (a status is of a cycle that
  is over), is an exchange: an assignment of no more pallets than are kept can take
  on as many of a best one's as were cut, if it moves some of its own
  (`TakesOneMore`: of the ways to place its own, the one that agrees with the best
  on most; a place used there and free here lets it agree on one more). Together
  they are worth no more than the best, and what it took on is worth as much as
  what was cut, so what it had is worth no more than what was kept (`CutIsBest`).
  Of the route planner, `EachTaskRouted` and `OneStopAtOnce`, from
  `RoutesInvariant`: a plan is made of a cycle that is over, whatever graph,
  speed, horizon and number of resources. Arrivals are a recursive function,
  shown to exist (`TimesExist`); they grow because no two nodes are less than a second apart
  (`TimeMatrixType`).
* `SimulationProofs`: `EnvInvariantHolds`, for any plans of movements and trucks,
  any number of forklifts and any candidates, and from it `ForkliftsAreSharedHolds`,
  `DeparturesAddUpHolds`, `ShapingTelescopesHolds`. `ShiftInvariant` is what the
  books rest on: the forklifts in use are the jobs that hold one
  (`ForkliftsAreHeld`), the queue is of those that wait, once each
  (`QueueIsOfWaiting`), no timeout lies in the past (`NothingIsOverdue`), and what
  is booked but still to be worked is counted against the time of its holder
  (`WorkTakesTime`). A SKU that moves changes a single summand of the distance
  that the shaping reward telescopes over (`SumChangesAt`).
* `Sums`: a fold over a finite set, as the community modules define it, exists
  (`FoldExists`, by a least counterexample in the size of the set) and does not
  depend on what it is given beyond its set (`FoldsAgree`); sums can be unfolded
  at any element, change where a summand does, join, compare, and follow a
  bijection.
* `EventFeedProofs`: `RegistryIsServed`, `MessagesArriveOnce` and types, for any
  number of sockets and overlapping broadcasts, from `FeedInvariant`: the copy a
  broadcast walks over has no repeats, its message has reached only sockets it
  has passed, and those it counts on have it or are still to come. What
  `list.remove` leaves is described by ranks of places; `NthIsOnto` shows that
  closing ranks loses nothing and repeats nothing.
* `ImportProofs`, about a drawing: `MergingIsCovered` from `MergedSoFar` (the
  invariant of the loop of `_deduplicate_locs`, which needs that merging is
  symmetric) and `IdsDiffer` from `IdsAreCounted` (no id is beyond the number of ids its counter gave), for
  every drawing and whatever is imported afterwards; `AislesBand`: what opens an
  aisle is a recursive function of the coordinates from south to north, and of
  any two openings the later is beyond the band of the earlier (`OpensAreApart`); that
  no number is left out needs that a finite set of numbers has its ranks
  (`RanksAreOnto`) and that the locations are numbered in an order that is total
  (`SortingIsTotal`). About files: `ImportsAreAtomic`, for every
  database and directory of files: `CsvScriptIs` says what the statements of a
  script are, for whichever tables have rows and however many; `ContentsAfter`
  and `ContentsAtLast`, what the first of them make of a database and that all
  make the whole import; `AtomicInvariant`, that an open transaction has seen just
  the former, nobody else any of it, and that a failed statement leaves the
  transaction aborted until the `COMMIT` that rolls it back.
  `FittingFilesAreImported`, by `FittingInvariant`: tables are filled parents
  first (`ParentsComeFirst`), so of files that fit each other no statement is
  refused, to `psql` or the driver (`InsertIsNotRefused`), the transaction never aborts, and what is
  committed is the whole import, unless the connection is lost before.

## 5. What is only model-checked

Liveness (`CallsReturn`, `CompletionDequeues`, `SweepClearsOverdue`,
`SuppressionEnds`, `LoopGoesOn`, `LeaversAreDropped`, `RestIsNoticed`,
`Recovers`): the prover does not do fairness or `ENABLED`. The finding of
`approval_refused` and the statements of section 6 are counterexamples, hence
TLC's.

## 6. Where the documentation says otherwise

One run shows a disagreement and is listed as a finding. The others below are
definitions of their module, each violated by TLC when it is made the only
`INVARIANT` or `PROPERTY` of the module's cfg (with the specification or
constants named here).

| Definition | Module | The documentation says | The code does |
|---|---|---|---|
| `FinishedIsFinal` | `TaskQueueSerial`, `Spec`, one task, two calls | transitions end in COMPLETED or CANCELLED | a call that read earlier overwrites them |
| `ApprovalIsNotRefused` (run) | `CandidateRoutes` | approve a candidate | its id is of an earlier generation: 404 |
| `OverdueIsCancelled` | `TaskQueueSerial`, `AppSpec`, one task | overdue tasks auto-cancel | nothing in the application calls the sweep |
| `SweepCancelsPending` | `TaskQueueSerial`, `SerialSpec` | the sweep marks PENDING tasks | it also cancels tasks in progress |
| `CancelIsAnnounced` | `TaskQueueSerial`, `SerialSpec` | an event when a task is cancelled | the sweep broadcasts nothing |
| `AnnouncedIsOnRecord` | `TaskQueueSerial`, `SerialSpec` | 200 and an event mean success | the record may lapse before it is written |
| `GaugeIsDepth` | `TaskQueueSerial`, `SerialSpec` | the gauge is the queue's depth | `push` does not set it |
| `ActiveIsActive` | `TaskListing`, `ListingSpec` | PENDING or IN_PROGRESS only | a task finished in between is listed |
| `PopFillsUp` | `TaskListing`, `AloneSpec`, `Limits = {1}` | the top N tasks | ids without a record take their places |
| `PopIsBounded` | `TaskListing`, `AloneSpec`, `Limits = {0}` | n tasks | n = 0 lists all |
| `RejectedIsSuppressed` | `RejectionStore`, `Spec` | a rejection suppresses for its window | clearing another of the same SKU lifts it |
| `ClearLiftsSuppression` | `RejectionStore`, three moves | clearing lifts the SKU's suppression | not if the SKU could not be resolved |
| `LimitIsMaximum` | `RejectionStore`, `Spec` | at most limit records | 0 returns all |
| `SuppressedIsNotSent` | `Scheduler`, `Spec` | filtered before dispatch | a SKU rejected after its check is sent |
| `OneProbe` | `Inference`, `InferenceSpec` | one probe in HALF_OPEN | cached answers and `explain` leave it HALF_OPEN |
| `ReportedIsLive` | `Inference`, `InferenceSpec` | the current weights | defaults until the first update |
| `RejectionSuppresses` | `CandidateRoutes` | rejecting suppresses the SKU | its id cannot be resolved (as for approve) |
| `ShownIsExplained` | `CandidateRoutes` | a breakdown for a candidate | its id is of an earlier generation: 404 |
| `HazmatTablesAgree` | `MCPlanning` | pairs in sorted form | class 7 with classes 2 to 6 is written unsorted and never found (what holds: `SolverTableIsWeaker`) |
| `HardConstraintsAreKept` | `MCPlanning` | hard constraints are never relaxed | the solver moves pallets to places checked for others |
| `SolverSeparatesHazmat` | `MCPlanning` | incompatible SKUs in different aisles | the class is read from a key nobody writes |
| `SolverKeepsZones` | `MCPlanning` | the zone suits the SKU | it suits the location the pallet stands in |
| `TargetIsNearDoor` | `MCPlanning`, `MaxDistance = 7` | distance from the dock door | distance from the pallet |
| `TargetIsNotSource` | `MCPlanning` | source and target differ | the solver may assign a pallet to where it stands |
| `ReasonIsRight` | `MCPlanning` | pre-stage for that appointment | any appointment; valued for another |
| `OrderedScoresHigher` | `MCPlanning` | a SKU with an order scores higher than one without | both score 0 if the move saves no time |
| `DepartsBeforeItArrives` | `MCPlanning` | when a resource arrives and departs | a departure counts the handling, which no leg contains: it may lie after the next arrival |
| `LegsAreRoundedUp` | `MCPlanning` | times rounded up | truncated |
| `OneWayIsKept` | `MCPlanning` | a one-way edge is not traversed in reverse | a way without an edge is taken as the crow flies |
| `DistanceIsTravelled` | `MCPlanning` | total distance traveled | only from a target to the next source, not with the pallet |
| `FrozenOverrides` | `MCImport` | frozen layers override ambient ones | not if the ambient entity was drawn first |
| `FloorPlanFitsTables` | `MCImport` | compatible with the tables | `dock_doors` has no column `door_id` |
| `OnlyLayoutIsCleared` | `MCImport` | clears location and dock rows | `CASCADE` empties what refers to them, too |
| `SnapshotIsOfOneState` | `WmsCache` | a single snapshot | five reads of different times |
| `NothingOutlivesTtl` | `WmsCache`, `Lag = 2` | cached for the time to live | counted from the write-back, not the query |
| `FastWhenStaged` | `MCWarehouseEnv` | loads from staging are fast | looked up before the wait for a forklift |
| `ServedLoaded` | as above | trucks that loaded a pallet | every truck that left |
| `MaskFits` | `MCWarehouseEnv` | a mask of `max_candidates` + 1 | raises with more candidates |
| `CostIsActual` | `MCWarehouseEnv` | the actual forklift time | no handling time; from where the SKU was |
| `ExecutedWereMoved` | `MCWarehouseEnv` | movements completed | counts SKUs that are not there |

## 7. The plan

Done, in this order: `TaskQueue`, `TaskListing`, `TaskQueueSerial` with
`TaskLifecycle`, `RejectionStore`, `Scheduler`, `EventFeed`, `Inference`,
`CandidateRoutes`, `DigitalTwin` with `WarehouseEnv`, `WmsCache`, `Constraints`,
`ValueFunction` and `Planning`, `Routes`, `FloorPlan` and `Import`; modules of
proofs for each of them, with a theorem for every safety property that is run.

Next:

1. `Service`: `Scheduler`, `RejectionStore` and `TaskQueue` composed, each by its
   promises, for what an operator sees.
2. An abstract registry that `EventFeed` implements; an abstract breaker for
   `Inference`; their refinements proved as that of `TaskLifecycle` is.
3. Action properties of what is now proved as invariants: what a listing, a
   broadcast or an import may never undo.

The runs are kept few, one per question; statements without a run of their own
stay in section 6.

## 8. What is not modelled, and why

* Features, training, floating point: numerical; `ValueFunction` computes in
  fixed point, with the cutoff's decay folded into an order's urgency.
* CP-SAT, the routing solver, SHAP, LightGBM, PostgreSQL, `ezdxf`: external; what
  their answers may be is nondeterministic where a model needs them.
* Queries of the WMS, schema mapping, parsing of cells and of geometry: data;
  `WmsCache` keeps their order and failures, `Import` whether a row fits its table.
* AGV stub, health probes, metrics: no control beyond what other modules have.
* `backtest.py`, `train_rl.py`, `calibrate_weights.py`: offline numerical tools.
