------------------------------ MODULE FloorPlan ------------------------------
(***************************************************************************)
(* Locations and dock doors out of a drawing                               *)
(* (src/ingestion/floor_plan_parser.py): entities are read layer by layer, *)
(* those drawn twice are merged, and what is left is numbered by aisle and *)
(* bay and given an id.                                                    *)
(*                                                                         *)
(* An entity is its layer, its centroid and the id drawn at it.  Units are *)
(* converted, layer names compared without case, and coordinates rounded   *)
(* to a grid; what matters of them is how far they lie apart.              *)
(***************************************************************************)
EXTENDS Integers, Sequences, FiniteSets

CONSTANTS
    Config,      \* which layers hold what
    Entities,    \* what may be drawn
    MaxEntities, \* bound: entities in a drawing
    MergeBelow,  \* entities nearer than this are one
    AisleWidth,  \* locations no further than this along y share an aisle
    NoPoint,     \* of an entity without a centroid
    NoId         \* of an entity without an id

Point == [x : Int, y : Int]

ASSUME FloorPlanAssumption ==
    /\ \A e \in Entities : e.at \in Point \cup {NoPoint}
    /\ NoPoint \notin Point
    /\ {MaxEntities, MergeBelow, AisleWidth} \subseteq Nat

VARIABLES
    pc,
    read,  \* entities read
    raw,   \* locations, in the order they are drawn
    doors, \* dock doors; once sorted, a door's number is its place
    next,  \* where the loop over raw stands
    kept,  \* what is left of raw
    plan   \* the locations, numbered

planVars == <<pc, read, raw, doors, next, kept, plan>>

-----------------------------------------------------------------------------
Features ==
    Config.locations \cup Config.staging \cup Config.dock \cup Config.frozen \cup Config.chilled

ZoneOf(layer) ==
    CASE layer \in Config.frozen -> "FROZEN"
      [] layer \in Config.chilled \ Config.frozen -> "CHILLED"
      [] OTHER -> "AMBIENT"

RawLocation(e) ==
    [at |-> e.at, id |-> e.id, staging |-> e.layer \in Config.staging, zone |-> ZoneOf(e.layer)]

Square(n) == n * n

Apart(p, q) == Square(p.x - q.x) + Square(p.y - q.y)

Merges(l, k) == Apart(l.at, k.at) < Square(MergeBelow)

MergeWithLast(l) ==
    IF kept # <<>> /\ Merges(l, kept[Len(kept)]) THEN kept ELSE Append(kept, l)

(* One turn of _deduplicate_locs.                                          *)
MergeOrKeep(l) ==
    IF \E i \in DOMAIN kept : Merges(l, kept[i]) THEN kept ELSE Append(kept, l)

(* _group_by_tolerance: going north, a y opens a group unless it lies      *)
(* within the tolerance of one that did.                                   *)
Ys == {kept[i].at.y : i \in DOMAIN kept}

OpensChained == {v \in Ys : \A u \in Ys : u < v => v - u > AisleWidth}

Opens ==
    LET opens[v \in Ys] == \A u \in Ys : u < v /\ opens[u] => v - u > AisleWidth
    IN  {v \in Ys : opens[v]}

Aisle(l) == Cardinality({v \in Opens : v <= l.at.y})

-----------------------------------------------------------------------------
(* Stable sorts: of doors by x, of locations by aisle, x, y.               *)
DoorsBefore(i) ==
    {j \in DOMAIN doors :
        \/ doors[j].x < doors[i].x
        \/ doors[j].x = doors[i].x /\ j < i}

SortedDoors ==
    [n \in DOMAIN doors |->
        doors[CHOOSE i \in DOMAIN doors : Cardinality(DoorsBefore(i)) = n - 1]]

ComesBefore(i, j) ==
    LET l == kept[i]
        m == kept[j]
    IN  \/ Aisle(l) < Aisle(m)
        \/ Aisle(l) = Aisle(m) /\ l.at.x < m.at.x
        \/ Aisle(l) = Aisle(m) /\ l.at.x = m.at.x /\ l.at.y < m.at.y
        \/ Aisle(l) = Aisle(m) /\ l.at = m.at /\ i < j

Earlier(j) == {i \in DOMAIN kept : ComesBefore(i, j)}

Bay(j) == 1 + Cardinality({i \in Earlier(j) : Aisle(kept[i]) = Aisle(kept[j])})

(* The nearest door, the leftmost on ties; 0 if there is none.             *)
NearestDoor(p) ==
    IF doors = <<>> THEN 0
    ELSE CHOOSE d \in DOMAIN doors :
            \A e \in DOMAIN doors :
                \/ Apart(p, doors[d]) < Apart(p, doors[e])
                \/ Apart(p, doors[d]) = Apart(p, doors[e]) /\ d <= e

(* Staging spots share one counter of ids, every aisle has its own.        *)
Prefix(l) == IF l.staging THEN 0 ELSE Aisle(l)

Generated == {n \in DOMAIN plan : ~ plan[n].drawn}

CounterOf(l) == 1 + Cardinality({n \in Generated : plan[n].id[1] = Prefix(l)})

GeneratedIdOfBay(j) == <<Prefix(kept[j]), Bay(j)>>

GeneratedId(j) == <<Prefix(kept[j]), CounterOf(kept[j])>>

LocationId(j) == IF kept[j].id # NoId THEN kept[j].id ELSE GeneratedId(j)

Numbered(j) ==
    [id |-> LocationId(j), drawn |-> kept[j].id # NoId, at |-> kept[j].at,
     aisle |-> Aisle(kept[j]), bay |-> Bay(j),
     staging |-> kept[j].staging, zone |-> kept[j].zone,
     door |-> NearestDoor(kept[j].at)]

-----------------------------------------------------------------------------
FloorPlanInit ==
    /\ pc = "read"
    /\ read = 0
    /\ raw = <<>>
    /\ doors = <<>>
    /\ next = 1
    /\ kept = <<>>
    /\ plan = <<>>

(* One entity of the model space.  A layer that holds doors holds nothing  *)
(* else.                                                                   *)
ReadEntity(e) ==
    /\ pc = "read"
    /\ read < MaxEntities
    /\ read' = read + 1
    /\ LET counts == e.layer \in Features /\ e.at # NoPoint
           isDoor == e.layer \in Config.dock
       IN  /\ doors' = IF counts /\ isDoor THEN Append(doors, e.at) ELSE doors
           /\ raw' = IF counts /\ ~ isDoor THEN Append(raw, RawLocation(e)) ELSE raw
    /\ UNCHANGED <<pc, next, kept, plan>>

EndOfDrawing ==
    /\ pc = "read"
    /\ pc' = "merge"
    /\ UNCHANGED <<read, raw, doors, next, kept, plan>>

Merge ==
    /\ pc = "merge"
    /\ next <= Len(raw)
    /\ kept' = MergeOrKeep(raw[next])
    /\ next' = next + 1
    /\ UNCHANGED <<pc, read, raw, doors, plan>>

SortDoors ==
    /\ pc = "merge"
    /\ next > Len(raw)
    /\ doors' = SortedDoors
    /\ pc' = "number"
    /\ UNCHANGED <<read, raw, next, kept, plan>>

(* One turn of the loops over aisles and their members.                    *)
NumberLocation ==
    /\ pc = "number"
    /\ \E j \in DOMAIN kept :
          /\ Cardinality(Earlier(j)) = Len(plan)
          /\ plan' = Append(plan, Numbered(j))
    /\ UNCHANGED <<pc, read, raw, doors, next, kept>>

Numbering ==
    /\ pc = "number"
    /\ Len(plan) = Len(kept)
    /\ pc' = "ready"
    /\ UNCHANGED <<read, raw, doors, next, kept, plan>>

FloorPlanNext ==
    \/ \E e \in Entities : ReadEntity(e)
    \/ EndOfDrawing \/ Merge \/ SortDoors \/ NumberLocation \/ Numbering

FloorPlanSpec == FloorPlanInit /\ [][FloorPlanNext]_planVars

-----------------------------------------------------------------------------
(* Merging is greedy and nearness not transitive, yet no two locations     *)
(* left are one, and every one drawn is near one left, drawn no later.     *)
MergingCovers ==
    /\ \A i, j \in DOMAIN kept : i # j => ~ Merges(kept[i], kept[j])
    /\ pc \in {"number", "ready"} =>
          \A i \in DOMAIN raw :
              \E k \in DOMAIN kept, j \in 1..i :
                  kept[k] = raw[j] /\ (j = i \/ Merges(raw[i], kept[k]))

(* Aisles are bands across the building: locations of one aisle are never  *)
(* further apart than its width, however many lie between, who stands      *)
(* further north has no smaller number, no number is left out, and bays    *)
(* count each aisle from west to east.                                     *)
AislesAreBands ==
    pc = "ready" =>
        /\ \A m, n \in DOMAIN plan :
              LET l == plan[m]
                  k == plan[n]
              IN  /\ l.aisle = k.aisle => l.at.y - k.at.y <= AisleWidth
                  /\ l.at.y < k.at.y => l.aisle <= k.aisle
                  /\ l.aisle = k.aisle /\ l.at.x < k.at.x => l.bay < k.bay
                  /\ l.aisle = k.aisle /\ l.bay = k.bay => m = n
        /\ \A n \in DOMAIN plan :
              /\ \A a \in 1..plan[n].aisle : \E m \in DOMAIN plan : plan[m].aisle = a
              /\ \A b \in 1..plan[n].bay :
                    \E m \in DOMAIN plan : plan[m].aisle = plan[n].aisle /\ plan[m].bay = b

(* Ids generated in one plan are all different, of staging spots in        *)
(* different aisles as well.                                               *)
GeneratedIdsDiffer ==
    \A m, n \in Generated : m # n => plan[m].id # plan[n].id

(* "Temperature zone: frozen/chilled layers override ambient"              *)
(* (ingestion/floor_plan_parser.py): no place drawn on a frozen layer is   *)
(* taken for an ambient one.                                               *)
FrozenOverrides ==
    pc = "ready" =>
        \A i \in DOMAIN raw, n \in DOMAIN plan :
            raw[i].zone = "FROZEN" /\ raw[i].at = plan[n].at => plan[n].zone = "FROZEN"
=============================================================================
