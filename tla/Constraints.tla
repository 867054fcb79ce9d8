----------------------------- MODULE Constraints -----------------------------
(***************************************************************************)
(* The constraint engine (src/constraints) and the two tables of hazmat    *)
(* classes: the engine's and the assignment solver's                       *)
(* (src/optimizer/assignment.py).                                          *)
(*                                                                         *)
(* A warehouse is what get_warehouse_state returns, of which the engine    *)
(* reads stock, the inventory positions in their order, and full, the      *)
(* locations over the utilization threshold.  Every position of a SKU      *)
(* carries the same SKU record, so its attributes are functions.           *)
(***************************************************************************)
EXTENDS Integers, Sequences

CONSTANTS
    Location,
    Site,    \* attributes of each location
    Sku,
    Class,   \* hazmat_class of each SKU, or NoClass
    NoClass,
    Needs    \* requires_temperature_zone of each SKU

TemperatureZone == {"AMBIENT", "CHILLED", "FROZEN"}

(* The classes in the order of their names.                                *)
ClassNames == <<"1", "2", "3", "4", "5_1", "5_2", "6", "7", "8", "9">>
HazmatClass == {ClassNames[i] : i \in DOMAIN ClassNames}

(* What a location is to this code: where it is, its temperature zone,     *)
(* whether it is a staging location and the dock door it serves.           *)
Attributes ==
    [aisle : Nat, bay : Nat, x : Int, y : Int,
     zone : TemperatureZone, staging : BOOLEAN, door : Int]

InventoryPosition == [sku : Sku, loc : Location]

ASSUME ConstraintsAssumption ==
    /\ NoClass \notin HazmatClass
    /\ Site \in [Location -> Attributes]
    /\ Class \in [Sku -> HazmatClass \cup {NoClass}]
    /\ Needs \in [Sku -> TemperatureZone]

(* A move from one location to another, of a SKU.                          *)
Move == [sku : Sku, from : Location, to : Location]

-----------------------------------------------------------------------------
(* constraints/temperature.py: colder will do for what is chilled.         *)
AcceptableZones(zone) == IF zone = "CHILLED" THEN {"CHILLED", "FROZEN"} ELSE {zone}

TemperatureAllows(move) == Site[move.to].zone \in AcceptableZones(Needs[move.sku])

(* constraints/capacity.py                                                 *)
CapacityAllows(wh, move) == move.to \notin wh.full

(* constraints/hazmat.py: class 1 and class 7 go with no other class,      *)
(* class 3 not with oxidizers.                                             *)
IncompatiblePairs ==
    {{"3", "5_1"}, {"3", "5_2"}}
        \cup {{"1", c} : c \in HazmatClass \ {"1"}}
        \cup {{"7", c} : c \in HazmatClass \ {"7"}}

Incompatible(c, d) == {c, d} \in IncompatiblePairs

SameBay(l, m) == Site[l].aisle = Site[m].aisle /\ Site[l].bay = Site[m].bay

(* What other SKUs bring to the bay of the target, but for what stands     *)
(* where the pallet comes from.                                            *)
ClassesInBay(wh, move) ==
    {Class[wh.stock[i].sku] : i \in
        {j \in DOMAIN wh.stock :
            /\ SameBay(wh.stock[j].loc, move.to)
            /\ wh.stock[j].loc # move.from
            /\ wh.stock[j].sku # move.sku}} \ {NoClass}

HazmatAllows(wh, move) ==
    Class[move.sku] # NoClass =>
        \A c \in ClassesInBay(wh, move) : ~ Incompatible(Class[move.sku], c)

FeasibleSkipsCapacity(wh, move) == TemperatureAllows(move) /\ HazmatAllows(wh, move)

(* FeasibilityEngine.evaluate with its three filters, all of them hard (a  *)
(* SKU that is not in stock would get a soft violation; it has no move).   *)
Feasible(wh, move) ==
    /\ TemperatureAllows(move)
    /\ HazmatAllows(wh, move)
    /\ CapacityAllows(wh, move)

-----------------------------------------------------------------------------
(* optimizer/assignment.py has tables of its own.                          *)

ZoneFitsZone(zone, other) == zone = other \/ (zone = "CHILLED" /\ other = "FROZEN")

(* Its pairs as they are written, and its lookup of the sorted pair.       *)
SolverPairs ==
    {<<"3", "5_1">>, <<"3", "5_2">>}
        \cup {<<"1", c>> : c \in HazmatClass \ {"1"}}
        \cup {<<"7", c>> : c \in HazmatClass \ {"7"}}

Position(c) == CHOOSE i \in DOMAIN ClassNames : ClassNames[i] = c

SortedPair(c, d) == IF Position(c) <= Position(d) THEN <<c, d>> ELSE <<d, c>>

SolverIncompatible(c, d) ==
    /\ c # NoClass
    /\ d # NoClass
    /\ SortedPair(c, d) \in SolverPairs

-----------------------------------------------------------------------------
(* "Pairs are stored in sorted-tuple form to allow O(1) lookup"            *)
(* (optimizer/assignment.py): then both tables say the same.               *)
HazmatTablesAgree ==
    \A c, d \in HazmatClass : SolverIncompatible(c, d) <=> Incompatible(c, d)

(* What does hold: the solver's table is symmetric and knows no pair that  *)
(* the engine's does not; it misses class 7 with every class before it.    *)
SolverTableIsWeaker ==
    /\ \A c, d \in HazmatClass : SolverIncompatible(c, d) => Incompatible(c, d)
    /\ \A c, d \in HazmatClass : SolverIncompatible(c, d) <=> SolverIncompatible(d, c)
    /\ \A c, d \in HazmatClass : Incompatible(c, d) /\ ~ SolverIncompatible(c, d) =>
           "7" \in {c, d} /\ {c, d} \cap {"2", "3", "4", "5_1", "5_2", "6"} # {}

(* Going through a zone that is acceptable one ends in one that is.        *)
ZonesCompose ==
    \A need, from, to \in TemperatureZone :
        from \in AcceptableZones(need) /\ ZoneFitsZone(from, to) => to \in AcceptableZones(need)
=============================================================================
