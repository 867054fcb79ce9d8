------------------------------ MODULE MCImport ------------------------------
(***************************************************************************)
(* Small drawings, files and databases for Import.                         *)
(***************************************************************************)
EXTENDS Import, TLC

CONSTANTS spot1, spot2

MCConfig ==
    [locations |-> {"RACKS"}, staging |-> {"LANES", "COLD_LANES"}, dock |-> {"DOORS"},
     frozen |-> {"FREEZER"}, chilled |-> {"COLD_LANES", "FREEZER"}]

Drawn(layer, x, y, id) == [layer |-> layer, at |-> [x |-> x, y |-> y], id |-> id]

(* Racks one next to the other, rows of which each is near the next, lanes *)
(* in two aisles, an id drawn that could be generated, one drawn twice.    *)
MCEntities == {
    Drawn("RACKS", 0, 0, NoId), Drawn("RACKS", 1, 0, NoId), Drawn("RACKS", 2, 0, spot1),
    Drawn("FREEZER", 1, 0, NoId), Drawn("FREEZER", 0, 2, <<1, 1>>), Drawn("LANES", 6, 2, NoId),
    Drawn("LANES", 0, 6, NoId), Drawn("COLD_LANES", 6, 4, spot1),
    Drawn("DOORS", 6, -1, NoId), Drawn("DOORS", 0, -1, spot1), Drawn("TEXTS", 0, 0, spot2),
    [layer |-> "RACKS", at |-> NoPoint, id |-> spot2]}

Item(key, refs) == [key |-> key, refs |-> refs, cell |-> "fine"]
Spoilt(key, cell) == [key |-> key, refs |-> <<>>, cell |-> cell]
Stock(n, place) == Item(n, [skus |-> n, locations |-> place])
Shipment(n) == Item(n, [carrier_appointments |-> n])
Line(n) == Item(n, [outbound_orders |-> n, skus |-> n])

MCDatabases == {
    Nothing,
    [Nothing EXCEPT
        !["locations"] = {Item(spot1, <<>>)},
        !["dock_doors"] = {Item(1, <<>>)},
        !["skus"] = {Item(1, <<>>)},
        !["inventory_positions"] = {Stock(1, spot1)},
        !["carrier_appointments"] = {Item(1, <<>>)},
        !["outbound_orders"] = {Shipment(1)},
        !["order_lines"] = {Line(1)}]}

File(rows) == [complete |-> TRUE, rows |-> rows]

(* All tables; stock of what is there; stock of what is not; a location    *)
(* twice; a cell left empty; shipments without their appointment; files    *)
(* that cannot be read; none; no rows.                                     *)
MCDirectories == {
    "locations" :> File(<<Item(spot2, <<>>)>>) @@ "skus" :> File(<<Item(2, <<>>)>>)
        @@ "dock_doors" :> File(<<Item(2, <<>>), Item(3, <<>>)>>)
        @@ "inventory_positions" :> File(<<Stock(2, spot2)>>)
        @@ "carrier_appointments" :> File(<<Item(2, <<>>)>>)
        @@ "outbound_orders" :> File(<<Shipment(2)>>) @@ "order_lines" :> File(<<Line(2)>>),
    "inventory_positions" :> File(<<Item(2, [skus |-> 1, locations |-> spot1])>>),
    "skus" :> File(<<Item(2, <<>>)>>) @@ "inventory_positions" :> File(<<Stock(2, spot2)>>),
    "skus" :> File(<<Item(2, <<>>)>>) @@ "locations" :> File(<<Item(spot2, <<>>), Item(spot2, <<>>)>>),
    "dock_doors" :> File(<<Item(4, <<>>)>>) @@ "locations" :> File(<<Spoilt(spot2, "blank")>>),
    "skus" :> File(<<Item(3, <<>>)>>) @@ "outbound_orders" :> File(<<Shipment(3)>>),
    "skus" :> File(<<Spoilt(2, "bad")>>),
    "skus" :> [complete |-> FALSE, rows |-> <<Item(2, <<>>)>>],
    <<>>,
    "skus" :> File(<<>>) @@ "locations" :> File(<<Item(<<1, 1>>, <<>>)>>)}
=============================================================================
