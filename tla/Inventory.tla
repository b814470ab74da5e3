----------------------------- MODULE Inventory ------------------------------
(***************************************************************************)
(* Inventory: the vehicles of one dealership, the money put into them and  *)
(* the floor plan (vehicles.service.js, vehicle-expenses.service.js,       *)
(* flooring.service.js, and wholesale.service.js, which edits the same     *)
(* rows).  Nothing locks a row between a handler's read and its write; the *)
(* partial unique index on VINs and the two transactions are all there is. *)
(*                                                                         *)
(* All costs kept on the vehicle row but the flooring fee are one number,  *)
(* an expense is a cost, a price stands for the terms of sale.  Several    *)
(* floor plans count as the one in force.  Audit and pricing history are   *)
(* left out, and reads that only serve one check are taken together.       *)
(***************************************************************************)
EXTENDS Requests

CONSTANTS Vehicles, Vins, Expenses, Prices, Costs

Floor == "flooring"

ASSUME InventoryAssumption ==
  /\ None \notin Vins \cup Prices \cup Costs \cup Vehicles
  /\ Floor \notin Vehicles
  /\ Costs \subseteq Nat
  /\ IsFiniteSet(Expenses)

VARIABLES
  vehicle,   \* rows, with the price on the vehicle's deal and jacket, if it has them
  expense,   \* rows
  plan,      \* the floor plan
  undo,      \* the flooring undo snapshot, if there is one
  applied,   \* history: how often a plan was applied
  doubt      \* history: what may be wrong of which vehicle, or of the floor plan

inventory == <<vehicle, expense, plan, undo>>
inventoryVars == <<inventory, applied, doubt, handlerVars>>

Statuses == {"in_stock", "pending_deal", "sold"}
ExitStatuses == {"sold"}
Facts == {"total", "date", "price", "undo"}
Plan == {"none", "configured", "applied"}

Absent == [row |-> "none", vin |-> None, cost |-> 0, flooring |-> 0, total |-> 0,
           status |-> "in_stock", soldAt |-> FALSE, price |-> None,
           deal |-> None, jacket |-> None]

Live == {v \in Vehicles : vehicle[v].row = "live"}
Taken(vin, v) == \E u \in Live \ {v} : vehicle[u].vin = vin

\* Expenses e of vehicle v that the rows in table count.
Counted(table, v) == {e \in Expenses : table[e].on = v /\ table[e].live}
\* The sum of their costs: the size of a set with as many members for each.
Spent(table, v) == Cardinality(UNION {{e} \X (1..table[e].cost) : e \in Counted(table, v)})
Invested(row, table, v) == row.cost + row.flooring + Spent(table, v)

-----------------------------------------------------------------------------
(* Which requests work on what, and what their overlaps leave in doubt.    *)

\* The awaits of the requests about a vehicle and about the floor plan.
Creates == {"create", "createWholesale"}
Updates == {"update", "deal", "jacket"}
Recalcs == {"recalc", "total"}
EditAwaits == {"delete", "status", "edit", "wholesaleStatus", "recordSale"}
ExpenseAwaits == {"expense", "commit"}
Restores == {"restore_plan", "expired", "restore"}
VehicleAwaits == Creates \cup Updates \cup Recalcs \cup EditAwaits \cup ExpenseAwaits
FloorAwaits == {"plan", "clear", "clear_delete", "save"} \cup Restores

Others(h, x) == {g \in InFlight \ {h} : local[g].on = x}
Doubt(facts, xs) == doubt' = [f \in Facts |-> doubt[f] \cup IF f \in facts THEN xs ELSE {}]
\* A request that ran alone leaves the facts in right correct; those in wrong
\* it writes without their counterparts, alone or not.
Leaves(h, right, wrong) ==
  doubt' = [f \in Facts |->
              IF f \in wrong THEN doubt[f] \cup {local[h].on}
              ELSE IF f \in right /\ local[h].alone THEN doubt[f] \ {local[h].on}
              ELSE doubt[f]]

BeginOn(h, x, await, carry) ==
  /\ pc[h] = "idle" /\ begun < MaxRequests
  /\ begun' = begun + 1
  /\ pc' = [pc EXCEPT ![h] = await]
  /\ local' = [g \in Handlers |->
                 IF g = h THEN With(carry, [on |-> x, alone |-> Others(h, x) = {}])
                 ELSE IF g \in Others(h, x) THEN [local[g] EXCEPT !.alone = FALSE]
                 ELSE local[g]]
  /\ IF Others(h, x) = {} THEN UNCHANGED doubt ELSE Doubt(Facts, {x})
  /\ UNCHANGED <<inventory, applied>>

\* A statement fails, or the process dies: what was written stays.
Fail(h) ==
  /\ pc[h] # "idle"
  /\ Answer(h) /\ Doubt(Facts, {local[h].on})
  /\ UNCHANGED <<inventory, applied>>

-----------------------------------------------------------------------------
(* recalculateTotalInvested, outside a transaction.                        *)

RecalcRead(h) == LET v == local[h].on IN
  /\ pc[h] = "recalc"
  /\ IF vehicle[v].row # "live" THEN Answer(h)
     ELSE Carry(h, "total", [total |-> Invested(vehicle[v], expense, v)])
  /\ UNCHANGED <<inventory, applied, doubt>>

RecalcWrite(h) ==
  /\ pc[h] = "total"
  /\ vehicle' = [vehicle EXCEPT ![local[h].on].total = local[h].total]
  /\ Answer(h) /\ Leaves(h, local[h].settles, {})
  /\ UNCHANGED <<expense, plan, undo, applied>>

-----------------------------------------------------------------------------
(* Vehicles.                                                               *)

\* The form may name any status; the wholesale page's has none.
CreateCheck(h) == \E v \in Vehicles, vin \in Vins, cost \in Costs, form \in Creates,
                     status \in Statuses :
  /\ form = "createWholesale" => status = "in_stock"
  /\ vehicle[v].row = "none" /\ Others(h, v) = {}
  /\ ~Taken(vin, v)
  /\ BeginOn(h, v, form, [vin |-> vin, cost |-> cost, status |-> status, settles |-> {"total"}])

\* The row as createVehicle inserts it, with the total it is given: never with a
\* sale date, whatever its status.
Inserted(r, total) == [Absent EXCEPT !.row = "live", !.vin = r.vin, !.cost = r.cost,
                                     !.status = r.status, !.total = total]
Dateless(r) == IF r.status \in ExitStatuses THEN {"date"} ELSE {}

\* Mutant: the index is gone, the lookup alone keeps VINs apart.
CreateRowUnindexed(h) == LET r == local[h] IN
  /\ pc[h] = "create"
  /\ vehicle' = [vehicle EXCEPT ![r.on] = Inserted(r, 0)]
  /\ Goto(h, "recalc") /\ Leaves(h, {}, Dateless(r))
  /\ UNCHANGED <<expense, plan, undo, applied>>

\* P2002 when the VIN was taken meanwhile.
CreateRow(h) == LET r == local[h] IN
  /\ pc[h] = "create"
  /\ IF Taken(r.vin, r.on) THEN Answer(h) /\ UNCHANGED <<vehicle, doubt>>
     ELSE /\ vehicle' = [vehicle EXCEPT ![r.on] = Inserted(r, 0)]
          /\ Goto(h, "recalc") /\ Leaves(h, {}, Dateless(r))
  /\ UNCHANGED <<expense, plan, undo, applied>>

\* The wholesale form sums the costs itself.
WholesaleCreate(h) == LET r == local[h] IN
  /\ pc[h] = "createWholesale"
  /\ vehicle' = IF Taken(r.vin, r.on) THEN vehicle
                ELSE [vehicle EXCEPT ![r.on] = Inserted(r, r.cost)]
  /\ Answer(h)
  /\ UNCHANGED <<expense, plan, undo, applied, doubt>>

\* What a PATCH may name: costs and terms together, the VIN or the flooring
\* fee; rep is a sales rep for the deal who does not exist.
Patch(vin, cost, flooring, price, rep) ==
  [vin |-> vin, cost |-> cost, flooring |-> flooring, price |-> price, rep |-> rep]
Patches ==
  {Patch(None, c, None, p, rep) : c \in Costs, p \in Prices \cup {None}, rep \in {None, "unknown"}}
    \cup {Patch(vin, None, None, None, None) : vin \in Vins}
    \cup {Patch(None, None, c, None, None) : c \in Costs}
\* Mutant: a field the PATCH does not name becomes NULL.
PatchedNull(new, old) == new
Patched(new, old) == IF new = None THEN old ELSE new

UpdateCheck(h) == \E v \in Live, patch \in Patches :
  /\ patch.vin \in {None, vehicle[v].vin} \/ ~Taken(patch.vin, v)
  /\ BeginOn(h, v, "update", [patch |-> patch,
       settles |-> {"total"} \cup IF patch.price = None THEN {} ELSE {"price"}])

UpdateRow(h) == LET v == local[h].on  patch == local[h].patch IN
  /\ pc[h] = "update"
  /\ IF vehicle[v].row = "live" /\ patch.vin # None /\ Taken(patch.vin, v)
     THEN Answer(h) /\ UNCHANGED vehicle
     ELSE /\ vehicle' = [vehicle EXCEPT ![v].vin = Patched(patch.vin, @),
                                        ![v].cost = Patched(patch.cost, @),
                                        ![v].flooring = Patched(patch.flooring, @),
                                        ![v].price = Patched(patch.price, @)]
          /\ Goto(h, "deal")
  /\ UNCHANGED <<expense, plan, undo, applied, doubt>>

\* An unknown rep is refused here, when the vehicle is already written.
UpdateDeal(h) == LET v == local[h].on  patch == local[h].patch IN
  /\ pc[h] = "deal"
  /\ \/ /\ vehicle[v].deal = None
        /\ Goto(h, "recalc") /\ UNCHANGED <<vehicle, doubt>>
     \/ /\ vehicle[v].deal # None /\ patch.rep = "unknown"
        /\ Answer(h) /\ Leaves(h, {}, {"total", "price"})
        /\ UNCHANGED vehicle
     \/ /\ vehicle[v].deal # None /\ patch.rep # "unknown"
        /\ vehicle' = [vehicle EXCEPT ![v].deal = Patched(patch.price, @)]
        /\ Goto(h, "jacket") /\ UNCHANGED doubt
  /\ UNCHANGED <<expense, plan, undo, applied>>

\* Mutant: the jacket keeps its price.
UpdateJacketNot(h) ==
  /\ pc[h] = "jacket"
  /\ Goto(h, "recalc")
  /\ UNCHANGED <<inventory, applied, doubt>>

\* Whatever the jacket's workflow status.
UpdateJacket(h) == LET v == local[h].on IN
  /\ pc[h] = "jacket"
  /\ vehicle' = [vehicle EXCEPT
       ![v].jacket = IF @ = None THEN None ELSE Patched(local[h].patch.price, @)]
  /\ Goto(h, "recalc")
  /\ UNCHANGED <<expense, plan, undo, applied, doubt>>

\* The requests that read the row and write it back once: deleteVehicle and
\* changeVehicleStatus, and the wholesale page's edit, status and sale.
Edit(op, status, price, cost) == [op |-> op, status |-> status, price |-> price, cost |-> cost]
Edits ==
  {Edit("delete", None, None, None)}
    \cup {Edit(op, s, None, None) : op \in {"status", "edit", "wholesaleStatus"}, s \in Statuses}
    \cup {Edit("edit", None, None, c) : c \in Costs}
    \cup {Edit("recordSale", None, p, None) : p \in Prices}

\* changeVehicleStatus answers at once when there is nothing to change.
EditRead(h) == \E v \in Live, edit \in Edits : LET row == vehicle[v] IN
  /\ edit.op = "status" =>
       edit.status # row.status \/ (edit.status \notin ExitStatuses /\ row.soldAt)
  /\ BeginOn(h, v, edit.op, With(edit, [soldAt |-> row.soldAt, old |-> row.price]))

DeleteVehicle(h) ==
  /\ pc[h] = "delete"
  /\ vehicle' = [vehicle EXCEPT ![local[h].on].row = "deleted"]
  /\ Answer(h)
  /\ UNCHANGED <<expense, plan, undo, applied, doubt>>

\* A return to inventory clears the sale from the vehicle, not from its deal.
ChangeStatus(h) == LET r == local[h]  out == r.status \in ExitStatuses IN
  /\ pc[h] = "status"
  /\ vehicle' = [vehicle EXCEPT ![r.on].status = r.status, ![r.on].soldAt = out,
                                ![r.on].price = IF out THEN r.old ELSE None]
  /\ Answer(h) /\ Leaves(h, {"date"}, IF out THEN {} ELSE {"price"})
  /\ UNCHANGED <<expense, plan, undo, applied>>

\* Writes a status as it is, and costs without a recalculation.
WholesaleEdit(h) == LET r == local[h] IN
  /\ pc[h] = "edit"
  /\ vehicle' = [vehicle EXCEPT ![r.on].status = Patched(r.status, @),
                                ![r.on].cost = Patched(r.cost, @)]
  /\ Answer(h)
  /\ Leaves(h, {}, (IF r.status = None THEN {} ELSE {"date"})
                     \cup (IF r.cost = None THEN {} ELSE {"total"}))
  /\ UNCHANGED <<expense, plan, undo, applied>>

\* A sale gets the date and the price it lacks, a return to stock loses both;
\* any other status leaves them as they are.
WholesaleStatus(h) == LET r == local[h] IN
  /\ pc[h] = "wholesaleStatus"
  /\ \/ /\ r.status = "sold"
        /\ \E price \in Prices :
             vehicle' = [vehicle EXCEPT ![r.on].status = "sold",
                           ![r.on].soldAt = @ \/ ~r.soldAt,
                           ![r.on].price = IF r.old = None THEN price ELSE @]
        /\ Leaves(h, {"date"}, IF r.old = None THEN {"price"} ELSE {})
     \/ /\ r.status = "in_stock"
        /\ vehicle' = [vehicle EXCEPT ![r.on].status = "in_stock", ![r.on].soldAt = FALSE,
                                      ![r.on].price = None]
        /\ Leaves(h, {"date"}, {"price"})
     \/ /\ r.status \notin {"sold", "in_stock"}
        /\ vehicle' = [vehicle EXCEPT ![r.on].status = r.status]
        /\ Leaves(h, {}, {"date"})
  /\ Answer(h)
  /\ UNCHANGED <<expense, plan, undo, applied>>

RecordSale(h) == LET r == local[h] IN
  /\ pc[h] = "recordSale"
  /\ vehicle' = [vehicle EXCEPT ![r.on].status = "sold", ![r.on].soldAt = TRUE,
                                ![r.on].price = r.price]
  /\ Answer(h) /\ Leaves(h, {"date"}, {"price"})
  /\ UNCHANGED <<expense, plan, undo, applied>>

-----------------------------------------------------------------------------
(* Expenses.  The transaction is READ COMMITTED: its sum sees its own      *)
(* expense and what others have committed.  It locks the expense it        *)
(* writes, and the vehicle row only for the last statement.                *)

Claimed == {local[g].expense : g \in {g \in Handlers : pc[g] \in {"expense", "commit"}}}

ExpenseRead(h) == \E v \in Live, e \in Expenses, cost \in Costs,
                     op \in {"create", "update", "delete"} :
  /\ IF op = "create" THEN expense[e].on = None /\ e \notin Claimed
     ELSE expense[e].on = v /\ expense[e].live
  /\ BeginOn(h, v, "expense", [expense |-> e, op |-> op,
       cost |-> IF op = "delete" THEN expense[e].cost ELSE cost, settles |-> {"total"}])

\* The expense as the transaction writes it: a late edit revives nothing.
Written(r) == [on |-> r.on, cost |-> r.cost,
               live |-> r.op # "delete" /\ (r.op = "create" \/ expense[r.expense].live)]

ExpenseSum(h) == LET r == local[h] IN
  /\ pc[h] = "expense"
  /\ ~\E g \in Handlers : pc[g] = "commit" /\ local[g].expense = r.expense
  /\ IF vehicle[r.on].row # "live" THEN Answer(h)
     ELSE Carry(h, "commit", [total |->
            Invested(vehicle[r.on], [expense EXCEPT ![r.expense] = Written(r)], r.on)])
  /\ UNCHANGED <<inventory, applied, doubt>>

\* Mutant: the expense is written without the total.
ExpenseCommitOnly(h) == LET r == local[h] IN
  /\ pc[h] = "commit"
  /\ expense' = [expense EXCEPT ![r.expense] = Written(r)]
  /\ Answer(h) /\ Leaves(h, r.settles, {})
  /\ UNCHANGED <<vehicle, plan, undo, applied>>

ExpenseCommit(h) == LET r == local[h] IN
  /\ pc[h] = "commit"
  /\ expense' = [expense EXCEPT ![r.expense] = Written(r)]
  /\ vehicle' = [vehicle EXCEPT ![r.on].total = r.total]
  /\ Answer(h) /\ Leaves(h, r.settles, {})
  /\ UNCHANGED <<plan, undo, applied>>

-----------------------------------------------------------------------------
(* The floor plan and its undo.  An upsert keeps the snapshot's row id.    *)

PlanRequest(h) == \E p \in Plan :
  /\ p = "none" => plan # "none"
  /\ BeginOn(h, Floor, "plan", [plan |-> p])

\* create, update and deleteFlooringPlan; a plan that applies clears the undo.
PlanWrite(h) == LET p == local[h].plan IN
  /\ pc[h] = "plan"
  /\ plan' = p
  /\ applied' = IF p = "applied" THEN applied + 1 ELSE applied
  /\ IF p = "applied" THEN Goto(h, "clear") ELSE Answer(h)
  /\ UNCHANGED <<vehicle, expense, undo, doubt>>

ClearRequest(h) == BeginOn(h, Floor, "clear", [plan |-> plan])

ClearFind(h) ==
  /\ pc[h] = "clear"
  /\ IF undo = None THEN Answer(h) ELSE Carry(h, "clear_delete", [id |-> undo.id])
  /\ UNCHANGED <<inventory, applied, doubt>>

\* Mutant: the delete looks for a snapshot that has expired.
ClearExpired(h) ==
  /\ pc[h] = "clear_delete"
  /\ undo' = IF undo # None /\ undo.id = local[h].id /\ ~undo.fresh THEN None ELSE undo
  /\ Answer(h)
  /\ UNCHANGED <<vehicle, expense, plan, applied, doubt>>

\* Throws when the row is gone, with nothing more to do.
ClearDelete(h) ==
  /\ pc[h] = "clear_delete"
  /\ undo' = IF undo # None /\ undo.id = local[h].id THEN None ELSE undo
  /\ Answer(h)
  /\ UNCHANGED <<vehicle, expense, plan, applied, doubt>>

\* captureFlooringUndoFromDb.
SaveCapture(h) == BeginOn(h, Floor, "save",
  [at |-> applied, plan |-> plan, flooring |-> [v \in Live |-> vehicle[v].flooring]])

SaveUndo(h) == LET r == local[h] IN
  /\ pc[h] = "save"
  /\ undo' = [id |-> IF undo = None THEN begun ELSE undo.id, fresh |-> TRUE,
              at |-> r.at, plan |-> r.plan, flooring |-> r.flooring]
  /\ Answer(h)
  /\ UNCHANGED <<vehicle, expense, plan, applied, doubt>>

\* The three hours are over.
Expire ==
  /\ undo # None /\ undo.fresh
  /\ undo' = [undo EXCEPT !.fresh = FALSE]
  /\ UNCHANGED <<vehicle, expense, plan, applied, doubt, handlerVars>>

\* findLiveUndo, for getFlooringUndo and for restoreFlooringUndo.
FindUndo(h) ==
  /\ undo # None
  /\ BeginOn(h, Floor, IF undo.fresh THEN "restore_plan" ELSE "expired", undo)

DeleteExpired(h) ==
  /\ pc[h] = "expired"
  /\ undo' = IF undo # None /\ undo.id = local[h].id THEN None ELSE undo
  /\ Answer(h)
  /\ UNCHANGED <<vehicle, expense, plan, applied, doubt>>

\* Outside the transaction, and by id: it revives a plan deleted meanwhile.
RestorePlan(h) ==
  /\ pc[h] = "restore_plan"
  /\ plan' = IF local[h].plan = "applied" THEN "applied" ELSE "configured"
  /\ Carry(h, "restore", [live |-> Live])
  /\ UNCHANGED <<vehicle, expense, undo, applied, doubt>>

\* The vehicles and the snapshot, in one transaction: it rolls back when the
\* snapshot is gone.  No total is recalculated.
RestoreVehicles(h) ==
  LET r == local[h]
      gone == undo = None \/ undo.id # r.id
      touched == IF gone THEN {} ELSE r.live \cap DOMAIN r.flooring
  IN
  /\ pc[h] = "restore"
  /\ vehicle' = [v \in Vehicles |-> IF v \in touched
                   THEN [vehicle[v] EXCEPT !.flooring = r.flooring[v]] ELSE vehicle[v]]
  /\ IF gone THEN UNCHANGED undo /\ Doubt({"undo"}, {Floor})
     ELSE undo' = None /\ Doubt({"total"}, touched)
  /\ pc' = [pc EXCEPT ![h] = "idle"]
  /\ local' = [g \in Handlers |->
                 IF g = h THEN Nothing
                 ELSE IF local[g].on \in touched THEN [local[g] EXCEPT !.alone = FALSE]
                 ELSE local[g]]
  /\ UNCHANGED <<expense, plan, applied, begun>>

-----------------------------------------------------------------------------
InStock(vin, cost) == [Absent EXCEPT !.row = "live", !.vin = vin, !.cost = cost, !.total = cost]
SoldFor(price, row) == [row EXCEPT !.status = "sold", !.soldAt = TRUE, !.price = price,
                                   !.deal = price, !.jacket = price]

Unused == [on |-> None, cost |-> 0, live |-> FALSE]

\* A dealership at work: one vehicle with an expense, in stock or sold, or none.
InventoryInit ==
  /\ RequestsInit
  /\ \/ /\ vehicle = [v \in Vehicles |-> Absent]
        /\ expense = [e \in Expenses |-> Unused]
     \/ \E v \in Vehicles, e \in Expenses, vin \in Vins :
          LET stock == [InStock(vin, 1) EXCEPT !.total = 2] IN
          /\ \E row \in {stock} \cup {SoldFor(p, stock) : p \in Prices} :
               vehicle = [u \in Vehicles |-> IF u = v THEN row ELSE Absent]
          /\ expense = [d \in Expenses |->
               IF d = e THEN [on |-> v, cost |-> 1, live |-> TRUE] ELSE Unused]
  /\ plan \in {"none", "applied"}
  /\ undo = None
  /\ applied = 0
  /\ doubt = [f \in Facts |-> {}]

InventoryNext ==
  \/ Expire
  \/ \E h \in Handlers :
       \/ CreateCheck(h) \/ CreateRow(h) \/ WholesaleCreate(h)
       \/ UpdateCheck(h) \/ UpdateRow(h) \/ UpdateDeal(h) \/ UpdateJacket(h)
       \/ RecalcRead(h) \/ RecalcWrite(h)
       \/ EditRead(h) \/ DeleteVehicle(h) \/ ChangeStatus(h)
       \/ WholesaleEdit(h) \/ WholesaleStatus(h) \/ RecordSale(h)
       \/ ExpenseRead(h) \/ ExpenseSum(h) \/ ExpenseCommit(h)
       \/ PlanRequest(h) \/ PlanWrite(h)
       \/ ClearRequest(h) \/ ClearFind(h) \/ ClearDelete(h)
       \/ SaveCapture(h) \/ SaveUndo(h)
       \/ FindUndo(h) \/ DeleteExpired(h) \/ RestorePlan(h) \/ RestoreVehicles(h)
       \/ Fail(h)

InventorySpec == InventoryInit /\ [][InventoryNext]_inventoryVars

-----------------------------------------------------------------------------
\* Rows, the floor plan, its snapshot and the handlers' positions are of their
\* types, and a request is about a vehicle or about the floor plan.
InventoryTypeOK ==
  /\ RequestsTypeOK(VehicleAwaits \cup FloorAwaits)
  /\ \A h \in InFlight :
       IF pc[h] \in VehicleAwaits THEN local[h].on \in Vehicles ELSE local[h].on = Floor
  /\ vehicle \in [Vehicles ->
       [row : {"none", "live", "deleted"}, vin : Vins \cup {None}, cost : Nat, flooring : Nat,
        total : Nat, status : Statuses, soldAt : BOOLEAN, price : Prices \cup {None},
        deal : Prices \cup {None}, jacket : Prices \cup {None}]]
  /\ expense \in [Expenses -> [on : Vehicles \cup {None}, cost : Nat, live : BOOLEAN]]
  /\ plan \in Plan
  /\ undo # None => undo.id \in Nat /\ undo.at \in 0..applied /\ undo.plan \in Plan
  /\ doubt \in [Facts -> SUBSET (Vehicles \cup {Floor})]

Quiet(x) == \A h \in InFlight : local[h].on # x
\* The vehicles nobody is working on and whose fact nothing has put in doubt.
Settled(fact) == {v \in Live : Quiet(v) /\ v \notin doubt[fact]}

\* Two live vehicles never carry one VIN, however creations, VIN changes and
\* deletions overlap (createVehicle and updateVehicle look first and write later).
VinsUnique ==
  \A u, v \in Live : u # v => vehicle[u].vin # vehicle[v].vin

\* totalInvested is the sum of the vehicle's costs and of its live expenses,
\* unless two requests on the vehicle overlapped, one failed half way, or the
\* wholesale edit or a flooring restore changed a cost; a later request that
\* recalculates alone mends it (recalculateTotalInvested and its callers).
TotalsExplained ==
  \A v \in Settled("total") : vehicle[v].total = Invested(vehicle[v], expense, v)

\* What the records say of a sale agrees.  A live vehicle is in the current
\* inventory or in the sold reports, never in neither or both: its status is an
\* exit exactly when it has a sale date.  And the vehicle, its deal and its
\* jacket, which updateVehicle writes one after another, carry one price.
\* Overlaps and failures apart; for the date, the creations that name an exit
\* status and the wholesale page's bare status writes; and for the price, the
\* sales and returns that write the vehicle alone.
SalesAgree ==
  /\ \A v \in Settled("date") : (vehicle[v].status \in ExitStatuses) = vehicle[v].soldAt
  /\ \A v \in Settled("price") : LET row == vehicle[v] IN
       row.deal # None => row.deal = row.price /\ row.jacket \in {None, row.price}

\* The undo on offer was saved after the plan was last applied: applying a plan
\* withdraws what was saved before, unless another request about the floor plan
\* overlapped it or it failed half way (createFlooringPlan, updateFlooringPlan).
UndoPostdatesPlan ==
  undo # None /\ Quiet(Floor) /\ Floor \notin doubt["undo"] => undo.at = applied

=============================================================================
