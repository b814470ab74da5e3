-------------------------- MODULE Inventory_proofs --------------------------
(***************************************************************************)
(* Proofs about Inventory, for any number of requests, vehicles, VINs,     *)
(* prices and costs and any finite number of expenses.                     *)
(***************************************************************************)
EXTENDS Inventory, FiniteSetTheorems, TLAPS

-----------------------------------------------------------------------------
(* The inductive invariant.                                                *)

VehicleRow ==
  [row : {"none", "live", "deleted"}, vin : Vins \cup {None}, cost : Nat, flooring : Nat,
   total : Nat, status : Statuses, soldAt : BOOLEAN, price : Prices \cup {None},
   deal : Prices \cup {None}, jacket : Prices \cup {None}]
ExpenseRow == [on : Vehicles \cup {None}, cost : Nat, live : BOOLEAN]
IsSnapshot(f) == DOMAIN f \subseteq Vehicles /\ \A v \in DOMAIN f : f[v] \in Nat
IsUndo(u) ==
  /\ DOMAIN u = {"id", "fresh", "at", "plan", "flooring"}
  /\ u.id \in Nat /\ u.at \in Nat /\ u.plan \in Plan /\ IsSnapshot(u.flooring)

\* What a request carries across the await p.
Fields(p) ==
  {"on", "alone"}
    \cup (IF p \in Creates THEN {"vin", "cost", "status", "settles"} ELSE {})
    \cup (IF p \in Updates THEN {"patch", "settles"} ELSE {})
    \cup (IF p \in Recalcs THEN {"settles"} ELSE {})
    \cup (IF p \in EditAwaits THEN {"op", "status", "price", "cost", "soldAt", "old"} ELSE {})
    \cup (IF p \in ExpenseAwaits THEN {"expense", "op", "cost", "settles"} ELSE {})
    \cup (IF p \in {"total", "commit"} THEN {"total"} ELSE {})
    \cup (IF p = "plan" THEN {"plan"} ELSE {})
    \cup (IF p = "clear_delete" THEN {"id"} ELSE {})
    \cup (IF p = "save" THEN {"at", "plan", "flooring"} ELSE {})
    \cup (IF p \in Restores THEN {"id", "plan", "flooring"} ELSE {})
    \cup (IF p = "restore" THEN {"live"} ELSE {})

Carried(p, r) ==
  /\ p \in VehicleAwaits \cup FloorAwaits
  /\ Fields(p) \subseteq DOMAIN r
  /\ r.alone \in BOOLEAN
  /\ p \in VehicleAwaits => r.on \in Vehicles
  /\ p \in FloorAwaits => r.on = Floor
  /\ p \in Creates =>
       r.vin \in Vins /\ r.cost \in Nat /\ r.status \in Statuses /\ r.settles = {"total"}
  /\ p = "createWholesale" => r.status = "in_stock"
  /\ p \in Updates =>
       /\ r.patch \in Patches
       /\ r.settles = {"total"} \cup IF r.patch.price = None THEN {} ELSE {"price"}
  /\ p \in Recalcs => "total" \in r.settles /\ r.settles \subseteq {"total", "price"}
  /\ p \in EditAwaits =>
       /\ r.status \in Statuses \cup {None} /\ r.cost \in Costs \cup {None}
       /\ r.price \in Prices \cup {None} /\ r.old \in Prices \cup {None}
       /\ r.soldAt \in BOOLEAN
  /\ p \in {"status", "wholesaleStatus"} => r.status \in Statuses
  /\ p = "recordSale" => r.price \in Prices
  /\ p \in ExpenseAwaits => r.expense \in Expenses /\ r.cost \in Nat /\ r.settles = {"total"}
  /\ p \in {"total", "commit"} => r.total \in Nat
  /\ p = "plan" => r.plan \in Plan
  /\ p = "save" => r.at \in Nat /\ r.plan \in Plan /\ IsSnapshot(r.flooring)
  /\ p \in Restores => IsSnapshot(r.flooring)

\* Rows, and what the requests in flight carry.
RowTypes ==
  /\ vehicle \in [Vehicles -> VehicleRow]
  /\ expense \in [Expenses -> ExpenseRow]
PlanTypes ==
  /\ plan \in Plan
  /\ undo # None => IsUndo(undo) /\ undo.at <= applied
  /\ applied \in Nat
HandlerTypes ==
  /\ pc \in [Handlers -> VehicleAwaits \cup FloorAwaits \cup {"idle"}]
  /\ DOMAIN local = Handlers
  /\ begun \in 0..MaxRequests
  /\ \A h \in Handlers : IF pc[h] = "idle" THEN local[h] = Nothing ELSE Carried(pc[h], local[h])
  /\ \A h \in Handlers : pc[h] = "save" => local[h].at <= applied
DoubtTypes == doubt \in [Facts -> SUBSET (Vehicles \cup {Floor})]
InventoryTypes == RowTypes /\ PlanTypes /\ HandlerTypes /\ DoubtTypes

\* Who ran alone so far is alone on its vehicle; an overlap leaves everything
\* in doubt until somebody runs alone, and not having run alone the total.
Overlaps ==
  /\ \A g, h \in InFlight : g # h /\ local[g].on = local[h].on =>
       ~local[h].alone /\ \A f \in Facts : local[h].on \in doubt[f]
  /\ \A h \in InFlight : ~local[h].alone => local[h].on \in doubt["total"]

\* A request that creates a vehicle has it for itself; nothing else works on a
\* vehicle that was never created, and nobody has put money into it.
Creations ==
  /\ \A h \in InFlight : pc[h] \in Creates =>
       /\ vehicle[local[h].on].row = "none"
       /\ \A g \in InFlight : local[g].on = local[h].on => g = h
  /\ \A h \in InFlight : pc[h] \in VehicleAwaits \ Creates => vehicle[local[h].on].row # "none"
  /\ \A e \in Expenses : expense[e].on # None => vehicle[expense[e].on].row # "none"

Claims(h) == pc[h] \in ExpenseAwaits
\* An expense belongs to one vehicle ever, from the request that creates it.
Claimants == \A h \in Handlers : Claims(h) => LET r == local[h] IN
  IF r.op = "create"
  THEN /\ expense[r.expense].on = None
       /\ \A g \in Handlers \ {h} : Claims(g) => local[g].expense # r.expense
  ELSE expense[r.expense].on = r.on

\* The awaits that leave a vehicle's costs and its total to each other.
Apart == EditAwaits \cup ExpenseAwaits \cup {"update"}
\* What a request that runs alone is about to write as the total is right, and so
\* is the total of a vehicle whose costs nobody has written.
Totals ==
  /\ \A h \in InFlight : pc[h] = "total" /\ local[h].alone =>
       local[h].total = Invested(vehicle[local[h].on], expense, local[h].on)
  /\ \A h \in InFlight : pc[h] = "commit" /\ local[h].alone => LET r == local[h] IN
       r.total = Invested(vehicle[r.on], [expense EXCEPT ![r.expense] = Written(r)], r.on)
  /\ \A v \in Live \ doubt["total"] :
       (\A h \in InFlight : local[h].on = v => pc[h] \in Apart)
         => vehicle[v].total = Invested(vehicle[v], expense, v)

DateAgrees(row) == row.status \in ExitStatuses <=> row.soldAt
PriceAgrees(row) == row.deal # None => row.deal = row.price /\ row.jacket \in {None, row.price}

\* What a request knows of a fact still holds.
Knows(h, fact) == local[h].alone \/ local[h].on \notin doubt[fact]
Repricing(h) == pc[h] \in {"deal", "jacket"} /\ local[h].patch.price # None

Sales ==
  /\ \A v \in Live \ doubt["date"] : DateAgrees(vehicle[v])
  /\ \A v \in Live \ doubt["price"] :
       (\A h \in InFlight : local[h].on = v => ~Repricing(h)) => PriceAgrees(vehicle[v])
  /\ \A h \in InFlight : pc[h] \in {"status", "wholesaleStatus"} =>
       LET r == local[h]  row == vehicle[r.on] IN
       /\ Knows(h, "date") => r.soldAt = row.soldAt
       /\ Knows(h, "price") => r.old = row.price
  /\ \A h \in InFlight : Repricing(h) /\ Knows(h, "price") =>
       LET row == vehicle[local[h].on]  p == local[h].patch.price IN
       row.price = p /\ (pc[h] = "jacket" => row.deal = p)
  /\ \A h \in InFlight : pc[h] \in Recalcs /\ "price" \in local[h].settles /\ local[h].alone =>
       PriceAgrees(vehicle[local[h].on])

\* With no doubt about the floor plan, the undo on offer was saved after the plan
\* was last applied or is about to be withdrawn.
Undos == Floor \notin doubt["undo"] =>
  /\ undo # None => undo.at = applied \/ \E h \in Handlers : pc[h] \in {"clear", "clear_delete"}
  /\ \A h \in Handlers : pc[h] = "save" => local[h].at = applied
  /\ \A h \in Handlers : pc[h] = "clear_delete" => undo = None \/ undo.id = local[h].id

InventoryInv ==
  /\ InventoryTypes /\ Overlaps /\ Creations /\ VinsUnique
  /\ Claimants /\ Totals /\ Sales /\ Undos

-----------------------------------------------------------------------------
(* What requests carry.                                                    *)

\* The same request, though another may have overlapped it.
Same(new, old) ==
  /\ DOMAIN new = DOMAIN old
  /\ \A f \in DOMAIN old \ {"alone"} : new[f] = old[f]
  /\ new.alone = old.alone \/ new.alone = FALSE

LEMMA SameCarried ==
  ASSUME NEW p, NEW new, NEW old, Carried(p, old), Same(new, old)
  PROVE  /\ Carried(p, new)
         /\ \A f \in Fields(p) \ {"alone"} : f \in DOMAIN new /\ new[f] = old[f]
  <1>1. /\ \A f \in Fields(p) \ {"alone"} : f \in DOMAIN new /\ new[f] = old[f]
        /\ new.alone \in BOOLEAN
    BY DEF Carried, Same
  <1>2. Fields(p) \subseteq DOMAIN new
    BY DEF Carried, Same
  <1>3. new.on = old.on
    BY <1>1 DEF Fields
  <1>4. p \in Creates => /\ new.vin = old.vin /\ new.cost = old.cost
                         /\ new.status = old.status /\ new.settles = old.settles
    BY <1>1 DEF Fields
  <1>5. p \in Updates => new.patch = old.patch /\ new.settles = old.settles
    BY <1>1 DEF Fields
  <1>6. p \in Recalcs => new.settles = old.settles
    BY <1>1 DEF Fields
  <1>7. p \in EditAwaits => /\ new.status = old.status /\ new.cost = old.cost /\ new.price = old.price
                            /\ new.old = old.old /\ new.soldAt = old.soldAt
    BY <1>1 DEF Fields
  <1>8. p \in ExpenseAwaits =>
          new.expense = old.expense /\ new.cost = old.cost /\ new.settles = old.settles
    BY <1>1 DEF Fields
  <1>9. p \in {"total", "commit"} => new.total = old.total
    BY <1>1 DEF Fields
  <1>10. p = "plan" => new.plan = old.plan
    BY <1>1 DEF Fields
  <1>11. p = "save" => new.at = old.at /\ new.plan = old.plan /\ new.flooring = old.flooring
    BY <1>1 DEF Fields
  <1>12. p \in Restores => new.flooring = old.flooring
    BY <1>1 DEF Fields
  <1>13. Carried(p, new)
    BY <1>1, <1>2, <1>3, <1>4, <1>5, <1>6, <1>7, <1>8, <1>9, <1>10, <1>11, <1>12
       DEF Carried, EditAwaits, Creates
  <1>14. QED
    BY <1>1, <1>13

\* A step of one request leaves the others alone.
Elsewhere(h) == \A g \in Handlers \ {h} : pc'[g] = pc[g] /\ local'[g] = local[g]

LEMMA AnswerStep ==
  ASSUME HandlerTypes, NEW h \in Handlers, Answer(h), applied' = applied
  PROVE  HandlerTypes' /\ Elsewhere(h) /\ pc'[h] = "idle" /\ begun' = begun
  BY DEF HandlerTypes, Answer, Elsewhere

LEMMA GotoStep ==
  ASSUME HandlerTypes, NEW h \in Handlers, NEW p, Goto(h, p), Carried(p, local[h]),
         p # "save", applied' \in Nat, applied \in Nat, applied' >= applied, p # "idle"
  PROVE  /\ HandlerTypes' /\ Elsewhere(h)
         /\ pc'[h] = p /\ local'[h] = local[h] /\ begun' = begun
  <1>1. p \in VehicleAwaits \cup FloorAwaits
    BY DEF Carried
  <1>2. \A g \in Handlers : pc[g] = "save" => local[g].at \in Nat
    BY DEF HandlerTypes, Carried
  <1>3. QED
    BY <1>1, <1>2 DEF HandlerTypes, Goto, Elsewhere

LEMMA CarryStep ==
  ASSUME HandlerTypes, NEW h \in Handlers, NEW p, NEW more, Carry(h, p, more),
         Carried(p, With(more, local[h])), p # "save", p # "idle", applied' = applied
  PROVE  /\ HandlerTypes' /\ Elsewhere(h)
         /\ pc'[h] = p /\ local'[h] = With(more, local[h]) /\ begun' = begun
  <1>1. p \in VehicleAwaits \cup FloorAwaits
    BY DEF Carried
  <1>2. QED
    BY <1>1 DEF HandlerTypes, Carry, Elsewhere

\* A step of one request may overlap others, and no more.
Around(h) == \A g \in Handlers \ {h} : pc'[g] = pc[g] /\ Same(local'[g], local[g])

\* A request about x begins, with what it has read.
Started(h, x, p, carry) ==
  /\ BeginOn(h, x, p, carry)
  /\ p # "idle" /\ \A alone \in BOOLEAN : Carried(p, With(carry, [on |-> x, alone |-> alone]))
  /\ DOMAIN carry \cap {"on", "alone"} = {}
  /\ p = "save" => carry.at <= applied

LEMMA BeginStep ==
  ASSUME HandlerTypes, NEW h \in Handlers, NEW x, NEW p, NEW carry, Started(h, x, p, carry)
  PROVE  /\ HandlerTypes' /\ Around(h)
         /\ pc[h] = "idle" /\ pc'[h] = p /\ local'[h].on = x
         /\ local'[h].alone <=> Others(h, x) = {}
         /\ \A f \in DOMAIN carry : local'[h][f] = carry[f]
         /\ \A g \in InFlight \ {h} : local'[g].alone <=> local[g].alone /\ local[g].on # x
  <1>0. PICK alone \in BOOLEAN : alone <=> Others(h, x) = {}
    OBVIOUS
  <1> DEFINE r == With(carry, [on |-> x, alone |-> alone])
             jostled(g) == [local[g] EXCEPT !.alone = FALSE]
  <1>1. /\ pc[h] = "idle" /\ pc' = [pc EXCEPT ![h] = p] /\ begun < MaxRequests /\ begun' = begun + 1
        /\ applied' = applied
    BY DEF Started, BeginOn
  <1>2. local' = [g \in Handlers |->
                    IF g = h THEN With(carry, [on |-> x, alone |-> Others(h, x) = {}])
                    ELSE IF g \in Others(h, x) THEN jostled(g) ELSE local[g]]
    BY DEF Started, BeginOn
  <1>3. alone = (Others(h, x) = {})
    BY <1>0
  <1>4. [on |-> x, alone |-> Others(h, x) = {}] = [on |-> x, alone |-> alone]
    BY <1>3
  <1>5. local'[h] = r
    BY <1>2, <1>4
  <1>6. /\ Carried(p, r)
        /\ r.on = x /\ r.alone = alone
        /\ \A f \in DOMAIN carry : r[f] = carry[f]
        /\ p = "save" => r.at <= applied
    <2>1. Carried(p, r) /\ DOMAIN carry \cap {"on", "alone"} = {} /\ (p = "save" => carry.at <= applied)
      BY <1>0 DEF Started
    <2>2. PICK base : base = [on |-> x, alone |-> alone]
      OBVIOUS
    <2>3. DOMAIN base = {"on", "alone"} /\ base.on = x /\ base.alone = alone
      BY <2>2
    <2>4. r = With(carry, base)
      BY <2>2
    <2> HIDE DEF r
    <2>5. /\ DOMAIN r = DOMAIN carry \cup DOMAIN base
          /\ \A f \in DOMAIN carry : r[f] = carry[f]
          /\ \A f \in DOMAIN base \ DOMAIN carry : r[f] = base[f]
      BY <2>4 DEF With
    <2>6. r.on = x /\ r.alone = alone
      <3>1. "on" \in DOMAIN base \ DOMAIN carry /\ "alone" \in DOMAIN base \ DOMAIN carry
        BY <2>1, <2>3
      <3>2. r.on = base.on /\ r.alone = base.alone
        BY <2>5, <3>1
      <3>3. QED
        BY <2>3, <3>2
    <2>7. p = "save" => "at" \in DOMAIN r
      BY <2>1 DEF Carried, Fields
    <2>8. p = "save" => r.at = carry.at
      BY <2>3, <2>5, <2>7
    <2>9. QED
      BY <2>1, <2>5, <2>6, <2>8
  <1>7. ASSUME NEW g \in InFlight
        PROVE  /\ Carried(pc[g], local[g]) /\ "alone" \in DOMAIN local[g] /\ local[g].alone \in BOOLEAN
               /\ pc[g] # "idle"
    BY <1>7 DEF HandlerTypes, InFlight, Carried, Fields
  <1>8. ASSUME NEW g \in InFlight
        PROVE  /\ Same(jostled(g), local[g]) /\ ~jostled(g).alone /\ Same(local[g], local[g])
    BY <1>7 DEF Same
  <1>9. ASSUME NEW g \in Handlers \ {h}
        PROVE  pc'[g] = pc[g] /\ Same(local'[g], local[g])
    <2>1. CASE g \in Others(h, x)
      BY <1>1, <1>2, <1>8, <2>1 DEF Others, HandlerTypes
    <2>2. CASE g \notin Others(h, x)
      BY <1>1, <1>2, <2>2 DEF Same, HandlerTypes
    <2>3. QED
      BY <2>1, <2>2
  <1>10. ASSUME NEW g \in InFlight \ {h}
         PROVE  local'[g].alone <=> local[g].alone /\ local[g].on # x
    <2>1. CASE g \in Others(h, x)
      BY <1>2, <1>8, <1>10, <2>1 DEF InFlight, Others
    <2>2. CASE g \notin Others(h, x)
      <3>1. local'[g] = local[g] /\ local[g].on # x
        BY <1>2, <2>2 DEF Others, InFlight
      <3>2. QED
        BY <3>1
    <2>3. QED
      BY <2>1, <2>2
  <1> HIDE DEF r
  <1>11. HandlerTypes'
    <2>1. pc' \in [Handlers -> VehicleAwaits \cup FloorAwaits \cup {"idle"}] /\ pc'[h] = p
      BY <1>1, <1>6 DEF HandlerTypes, Carried
    <2>2. DOMAIN local' = Handlers /\ begun' \in 0..MaxRequests
      BY <1>1, <1>2, RequestsAssumption DEF HandlerTypes
    <2>3. ASSUME NEW g \in Handlers
          PROVE  /\ IF pc'[g] = "idle" THEN local'[g] = Nothing ELSE Carried(pc'[g], local'[g])
                 /\ pc'[g] = "save" => local'[g].at <= applied'
      <3>1. CASE g = h
        BY <1>1, <1>5, <1>6, <2>1, <3>1 DEF Started
      <3>2. CASE g # h /\ pc[g] = "idle"
        BY <1>1, <1>2, <3>2 DEF HandlerTypes, Others, InFlight
      <3>3. CASE g # h /\ pc[g] # "idle"
        <4>1. g \in InFlight /\ pc'[g] = pc[g] /\ Same(local'[g], local[g])
          BY <1>9, <3>3 DEF InFlight
        <4>2. Carried(pc'[g], local'[g])
          BY <1>7, <4>1, SameCarried
        <4>3. pc[g] = "save" => local'[g].at = local[g].at
          BY <1>7, <4>1, SameCarried DEF Fields
        <4>4. QED
          BY <1>1, <3>3, <4>1, <4>2, <4>3 DEF HandlerTypes
      <3>4. QED
        BY <3>1, <3>2, <3>3
    <2>4. QED
      BY <2>1, <2>2, <2>3 DEF HandlerTypes
  <1>12. QED
    BY <1>0, <1>1, <1>5, <1>6, <1>9, <1>10, <1>11 DEF Around, HandlerTypes

StartAwaits ==
  Creates \cup {"update", "expense", "plan", "clear", "save", "restore_plan", "expired"} \cup EditAwaits

Starts(h) ==
  \/ CreateCheck(h) \/ UpdateCheck(h) \/ EditRead(h) \/ ExpenseRead(h)
  \/ PlanRequest(h) \/ ClearRequest(h) \/ SaveCapture(h) \/ FindUndo(h)

\* What r, at the await p, has just read is so.
Reading(h, p, r) ==
  /\ p \in StartAwaits
  /\ p \in Creates => vehicle[r.on].row = "none" /\ Others(h, r.on) = {}
  /\ p \in VehicleAwaits \ Creates => vehicle[r.on].row = "live"
  /\ p \in {"status", "wholesaleStatus"} =>
       r.soldAt = vehicle[r.on].soldAt /\ r.old = vehicle[r.on].price
  /\ p = "expense" =>
       IF r.op = "create" THEN expense[r.expense].on = None /\ r.expense \notin Claimed
       ELSE expense[r.expense].on = r.on
  /\ p = "save" => r.at = applied

\* The request h begins as the others are.
Begins(h) ==
  /\ HandlerTypes' /\ Around(h)
  /\ pc[h] = "idle" /\ pc'[h] # "idle"
  /\ local'[h].alone <=> Others(h, local'[h].on) = {}
  /\ \A g \in InFlight \ {h} : local'[g].alone <=> local[g].alone /\ local[g].on # local'[h].on
  /\ IF Others(h, local'[h].on) = {} THEN doubt' = doubt ELSE Doubt(Facts, {local'[h].on})
  /\ UNCHANGED <<vehicle, expense, plan, undo, applied>>

LEMMA StartedStep ==
  ASSUME HandlerTypes, NEW h \in Handlers, NEW x, NEW p, NEW carry, Started(h, x, p, carry)
  PROVE  /\ Begins(h) /\ pc'[h] = p /\ local'[h].on = x
         /\ \A f \in DOMAIN carry : local'[h][f] = carry[f]
  <1>1. /\ IF Others(h, x) = {} THEN doubt' = doubt ELSE Doubt(Facts, {x})
        /\ UNCHANGED <<vehicle, expense, plan, undo, applied>> /\ p # "idle"
    BY DEF Started, BeginOn, inventory
  <1>2. /\ HandlerTypes' /\ Around(h)
        /\ pc[h] = "idle" /\ pc'[h] = p /\ local'[h].on = x
        /\ local'[h].alone <=> Others(h, x) = {}
        /\ \A f \in DOMAIN carry : local'[h][f] = carry[f]
        /\ \A g \in InFlight \ {h} : local'[g].alone <=> local[g].alone /\ local[g].on # x
    BY BeginStep
  <1>3. Begins(h)
    BY <1>1, <1>2 DEF Begins
  <1>4. QED
    BY <1>2, <1>3

LEMMA StartStep ==
  ASSUME InventoryTypes, NEW h \in Handlers, Starts(h)
  PROVE  Begins(h) /\ Reading(h, pc'[h], local'[h])
  <1>0. /\ HandlerTypes /\ RowTypes /\ PlanTypes
        /\ \A v \in Vehicles : vehicle[v] \in VehicleRow
        /\ \A e \in Expenses : expense[e] \in ExpenseRow
    BY DEF InventoryTypes, RowTypes
  <1>1. \A v \in Live : v \in Vehicles /\ vehicle[v].row = "live"
    BY DEF Live
  <1> DEFINE Base(x, alone) == [on |-> x, alone |-> alone]
  <1>2. CASE CreateCheck(h)
    <2>1. PICK v \in Vehicles, vin \in Vins, cost \in Costs, form \in Creates, status \in Statuses :
            /\ form = "createWholesale" => status = "in_stock"
            /\ vehicle[v].row = "none" /\ Others(h, v) = {}
            /\ BeginOn(h, v, form,
                       [vin |-> vin, cost |-> cost, status |-> status, settles |-> {"total"}])
      BY <1>2 DEF CreateCheck, Creates
    <2> DEFINE carry == [vin |-> vin, cost |-> cost, status |-> status, settles |-> {"total"}]
    <2>2. ASSUME NEW alone \in BOOLEAN
          PROVE  Carried(form, With(carry, Base(v, alone)))
      BY <2>1, InventoryAssumption DEF With, Carried, Fields, Creates, Updates, Recalcs, EditAwaits,
         ExpenseAwaits, Restores, VehicleAwaits, FloorAwaits
    <2>3. Started(h, v, form, carry)
      BY <2>1, <2>2 DEF Started, Creates
    <2>4. Begins(h) /\ pc'[h] = form /\ local'[h].on = v
      BY <1>0, <2>3, StartedStep
    <2>5. QED
      BY <2>1, <2>4 DEF Reading, StartAwaits, Creates
  <1>3. CASE UpdateCheck(h)
    <2>1. PICK v \in Live, patch \in Patches :
            BeginOn(h, v, "update", [patch |-> patch,
              settles |-> {"total"} \cup IF patch.price = None THEN {} ELSE {"price"}])
      BY <1>3 DEF UpdateCheck
    <2> DEFINE settled == {"total"} \cup IF patch.price = None THEN {} ELSE {"price"}
               carry == [patch |-> patch, settles |-> settled]
    <2>2. ASSUME NEW alone \in BOOLEAN
          PROVE  Carried("update", With(carry, Base(v, alone)))
      BY <1>1 DEF With, Carried, Fields, Creates, Updates, Recalcs, EditAwaits,
         ExpenseAwaits, Restores, VehicleAwaits, FloorAwaits
    <2>3. Started(h, v, "update", carry)
      BY <2>1, <2>2 DEF Started
    <2>4. Begins(h) /\ pc'[h] = "update" /\ local'[h].on = v
      BY <1>0, <2>3, StartedStep
    <2>5. QED
      BY <1>1, <2>1, <2>4 DEF Reading, StartAwaits, Creates, EditAwaits
  <1>4. CASE EditRead(h)
    <2>1. PICK v \in Live, edit \in Edits :
            BeginOn(h, v, edit.op, With(edit, [soldAt |-> vehicle[v].soldAt, old |-> vehicle[v].price]))
      BY <1>4 DEF EditRead
    <2>2. /\ DOMAIN edit = {"op", "status", "price", "cost"}
          /\ edit.op \in EditAwaits
          /\ edit.status \in Statuses \cup {None} /\ edit.cost \in Costs \cup {None}
          /\ edit.price \in Prices \cup {None}
          /\ edit.op \in {"status", "wholesaleStatus"} => edit.status \in Statuses
          /\ edit.op = "recordSale" => edit.price \in Prices
      <3>1. \/ edit = Edit("delete", None, None, None)
            \/ \E op \in {"status", "edit", "wholesaleStatus"}, s \in Statuses :
                 edit = Edit(op, s, None, None)
            \/ \E c \in Costs : edit = Edit("edit", None, None, c)
            \/ \E p \in Prices : edit = Edit("recordSale", None, p, None)
        BY DEF Edits
      <3>2. QED
        BY <3>1 DEF Edit, EditAwaits
    <2>3. PICK carry :
            carry = With(edit, [soldAt |-> vehicle[v].soldAt, old |-> vehicle[v].price])
      OBVIOUS
    <2>4. /\ DOMAIN carry = {"op", "status", "price", "cost", "soldAt", "old"}
          /\ carry.op = edit.op /\ carry.status = edit.status /\ carry.price = edit.price
          /\ carry.cost = edit.cost
          /\ carry.soldAt = vehicle[v].soldAt /\ carry.old = vehicle[v].price
      BY <2>2, <2>3 DEF With
    <2>5. vehicle[v].soldAt \in BOOLEAN /\ vehicle[v].price \in Prices \cup {None}
      BY <1>0, <1>1 DEF VehicleRow
    <2>6. ASSUME NEW alone \in BOOLEAN
          PROVE  Carried(edit.op, With(carry, Base(v, alone)))
      <3>1. PICK r : r = With(carry, Base(v, alone))
        OBVIOUS
      <3>2. /\ DOMAIN r = {"on", "alone", "op", "status", "price", "cost", "soldAt", "old"}
            /\ r.on = v /\ r.alone = alone
            /\ r.op = edit.op /\ r.status = edit.status /\ r.price = edit.price
            /\ r.cost = edit.cost /\ r.soldAt = carry.soldAt /\ r.old = carry.old
        BY <2>4, <3>1 DEF With
      <3>3. v \in Vehicles
        BY <1>1
      <3>4. Carried(edit.op, r)
        BY <2>2, <2>4, <2>5, <3>2, <3>3 DEF Carried, Fields, Creates, Updates, Recalcs, EditAwaits,
           ExpenseAwaits, Restores, VehicleAwaits, FloorAwaits
      <3>5. QED
        BY <3>1, <3>4
    <2>7. Started(h, v, edit.op, carry)
      BY <2>1, <2>2, <2>3, <2>4, <2>6 DEF Started, EditAwaits
    <2>8. /\ Begins(h) /\ pc'[h] = edit.op /\ local'[h].on = v
          /\ local'[h].soldAt = vehicle[v].soldAt /\ local'[h].old = vehicle[v].price
      BY <1>0, <2>4, <2>7, StartedStep
    <2>9. QED
      BY <1>1, <2>2, <2>8 DEF Reading, StartAwaits, EditAwaits, Creates
  <1>5. CASE ExpenseRead(h)
    <2>1. PICK v \in Live, e \in Expenses, cost \in Costs, op \in {"create", "update", "delete"} :
            /\ IF op = "create" THEN expense[e].on = None /\ e \notin Claimed
               ELSE expense[e].on = v /\ expense[e].live
            /\ BeginOn(h, v, "expense", [expense |-> e, op |-> op,
                 cost |-> IF op = "delete" THEN expense[e].cost ELSE cost, settles |-> {"total"}])
      BY <1>5 DEF ExpenseRead
    <2>2. PICK c \in Nat : c = IF op = "delete" THEN expense[e].cost ELSE cost
      BY <1>0, InventoryAssumption DEF ExpenseRow
    <2> DEFINE carry == [expense |-> e, op |-> op, cost |-> c, settles |-> {"total"}]
    <2>3. ASSUME NEW alone \in BOOLEAN
          PROVE  Carried("expense", With(carry, Base(v, alone)))
      BY <1>1 DEF With, Carried, Fields, Creates, Updates, Recalcs, EditAwaits,
         ExpenseAwaits, Restores, VehicleAwaits, FloorAwaits
    <2>4. Started(h, v, "expense", carry)
      BY <2>1, <2>2, <2>3 DEF Started
    <2>5. /\ Begins(h) /\ pc'[h] = "expense" /\ local'[h].on = v
          /\ local'[h].expense = e /\ local'[h].op = op
      BY <1>0, <2>4, StartedStep
    <2>6. QED
      BY <1>1, <2>1, <2>5 DEF Reading, StartAwaits, Creates, EditAwaits
  <1>6. CASE PlanRequest(h)
    <2>1. PICK p \in Plan : BeginOn(h, Floor, "plan", [plan |-> p])
      BY <1>6 DEF PlanRequest
    <2>2. ASSUME NEW alone \in BOOLEAN
          PROVE  Carried("plan", With([plan |-> p], Base(Floor, alone)))
      BY DEF With, Carried, Fields, Creates, Updates, Recalcs, EditAwaits,
         ExpenseAwaits, Restores, VehicleAwaits, FloorAwaits
    <2>3. Started(h, Floor, "plan", [plan |-> p])
      BY <2>1, <2>2 DEF Started
    <2>4. Begins(h) /\ pc'[h] = "plan"
      BY <1>0, <2>3, StartedStep
    <2>5. QED
      BY <2>4 DEF Reading, StartAwaits, Creates, Updates, Recalcs, EditAwaits, ExpenseAwaits,
         VehicleAwaits
  <1>7. CASE ClearRequest(h)
    <2>1. BeginOn(h, Floor, "clear", [plan |-> plan])
      BY <1>7 DEF ClearRequest
    <2>2. ASSUME NEW alone \in BOOLEAN
          PROVE  Carried("clear", With([plan |-> plan], Base(Floor, alone)))
      BY DEF With, Carried, Fields, Creates, Updates, Recalcs, EditAwaits,
         ExpenseAwaits, Restores, VehicleAwaits, FloorAwaits
    <2>3. Started(h, Floor, "clear", [plan |-> plan])
      BY <2>1, <2>2 DEF Started
    <2>4. Begins(h) /\ pc'[h] = "clear"
      BY <1>0, <2>3, StartedStep
    <2>5. QED
      BY <2>4 DEF Reading, StartAwaits, Creates, Updates, Recalcs, EditAwaits, ExpenseAwaits,
         VehicleAwaits
  <1>8. CASE SaveCapture(h)
    <2> DEFINE fees == [v \in Live |-> vehicle[v].flooring]
               carry == [at |-> applied, plan |-> plan, flooring |-> fees]
    <2>1. BeginOn(h, Floor, "save", carry)
      BY <1>8 DEF SaveCapture
    <2>2. IsSnapshot(fees)
      BY <1>0, <1>1 DEF IsSnapshot, VehicleRow
    <2> HIDE DEF fees
    <2>3. ASSUME NEW alone \in BOOLEAN
          PROVE  Carried("save", With(carry, Base(Floor, alone)))
      BY <1>0, <2>2 DEF With, Carried, Fields, Creates, Updates, Recalcs, EditAwaits,
         ExpenseAwaits, Restores, VehicleAwaits, FloorAwaits, PlanTypes
    <2>4. Started(h, Floor, "save", carry)
      BY <1>0, <2>1, <2>3 DEF Started, PlanTypes
    <2>5. Begins(h) /\ pc'[h] = "save" /\ local'[h].at = applied
      BY <1>0, <2>4, StartedStep
    <2>6. QED
      BY <2>5 DEF Reading, StartAwaits, Creates, Updates, Recalcs, EditAwaits, ExpenseAwaits,
         VehicleAwaits
  <1>9. CASE FindUndo(h)
    <2>1. PICK p \in {"restore_plan", "expired"} : BeginOn(h, Floor, p, undo)
      BY <1>9 DEF FindUndo
    <2>2. IsUndo(undo)
      BY <1>0, <1>9 DEF FindUndo, PlanTypes
    <2>3. ASSUME NEW alone \in BOOLEAN
          PROVE  Carried(p, With(undo, Base(Floor, alone)))
      BY <2>2 DEF With, Carried, Fields, Creates, Updates, Recalcs, EditAwaits,
         ExpenseAwaits, Restores, VehicleAwaits, FloorAwaits, IsUndo
    <2>4. Started(h, Floor, p, undo)
      BY <2>1, <2>2, <2>3 DEF Started, IsUndo
    <2>5. Begins(h) /\ pc'[h] = p
      BY <1>0, <2>4, StartedStep
    <2>6. QED
      BY <2>5 DEF Reading, StartAwaits, Creates, Updates, Recalcs, EditAwaits, ExpenseAwaits,
         VehicleAwaits
  <1>10. QED
    BY <1>2, <1>3, <1>4, <1>5, <1>6, <1>7, <1>8, <1>9 DEF Starts

-----------------------------------------------------------------------------
(* Types.                                                                  *)

\* A fact is settled by nobody but a request that ran alone, as it answers.
Settles(h) ==
  /\ DoubtTypes'
  /\ \A f \in Facts : \A x \in doubt[f] :
       x \in doubt'[f] \/ (x = local[h].on /\ local[h].alone /\ pc'[h] = "idle")

LEMMA LeavesStep ==
  ASSUME DoubtTypes, NEW h \in Handlers, local[h].on \in Vehicles \cup {Floor},
         NEW right, NEW wrong, Leaves(h, right, wrong), pc'[h] = "idle"
  PROVE  /\ Settles(h)
         /\ \A f \in Facts : \A x \in doubt'[f] : x \in doubt[f] \/ (x = local[h].on /\ f \in wrong)
         /\ \A f \in wrong \cap Facts : local[h].on \in doubt'[f]
         /\ \A f \in Facts \ right : doubt[f] \subseteq doubt'[f]
  BY DEF DoubtTypes, Leaves, Settles

LEMMA DoubtStep ==
  ASSUME DoubtTypes, NEW h \in Handlers, NEW facts, NEW xs \in SUBSET (Vehicles \cup {Floor}),
         Doubt(facts, xs)
  PROVE  /\ Settles(h)
         /\ \A f \in Facts : doubt[f] \subseteq doubt'[f]
         /\ \A f \in facts \cap Facts : xs \subseteq doubt'[f]
  BY DEF DoubtTypes, Doubt, Settles

\* The request h, in flight, goes on or answers, and the others are where they were.
Continues(h) ==
  /\ HandlerTypes' /\ Elsewhere(h)
  /\ pc[h] # "idle" /\ local[h].on \in Vehicles \cup {Floor}
  /\ pc'[h] # "idle" => local'[h].on = local[h].on /\ local'[h].alone = local[h].alone
  /\ Settles(h)

LEMMA InFlightTypes ==
  ASSUME HandlerTypes, NEW h \in InFlight
  PROVE  /\ h \in Handlers /\ pc[h] # "idle" /\ Carried(pc[h], local[h])
         /\ local[h].on \in Vehicles \cup {Floor} /\ local[h].alone \in BOOLEAN
         /\ pc[h] \in VehicleAwaits <=> local[h].on \in Vehicles
         /\ pc[h] \in FloorAwaits <=> local[h].on = Floor
  BY InventoryAssumption DEF HandlerTypes, InFlight, Carried

\* The ways a handler's step ends.
LEMMA Answers ==
  ASSUME HandlerTypes, NEW h \in InFlight, Answer(h), applied' = applied, Settles(h)
  PROVE  Continues(h) /\ pc'[h] = "idle"
  <1>1. HandlerTypes' /\ Elsewhere(h) /\ pc'[h] = "idle"
    BY AnswerStep, InFlightTypes
  <1>2. QED
    BY <1>1, InFlightTypes DEF Continues

LEMMA GoesOn ==
  ASSUME HandlerTypes, NEW h \in InFlight, NEW p, Goto(h, p), Carried(p, local[h]),
         p # "save", p # "idle", applied \in Nat, applied' \in Nat, applied' >= applied,
         DoubtTypes, doubt' = doubt
  PROVE  Continues(h) /\ pc'[h] = p /\ local'[h] = local[h]
  <1>1. HandlerTypes' /\ Elsewhere(h) /\ pc'[h] = p /\ local'[h] = local[h]
    BY GotoStep, InFlightTypes
  <1>2. Settles(h)
    BY DEF Settles, DoubtTypes
  <1>3. QED
    BY <1>1, <1>2, InFlightTypes DEF Continues

\* A request that goes on, with something in doubt that it will not settle.
LEMMA GoesOnLeaving ==
  ASSUME HandlerTypes, NEW h \in InFlight, NEW p, Goto(h, p), Carried(p, local[h]),
         p # "save", p # "idle", applied \in Nat, applied' = applied,
         DoubtTypes, NEW wrong, Leaves(h, {}, wrong)
  PROVE  /\ Continues(h) /\ pc'[h] = p /\ local'[h] = local[h]
         /\ \A f \in wrong \cap Facts : local[h].on \in doubt'[f]
  <1>1. HandlerTypes' /\ Elsewhere(h) /\ pc'[h] = p /\ local'[h] = local[h]
    BY GotoStep, InFlightTypes
  <1>2. local[h].on \in Vehicles \cup {Floor}
    BY InFlightTypes
  <1>3. Settles(h) /\ \A f \in wrong \cap Facts : local[h].on \in doubt'[f]
    BY <1>2 DEF Settles, DoubtTypes, Leaves
  <1>4. QED
    BY <1>1, <1>2, <1>3, InFlightTypes DEF Continues

LEMMA CarriesOn ==
  ASSUME HandlerTypes, NEW h \in InFlight, NEW p, NEW more, Carry(h, p, more),
         Carried(p, With(more, local[h])), p # "save", p # "idle", applied' = applied,
         DOMAIN more \cap {"on", "alone"} = {}, DoubtTypes, doubt' = doubt
  PROVE  Continues(h) /\ pc'[h] = p /\ local'[h] = With(more, local[h])
  <1>1. HandlerTypes' /\ Elsewhere(h) /\ pc'[h] = p /\ local'[h] = With(more, local[h])
    BY CarryStep, InFlightTypes
  <1>2. Settles(h)
    BY DEF Settles, DoubtTypes
  <1>3. {"on", "alone"} \subseteq DOMAIN local[h]
    BY InFlightTypes DEF Carried, Fields
  <1>4. local'[h].on = local[h].on /\ local'[h].alone = local[h].alone
    BY <1>1, <1>3 DEF With
  <1>5. QED
    BY <1>1, <1>2, <1>4, InFlightTypes DEF Continues

-----------------------------------------------------------------------------
(* What a step of a request about a vehicle does, to its row alone.        *)

\* Rows are written one at a time, an expense only by its commit.
Writes(h) == LET r == local[h] IN
  /\ Continues(h) /\ r.on \in Vehicles /\ pc'[h] \notin Creates /\ pc'[h] \notin FloorAwaits
  /\ RowTypes' /\ UNCHANGED <<plan, undo, applied>>
  /\ \A u \in Vehicles \ {r.on} : vehicle'[u] = vehicle[u]
  /\ vehicle'[r.on].row = "none" => vehicle[r.on].row = "none" /\ pc'[h] = "idle"
  /\ \A e \in Expenses :
       \/ expense'[e] = expense[e]
       \/ pc[h] = "commit" /\ pc'[h] = "idle" /\ e = r.expense /\ expense'[e] = Written(r)
  /\ pc'[h] \in ExpenseAwaits =>
       /\ pc[h] = "expense" /\ UNCHANGED <<vehicle, expense>>
       /\ local'[h].expense = r.expense /\ local'[h].op = r.op /\ local'[h].cost = r.cost
  /\ pc'[h] \notin {"status", "wholesaleStatus"}

\* The row's VIN is nobody else's.
VinStands(h) == LET v == local[h].on IN
  vehicle'[v].row = "live" => \A u \in Live \ {v} : vehicle[u].vin # vehicle'[v].vin

OthersApart(h) == \A g \in InFlight \ {h} : local[g].on = local[h].on => pc[g] \in Apart
OthersKeepPrice(h) == \A g \in InFlight \ {h} : local[g].on = local[h].on => ~Repricing(g)

\* The row's costs and total agree, or the request is yet to settle them.
TotalStands(h) == LET r == local[h]  v == r.on IN
  /\ pc'[h] = "total" /\ r.alone => local'[h].total = Invested(vehicle'[v], expense', v)
  /\ pc'[h] = "commit" /\ r.alone =>
       local'[h].total = Invested(vehicle[v], [expense EXCEPT ![r.expense] = Written(r)], v)
  /\ vehicle'[v].row = "live" /\ v \notin doubt'["total"] /\ pc'[h] \in Apart \cup {"idle"}
       /\ OthersApart(h) => vehicle'[v].total = Invested(vehicle'[v], expense', v)

\* What the row says of a sale agrees, or the request is yet to settle it.
SaleStands(h) == LET r == local[h]  v == r.on  row == vehicle'[v] IN
  /\ row.row = "live" /\ v \notin doubt'["date"] => DateAgrees(row)
  /\ pc'[h] \in {"deal", "jacket"} => local'[h].patch = r.patch
  /\ pc'[h] \in {"deal", "jacket"} /\ r.patch.price # None /\ (r.alone \/ v \notin doubt'["price"]) =>
       row.price = r.patch.price /\ (pc'[h] = "jacket" => row.deal = r.patch.price)
  /\ pc'[h] \in Recalcs => local'[h].settles = r.settles
  /\ pc'[h] \in Recalcs /\ "price" \in r.settles /\ r.alone => PriceAgrees(row)
  /\ row.row = "live" /\ v \notin doubt'["price"] /\ OthersKeepPrice(h)
       /\ ~(pc'[h] \in {"deal", "jacket"} /\ r.patch.price # None) => PriceAgrees(row)

Stands(h) == Writes(h) /\ VinStands(h) /\ TotalStands(h) /\ SaleStands(h)

\* What a request in flight at a vehicle knows.
LEMMA AtVehicle ==
  ASSUME InventoryInv, NEW h \in Handlers, pc[h] \in VehicleAwaits
  PROVE  /\ h \in InFlight /\ HandlerTypes /\ RowTypes /\ PlanTypes /\ DoubtTypes
         /\ Carried(pc[h], local[h]) /\ local[h].on \in Vehicles /\ local[h].alone \in BOOLEAN
         /\ vehicle[local[h].on] \in VehicleRow
         /\ pc[h] \notin Creates => vehicle[local[h].on].row # "none"
         /\ \A u \in Vehicles : vehicle[u] \in VehicleRow
  <1>1. pc[h] # "idle"
    BY DEF VehicleAwaits, Creates, Updates, Recalcs, EditAwaits, ExpenseAwaits
  <1>2. h \in InFlight
    BY <1>1 DEF InFlight
  <1>3. HandlerTypes /\ RowTypes /\ PlanTypes /\ DoubtTypes
    BY DEF InventoryInv, InventoryTypes
  <1>4. Carried(pc[h], local[h]) /\ local[h].on \in Vehicles /\ local[h].alone \in BOOLEAN
    BY <1>2, <1>3, InFlightTypes
  <1>5. QED
    BY <1>2, <1>3, <1>4 DEF RowTypes, InventoryInv, Creations

\* A new vehicle has only the costs it came with.
LEMMA NothingSpent ==
  ASSUME NEW table, NEW v, \A e \in Expenses : table[e].on # v
  PROVE  Spent(table, v) = 0
  <1>1. Counted(table, v) = {}
    BY DEF Counted
  <1>2. UNION {{e} \X (1..table[e].cost) : e \in Counted(table, v)} = {}
    BY <1>1
  <1>3. QED
    BY <1>2, FS_EmptySet DEF Spent

LEMMA CreateRowStep ==
  ASSUME InventoryInv, NEW h \in Handlers, CreateRow(h)
  PROVE  Stands(h)
  <1> DEFINE r == local[h]  v == r.on
  <1>0. pc[h] = "create" /\ UNCHANGED <<expense, plan, undo, applied>>
    BY DEF CreateRow
  <1>1. /\ h \in InFlight /\ HandlerTypes /\ RowTypes /\ PlanTypes /\ DoubtTypes
        /\ Carried("create", r) /\ v \in Vehicles /\ r.alone \in BOOLEAN
        /\ vehicle[v] \in VehicleRow /\ vehicle[v].row = "none"
    BY <1>0, AtVehicle DEF VehicleAwaits, Creates, InventoryInv, Creations
  <1>2. /\ applied \in Nat /\ r.vin \in Vins /\ r.cost \in Nat /\ r.status \in Statuses
        /\ r.settles = {"total"}
    BY <1>1 DEF PlanTypes, Carried, Creates
  <1>3. CASE Taken(r.vin, v)
    <2>1. Answer(h) /\ UNCHANGED <<vehicle, doubt>>
      BY <1>3 DEF CreateRow
    <2>0. Settles(h)
      BY <1>1, <2>1 DEF Settles, DoubtTypes
    <2>2. Continues(h) /\ pc'[h] = "idle"
      BY <1>0, <1>1, <2>0, <2>1, Answers
    <2>3. Writes(h)
      BY <1>0, <1>1, <2>1, <2>2 DEF Writes, RowTypes, Creates, FloorAwaits, Restores, ExpenseAwaits
    <2>4. vehicle'[v].row = "none"
      BY <1>1, <2>1
    <2>5. QED
      BY <2>2, <2>3, <2>4 DEF Stands, VinStands, TotalStands, SaleStands, Recalcs
  <1>4. CASE ~Taken(r.vin, v)
    <2>1. /\ Goto(h, "recalc") /\ vehicle' = [vehicle EXCEPT ![v] = Inserted(r, 0)]
          /\ Leaves(h, {}, Dateless(r))
      BY <1>4 DEF CreateRow
    <2>2. Carried("recalc", r)
      BY <1>1 DEF Carried, Fields, Creates, Updates, Recalcs, EditAwaits,
         ExpenseAwaits, Restores, VehicleAwaits, FloorAwaits
    <2>3. /\ Continues(h) /\ pc'[h] = "recalc" /\ local'[h] = r
          /\ \A f \in Dateless(r) \cap Facts : v \in doubt'[f]
      BY <1>0, <1>1, <1>2, <2>1, <2>2, GoesOnLeaving
    <2> DEFINE row == Inserted(r, 0)
    <2>4. /\ row \in VehicleRow /\ row.row = "live" /\ row.vin = r.vin /\ row.status = r.status
          /\ row.soldAt = FALSE /\ row.deal = None
      BY <1>1, <1>2 DEF Inserted, Absent, VehicleRow, Statuses
    <2> HIDE DEF row
    <2>5. vehicle'[v] = row /\ (\A u \in Vehicles \ {v} : vehicle'[u] = vehicle[u]) /\ RowTypes'
      BY <1>0, <1>1, <2>1, <2>4 DEF RowTypes, row
    <2>6. Writes(h)
      BY <1>0, <1>1, <2>3, <2>4, <2>5 DEF Writes, Creates, FloorAwaits, Restores, ExpenseAwaits
    <2>7. VinStands(h)
      BY <1>4, <2>4, <2>5 DEF VinStands, Taken
    <2>8. TotalStands(h)
      BY <2>3 DEF TotalStands, Apart, EditAwaits, ExpenseAwaits
    <2>9. SaleStands(h)
      <3>1. PriceAgrees(row) /\ (r.status \notin ExitStatuses => DateAgrees(row))
        BY <2>4 DEF DateAgrees, PriceAgrees
      <3>0. r.status \in ExitStatuses => v \in doubt'["date"]
        BY <2>3 DEF Dateless, Facts
      <3>2. QED
        BY <2>3, <2>5, <3>0, <3>1 DEF SaleStands, Recalcs
    <2>10. QED
      BY <2>6, <2>7, <2>8, <2>9 DEF Stands
  <1>5. QED
    BY <1>3, <1>4

\* A request that writes its vehicle's row, or leaves it alone.
LEMMA RowWritten ==
  ASSUME InventoryInv, NEW h \in Handlers, pc[h] \in VehicleAwaits, Continues(h),
         NEW row \in VehicleRow, vehicle' = [vehicle EXCEPT ![local[h].on] = row],
         row.row = "none" => vehicle[local[h].on].row = "none" /\ pc'[h] = "idle",
         UNCHANGED <<expense, plan, undo, applied>>,
         pc'[h] \in {"idle", "deal", "jacket", "recalc", "total"}
  PROVE  /\ Writes(h) /\ vehicle'[local[h].on] = row
         /\ \A u \in Vehicles \ {local[h].on} : vehicle'[u] = vehicle[u]
  <1>1. RowTypes /\ local[h].on \in Vehicles
    BY AtVehicle
  <1>2. vehicle'[local[h].on] = row /\ \A u \in Vehicles \ {local[h].on} : vehicle'[u] = vehicle[u]
    BY <1>1 DEF RowTypes
  <1>3. RowTypes'
    BY <1>1 DEF RowTypes
  <1>4. QED
    BY <1>1, <1>2, <1>3 DEF Writes, Creates, FloorAwaits, Restores, ExpenseAwaits

LEMMA RowKept ==
  ASSUME InventoryInv, NEW h \in Handlers, pc[h] \in VehicleAwaits, Continues(h),
         UNCHANGED <<vehicle, expense, plan, undo, applied>>,
         pc'[h] \in {"idle", "recalc", "total"},
         vehicle[local[h].on].row = "none" => pc'[h] = "idle"
  PROVE  Writes(h) /\ VinStands(h)
  <1>1. RowTypes /\ local[h].on \in Vehicles
    BY AtVehicle
  <1>2. VinStands(h)
    BY <1>1 DEF VinStands, InventoryInv, VinsUnique, Live
  <1>3. QED
    BY <1>1, <1>2 DEF Writes, Creates, FloorAwaits, Restores, ExpenseAwaits, RowTypes

\* A write that keeps the VIN of a live row, and one that keeps the terms of sale.
LEMMA VinKept ==
  ASSUME InventoryInv, NEW h \in Handlers, pc[h] \in VehicleAwaits,
         vehicle'[local[h].on].row = "live" => /\ vehicle[local[h].on].row = "live"
                                               /\ vehicle'[local[h].on].vin = vehicle[local[h].on].vin
  PROVE  VinStands(h)
  BY AtVehicle DEF VinStands, InventoryInv, VinsUnique, Live

\* A write between costs and total, of a row that keeps both.
LEMMA TotalKept ==
  ASSUME InventoryInv, NEW h \in Handlers, pc[h] \in Apart, expense' = expense,
         pc'[h] \notin {"total", "commit"},
         LET old == vehicle[local[h].on]  row == vehicle'[local[h].on] IN
         \/ row.row # "live" \/ local[h].on \in doubt'["total"]
         \/ /\ old.row = "live" /\ local[h].on \notin doubt["total"]
            /\ row.cost = old.cost /\ row.flooring = old.flooring /\ row.total = old.total
  PROVE  TotalStands(h)
  <1> DEFINE v == local[h].on
  <1>1. SUFFICES ASSUME vehicle'[v].row = "live", v \notin doubt'["total"], OthersApart(h)
                 PROVE  vehicle'[v].total = Invested(vehicle'[v], expense', v)
    BY DEF TotalStands
  <1>2. pc[h] \in VehicleAwaits
    BY DEF Apart, VehicleAwaits, Updates
  <1>3. v \in Live \ doubt["total"]
    BY <1>1, <1>2, AtVehicle DEF Live
  <1>4. \A g \in InFlight : local[g].on = v => pc[g] \in Apart
    BY <1>1 DEF OthersApart
  <1>5. vehicle[v].total = Invested(vehicle[v], expense, v)
    BY <1>3, <1>4 DEF InventoryInv, Totals
  <1>6. QED
    BY <1>1, <1>5 DEF Invested

\* What the records of v said of its sale they say still.
LEMMA SaleKept ==
  ASSUME InventoryInv, NEW h \in Handlers, pc[h] \in VehicleAwaits, vehicle[local[h].on].row = "live"
  PROVE  /\ local[h].on \notin doubt["date"] => DateAgrees(vehicle[local[h].on])
         /\ local[h].on \notin doubt["price"] /\ OthersKeepPrice(h) /\ ~Repricing(h) =>
              PriceAgrees(vehicle[local[h].on])
  <1>1. local[h].on \in Live /\ Sales
    BY AtVehicle DEF Live, InventoryInv
  <1>2. QED
    BY <1>1 DEF Sales, OthersKeepPrice

LEMMA WholesaleCreateStep ==
  ASSUME InventoryInv, NEW h \in Handlers, WholesaleCreate(h)
  PROVE  Stands(h)
  <1> DEFINE r == local[h]  v == r.on
  <1>0. /\ pc[h] = "createWholesale" /\ UNCHANGED <<expense, plan, undo, applied, doubt>> /\ Answer(h)
        /\ pc[h] \in VehicleAwaits
    BY DEF WholesaleCreate, VehicleAwaits, Creates
  <1>1. /\ h \in InFlight /\ HandlerTypes /\ RowTypes /\ PlanTypes /\ DoubtTypes
        /\ Carried("createWholesale", r) /\ v \in Vehicles /\ r.alone \in BOOLEAN
        /\ vehicle[v] \in VehicleRow /\ vehicle[v].row = "none"
    BY <1>0, AtVehicle DEF Creates, InventoryInv, Creations
  <1>2. Settles(h) /\ r.vin \in Vins /\ r.cost \in Nat /\ r.status = "in_stock"
    BY <1>0, <1>1 DEF Settles, DoubtTypes, Carried, Creates
  <1>3. Continues(h) /\ pc'[h] = "idle"
    BY <1>0, <1>1, <1>2, Answers
  <1>4. CASE Taken(r.vin, v)
    <2>1. UNCHANGED vehicle
      BY <1>4 DEF WholesaleCreate
    <2>2. Writes(h)
      BY <1>0, <1>3, <2>1, RowKept
    <2>3. QED
      BY <1>1, <1>3, <2>1, <2>2 DEF Stands, VinStands, TotalStands, SaleStands, Recalcs
  <1>5. CASE ~Taken(r.vin, v)
    <2> DEFINE row == Inserted(r, r.cost)
    <2>1. vehicle' = [vehicle EXCEPT ![v] = row]
      BY <1>5 DEF WholesaleCreate
    <2>2. /\ row \in VehicleRow /\ row.row = "live" /\ row.vin = r.vin /\ row.status = "in_stock"
          /\ row.soldAt = FALSE /\ row.deal = None
          /\ row.cost = r.cost /\ row.flooring = 0 /\ row.total = r.cost
      BY <1>1, <1>2 DEF Inserted, Absent, VehicleRow, Statuses
    <2> HIDE DEF row
    <2>3. Writes(h) /\ vehicle'[v] = row
      BY <1>0, <1>3, <2>1, <2>2, RowWritten
    <2>4. VinStands(h)
      BY <1>5, <2>2, <2>3 DEF VinStands, Taken
    <2>5. \A e \in Expenses : expense[e].on # v
      BY <1>1, InventoryAssumption DEF InventoryInv, Creations
    <2>6. row.total = Invested(row, expense, v)
      BY <1>2, <2>2, <2>5, NothingSpent DEF Invested
    <2>7. TotalStands(h)
      BY <1>0, <1>3, <2>3, <2>6 DEF TotalStands
    <2>8. DateAgrees(row) /\ PriceAgrees(row)
      BY <2>2 DEF DateAgrees, PriceAgrees, ExitStatuses
    <2>9. SaleStands(h)
      BY <1>3, <2>3, <2>8 DEF SaleStands, Recalcs
    <2>10. QED
      BY <2>3, <2>4, <2>7, <2>9 DEF Stands
  <1>6. QED
    BY <1>4, <1>5

LEMMA PatchTypes ==
  ASSUME NEW patch \in Patches
  PROVE  /\ patch.vin \in Vins \cup {None} /\ patch.price \in Prices \cup {None}
         /\ patch.cost \in Costs \cup {None} /\ patch.flooring \in Costs \cup {None}
  <1>1. \/ \E c \in Costs, p \in Prices \cup {None}, rep \in {None, "unknown"} :
             patch = Patch(None, c, None, p, rep)
        \/ \E vin \in Vins : patch = Patch(vin, None, None, None, None)
        \/ \E c \in Costs : patch = Patch(None, None, c, None, None)
    BY DEF Patches
  <1>2. QED
    BY <1>1 DEF Patch

LEMMA UpdateRowStep ==
  ASSUME InventoryInv, NEW h \in Handlers, UpdateRow(h)
  PROVE  Stands(h)
  <1> DEFINE r == local[h]  v == r.on  patch == r.patch  old == vehicle[v]
  <1>0. /\ pc[h] = "update" /\ UNCHANGED <<expense, plan, undo, applied, doubt>>
        /\ pc[h] \in VehicleAwaits
    BY DEF UpdateRow, VehicleAwaits, Updates
  <1>1. /\ h \in InFlight /\ HandlerTypes /\ RowTypes /\ PlanTypes /\ DoubtTypes
        /\ Carried("update", r) /\ v \in Vehicles /\ r.alone \in BOOLEAN
        /\ old \in VehicleRow /\ old.row # "none"
    BY <1>0, AtVehicle DEF Creates
  <1>2. Settles(h) /\ patch \in Patches /\ applied \in Nat
    BY <1>0, <1>1 DEF Settles, DoubtTypes, Carried, Updates, PlanTypes
  <1>3. CASE old.row = "live" /\ patch.vin # None /\ Taken(patch.vin, v)
    <2>1. Answer(h) /\ UNCHANGED vehicle
      BY <1>3 DEF UpdateRow
    <2>2. Continues(h) /\ pc'[h] = "idle"
      BY <1>0, <1>1, <1>2, <2>1, Answers
    <2>3. Writes(h) /\ VinStands(h)
      BY <1>0, <2>1, <2>2, RowKept
    <2>4. TotalStands(h)
      BY <1>0, <1>3, <2>1, <2>2, TotalKept DEF Apart
    <2>5. SaleStands(h)
      BY <1>0, <1>3, <2>1, <2>2, SaleKept DEF SaleStands, Recalcs, Repricing
    <2>6. QED
      BY <2>3, <2>4, <2>5 DEF Stands
  <1>4. CASE ~(old.row = "live" /\ patch.vin # None /\ Taken(patch.vin, v))
    <2> DEFINE row == [old EXCEPT !.vin = Patched(patch.vin, @), !.cost = Patched(patch.cost, @),
                                  !.flooring = Patched(patch.flooring, @),
                                  !.price = Patched(patch.price, @)]
    <2>1. Goto(h, "deal") /\ vehicle' = [vehicle EXCEPT ![v] = row]
      BY <1>4 DEF UpdateRow
    <2>2. Carried("deal", r)
      BY <1>1 DEF Carried, Fields, Creates, Updates, Recalcs, EditAwaits,
         ExpenseAwaits, Restores, VehicleAwaits, FloorAwaits
    <2>3. Continues(h) /\ pc'[h] = "deal" /\ local'[h] = r
      BY <1>0, <1>1, <1>2, <2>1, <2>2, GoesOn
    <2>4. /\ Patched(patch.vin, old.vin) \in Vins \cup {None}
          /\ Patched(patch.cost, old.cost) \in Nat /\ Patched(patch.flooring, old.flooring) \in Nat
          /\ Patched(patch.price, old.price) \in Prices \cup {None}
      BY <1>1, <1>2, PatchTypes, InventoryAssumption DEF Patched, VehicleRow
    <2>5. /\ row \in VehicleRow /\ row.row = old.row /\ row.vin = Patched(patch.vin, old.vin)
          /\ row.status = old.status /\ row.soldAt = old.soldAt
          /\ row.price = Patched(patch.price, old.price)
          /\ row.deal = old.deal /\ row.jacket = old.jacket
      BY <1>1, <2>4 DEF VehicleRow
    <2> HIDE DEF row
    <2>6. Writes(h) /\ vehicle'[v] = row
      BY <1>0, <1>1, <2>1, <2>3, <2>5, RowWritten
    <2>7. VinStands(h)
      <3>1. CASE patch.vin = None
        BY <1>0, <2>5, <2>6, <3>1, VinKept DEF Patched
      <3>2. CASE patch.vin # None
        BY <1>4, <2>5, <2>6, <3>2 DEF VinStands, Taken, Patched
      <3>3. QED
        BY <3>1, <3>2
    <2>8. TotalStands(h)
      BY <2>3 DEF TotalStands, Apart, EditAwaits, ExpenseAwaits
    <2>9. SaleStands(h)
      <3>1. row.row = "live" /\ v \notin doubt'["date"] => DateAgrees(row)
        BY <1>0, <2>5, SaleKept DEF DateAgrees
      <3>2. patch.price # None => row.price = patch.price
        BY <2>5 DEF Patched
      <3>3. row.row = "live" /\ v \notin doubt'["price"] /\ OthersKeepPrice(h) /\ patch.price = None
              => PriceAgrees(row)
        BY <1>0, <2>5, SaleKept DEF PriceAgrees, Patched, Repricing
      <3>4. QED
        BY <2>3, <2>6, <3>1, <3>2, <3>3 DEF SaleStands, Recalcs
    <2>10. QED
      BY <2>6, <2>7, <2>8, <2>9 DEF Stands
  <1>5. QED
    BY <1>3, <1>4

\* A request that carries the price from the vehicle to its deal and jacket.
LEMMA RepricingKnown ==
  ASSUME InventoryInv, NEW h \in InFlight, Repricing(h),
         local[h].alone \/ local[h].on \notin doubt["price"]
  PROVE  /\ vehicle[local[h].on].price = local[h].patch.price
         /\ pc[h] = "jacket" => vehicle[local[h].on].deal = local[h].patch.price
  BY DEF InventoryInv, Sales, Knows

\* What a request on its way from deal to jacket knows, and where it may go.
LEMMA AtUpdate ==
  ASSUME InventoryInv, NEW h \in Handlers, pc[h] \in {"deal", "jacket"}
  PROVE  /\ h \in InFlight /\ HandlerTypes /\ RowTypes /\ PlanTypes /\ DoubtTypes /\ applied \in Nat
         /\ local[h].on \in Vehicles /\ local[h].alone \in BOOLEAN
         /\ vehicle[local[h].on] \in VehicleRow /\ vehicle[local[h].on].row # "none"
         /\ pc[h] \in VehicleAwaits /\ local[h].patch \in Patches
         /\ local[h].settles = {"total"} \cup IF local[h].patch.price = None THEN {} ELSE {"price"}
         /\ Carried("jacket", local[h]) /\ Carried("recalc", local[h])
  <1>1. pc[h] \in VehicleAwaits /\ pc[h] \notin Creates
    BY DEF VehicleAwaits, Updates, Creates
  <1>2. Carried(pc[h], local[h])
    BY <1>1, AtVehicle
  <1>3. /\ local[h].patch \in Patches /\ Carried("jacket", local[h]) /\ Carried("recalc", local[h])
        /\ local[h].settles = {"total"} \cup IF local[h].patch.price = None THEN {} ELSE {"price"}
    BY <1>2 DEF Carried, Fields, Creates, Updates, Recalcs, EditAwaits,
       ExpenseAwaits, Restores, VehicleAwaits, FloorAwaits
  <1>4. QED
    BY <1>1, <1>3, AtVehicle DEF PlanTypes

LEMMA UpdateDealStep ==
  ASSUME InventoryInv, NEW h \in Handlers, UpdateDeal(h)
  PROVE  Stands(h)
  <1> DEFINE r == local[h]  v == r.on  patch == r.patch  old == vehicle[v]
  <1>0. pc[h] = "deal" /\ UNCHANGED <<expense, plan, undo, applied>>
    BY DEF UpdateDeal
  <1>1. /\ h \in InFlight /\ HandlerTypes /\ RowTypes /\ PlanTypes /\ DoubtTypes /\ applied \in Nat
        /\ v \in Vehicles /\ r.alone \in BOOLEAN /\ old \in VehicleRow /\ old.row # "none"
        /\ pc[h] \in VehicleAwaits /\ patch \in Patches
        /\ r.settles = {"total"} \cup IF patch.price = None THEN {} ELSE {"price"}
        /\ Carried("jacket", r) /\ Carried("recalc", r)
    BY <1>0, AtUpdate
  <1>2. CASE old.deal = None /\ Goto(h, "recalc") /\ UNCHANGED <<vehicle, doubt>>
    <2>1. Continues(h) /\ pc'[h] = "recalc" /\ local'[h] = r
      BY <1>0, <1>1, <1>2, GoesOn
    <2>2. Writes(h) /\ VinStands(h)
      BY <1>0, <1>1, <1>2, <2>1, RowKept
    <2>3. TotalStands(h)
      BY <2>1 DEF TotalStands, Apart, EditAwaits, ExpenseAwaits
    <2>4. SaleStands(h)
      BY <1>1, <1>2, <2>1, SaleKept DEF SaleStands, PriceAgrees
    <2>5. QED
      BY <2>2, <2>3, <2>4 DEF Stands
  <1>3. CASE Answer(h) /\ Leaves(h, {}, {"total", "price"}) /\ UNCHANGED vehicle
    <2>1. pc'[h] = "idle"
      BY <1>0, <1>1, <1>3, AnswerStep
    <2>2. /\ Settles(h) /\ v \in doubt'["total"] /\ v \in doubt'["price"]
          /\ doubt["date"] \subseteq doubt'["date"]
      BY <1>1, <1>3, <2>1, LeavesStep DEF Facts
    <2>3. Continues(h)
      BY <1>0, <1>1, <1>3, <2>2, Answers
    <2>4. Writes(h) /\ VinStands(h)
      BY <1>0, <1>1, <1>3, <2>1, <2>3, RowKept
    <2>5. TotalStands(h)
      BY <2>1, <2>2 DEF TotalStands
    <2>6. SaleStands(h)
      BY <1>1, <1>3, <2>1, <2>2, SaleKept DEF SaleStands, Recalcs
    <2>7. QED
      BY <2>4, <2>5, <2>6 DEF Stands
  <1>4. CASE /\ vehicle' = [vehicle EXCEPT ![v].deal = Patched(patch.price, @)]
             /\ Goto(h, "jacket") /\ UNCHANGED doubt
    <2> DEFINE row == [old EXCEPT !.deal = Patched(patch.price, @)]
    <2>1. Continues(h) /\ pc'[h] = "jacket" /\ local'[h] = r
      BY <1>0, <1>1, <1>4, GoesOn
    <2>2. Patched(patch.price, old.deal) \in Prices \cup {None} /\ vehicle' = [vehicle EXCEPT ![v] = row]
      BY <1>1, <1>4, PatchTypes DEF Patched, VehicleRow
    <2>3. /\ row \in VehicleRow /\ row.row = old.row /\ row.vin = old.vin
          /\ row.status = old.status /\ row.soldAt = old.soldAt /\ row.price = old.price
          /\ row.deal = Patched(patch.price, old.deal) /\ row.jacket = old.jacket
      BY <1>1, <2>2 DEF VehicleRow
    <2> HIDE DEF row
    <2>4. Writes(h) /\ vehicle'[v] = row
      BY <1>0, <1>1, <2>1, <2>2, <2>3, RowWritten
    <2>5. VinStands(h)
      BY <1>1, <2>3, <2>4, VinKept
    <2>6. TotalStands(h)
      BY <2>1 DEF TotalStands, Apart, EditAwaits, ExpenseAwaits
    <2>7. SaleStands(h)
      <3>1. row.row = "live" /\ v \notin doubt'["date"] => DateAgrees(row)
        BY <1>1, <1>4, <2>3, SaleKept DEF DateAgrees
      <3>2. patch.price # None /\ (r.alone \/ v \notin doubt'["price"]) =>
              row.price = patch.price /\ row.deal = patch.price
        BY <1>0, <1>1, <1>4, <2>3, RepricingKnown DEF Repricing, Patched
      <3>3. row.row = "live" /\ v \notin doubt'["price"] /\ OthersKeepPrice(h) /\ patch.price = None
              => PriceAgrees(row)
        BY <1>1, <1>4, <2>3, SaleKept DEF PriceAgrees, Patched, Repricing
      <3>4. QED
        BY <2>1, <2>4, <3>1, <3>2, <3>3 DEF SaleStands, Recalcs
    <2>8. QED
      BY <2>4, <2>5, <2>6, <2>7 DEF Stands
  <1>5. QED
    BY <1>2, <1>3, <1>4 DEF UpdateDeal

LEMMA UpdateJacketStep ==
  ASSUME InventoryInv, NEW h \in Handlers, UpdateJacket(h)
  PROVE  Stands(h)
  <1> DEFINE r == local[h]  v == r.on  patch == r.patch  old == vehicle[v]
             jacket == IF old.jacket = None THEN None ELSE Patched(patch.price, old.jacket)
             row == [old EXCEPT !.jacket = jacket]
  <1>0. /\ pc[h] = "jacket" /\ UNCHANGED <<expense, plan, undo, applied, doubt>> /\ Goto(h, "recalc")
        /\ vehicle' = [vehicle EXCEPT ![v] = row]
    BY DEF UpdateJacket
  <1>1. /\ h \in InFlight /\ HandlerTypes /\ RowTypes /\ PlanTypes /\ DoubtTypes /\ applied \in Nat
        /\ v \in Vehicles /\ r.alone \in BOOLEAN /\ old \in VehicleRow /\ old.row # "none"
        /\ pc[h] \in VehicleAwaits /\ patch \in Patches
        /\ r.settles = {"total"} \cup IF patch.price = None THEN {} ELSE {"price"}
        /\ Carried("recalc", r)
    BY <1>0, AtUpdate
  <1>2. Continues(h) /\ pc'[h] = "recalc" /\ local'[h] = r
    BY <1>0, <1>1, GoesOn
  <1>3. /\ jacket \in Prices \cup {None}
        /\ jacket \in {None, Patched(patch.price, old.jacket)}
        /\ patch.price = None => jacket = old.jacket
    BY <1>1, PatchTypes DEF Patched, VehicleRow
  <1> HIDE DEF jacket
  <1>4. /\ row \in VehicleRow /\ row.row = old.row /\ row.vin = old.vin
        /\ row.status = old.status /\ row.soldAt = old.soldAt /\ row.price = old.price
        /\ row.deal = old.deal /\ row.jacket = jacket
    BY <1>1, <1>3 DEF VehicleRow
  <1> HIDE DEF row
  <1>5. Writes(h) /\ vehicle'[v] = row
    BY <1>0, <1>1, <1>2, <1>4, RowWritten
  <1>6. VinStands(h)
    BY <1>1, <1>4, <1>5, VinKept
  <1>7. TotalStands(h)
    BY <1>2 DEF TotalStands, Apart, EditAwaits, ExpenseAwaits
  <1>8. SaleStands(h)
    <2>1. row.row = "live" /\ v \notin doubt'["date"] => DateAgrees(row)
      BY <1>0, <1>1, <1>4, SaleKept DEF DateAgrees
    <2>2. patch.price # None /\ (r.alone \/ v \notin doubt["price"]) => PriceAgrees(row)
      BY <1>0, <1>1, <1>3, <1>4, RepricingKnown DEF Repricing, Patched, PriceAgrees
    <2>3. row.row = "live" /\ v \notin doubt["price"] /\ OthersKeepPrice(h) /\ patch.price = None
            => PriceAgrees(row)
      BY <1>1, <1>3, <1>4, SaleKept DEF PriceAgrees, Repricing
    <2>4. "price" \in r.settles => patch.price # None
      BY <1>1
    <2>5. QED
      BY <1>0, <1>2, <1>5, <2>1, <2>2, <2>3, <2>4 DEF SaleStands
  <1>9. QED
    BY <1>5, <1>6, <1>7, <1>8 DEF Stands

\* What is spent on a vehicle is a number: there are finitely many expenses.
LEMMA SpentType ==
  ASSUME NEW table \in [Expenses -> ExpenseRow], NEW v
  PROVE  Spent(table, v) \in Nat
  <1> DEFINE Paid(e) == {e} \X (1..table[e].cost)
             es == Counted(table, v)
             paid == [e \in es |-> Paid(e)]
             all == {Paid(e) : e \in es}
  <1>1. es \in SUBSET Expenses /\ IsFiniteSet(es)
    BY InventoryAssumption, FS_Subset DEF Counted
  <1>2. ASSUME NEW e \in es
        PROVE  IsFiniteSet(Paid(e))
    <2>1. table[e].cost \in Int
      BY <1>1 DEF ExpenseRow
    <2>2. IsFiniteSet(1..table[e].cost)
      BY <2>1, FS_Interval
    <2>3. IsFiniteSet({e})
      BY FS_Singleton
    <2>4. QED
      BY <2>2, <2>3, FS_Product
  <1> HIDE DEF Paid, es
  <1>3. paid \in Surjection(es, all)
    BY DEF Surjection
  <1>4. IsFiniteSet(all)
    BY <1>1, <1>3, FS_Surjection
  <1>5. IsFiniteSet(UNION all)
    BY <1>2, <1>4, FS_UNION
  <1>6. Spent(table, v) = Cardinality(UNION all)
    BY DEF Spent, es, Paid
  <1>7. QED
    BY <1>5, <1>6, FS_CardinalityType

LEMMA RecalcReadStep ==
  ASSUME InventoryInv, NEW h \in Handlers, RecalcRead(h)
  PROVE  Stands(h)
  <1> DEFINE r == local[h]  v == r.on  old == vehicle[v]
  <1>0. /\ pc[h] = "recalc" /\ UNCHANGED <<vehicle, expense, plan, undo, applied, doubt>>
        /\ pc[h] \in VehicleAwaits /\ pc[h] \notin Creates
    BY DEF RecalcRead, inventory, VehicleAwaits, Recalcs, Creates
  <1>1. /\ h \in InFlight /\ HandlerTypes /\ RowTypes /\ PlanTypes /\ DoubtTypes
        /\ Carried("recalc", r) /\ v \in Vehicles /\ r.alone \in BOOLEAN
        /\ old \in VehicleRow /\ old.row # "none"
    BY <1>0, AtVehicle
  <1>2. Settles(h)
    BY <1>0, <1>1 DEF Settles, DoubtTypes
  <1>3. CASE old.row # "live"
    <2>1. Answer(h)
      BY <1>3 DEF RecalcRead
    <2>2. Continues(h) /\ pc'[h] = "idle"
      BY <1>0, <1>1, <1>2, <2>1, Answers
    <2>3. Writes(h) /\ VinStands(h)
      BY <1>0, <2>2, RowKept
    <2>4. QED
      BY <1>0, <1>3, <2>2, <2>3 DEF Stands, TotalStands, SaleStands, Recalcs
  <1>4. CASE old.row = "live"
    <2> DEFINE total == Invested(old, expense, v)
               more == [total |-> total]
    <2>1. Carry(h, "total", more)
      BY <1>4 DEF RecalcRead
    <2>2. total \in Nat
      BY <1>1, SpentType DEF Invested, VehicleRow, RowTypes
    <2> HIDE DEF total
    <2>3. Carried("total", With(more, r)) /\ With(more, r).settles = r.settles /\ With(more, r).total = total
      <3>1. PICK s : s = With(more, r)
        OBVIOUS
      <3>2. /\ {"on", "alone", "settles"} \subseteq DOMAIN r
            /\ "total" \in r.settles /\ r.settles \subseteq {"total", "price"}
        BY <1>1 DEF Carried, Fields, Recalcs
      <3>3. /\ {"on", "alone", "settles", "total"} \subseteq DOMAIN s
            /\ s.on = r.on /\ s.alone = r.alone /\ s.settles = r.settles /\ s.total = total
        BY <3>1, <3>2 DEF With
      <3>4. Carried("total", s)
        BY <1>1, <2>2, <3>2, <3>3 DEF Carried, Fields, Creates, Updates, Recalcs, EditAwaits,
           ExpenseAwaits, Restores, VehicleAwaits, FloorAwaits
      <3>5. QED
        BY <3>1, <3>3, <3>4
    <2>4. Continues(h) /\ pc'[h] = "total" /\ local'[h] = With(more, r)
      BY <1>0, <1>1, <2>1, <2>3, CarriesOn
    <2>5. Writes(h) /\ VinStands(h)
      BY <1>0, <1>1, <2>4, RowKept
    <2>6. TotalStands(h)
      BY <1>0, <2>3, <2>4 DEF TotalStands, Apart, EditAwaits, ExpenseAwaits, total
    <2>7. "price" \in r.settles /\ r.alone => PriceAgrees(old)
      BY <1>0, <1>1 DEF InventoryInv, Sales, Recalcs
    <2>8. SaleStands(h)
      BY <1>0, <1>4, <2>3, <2>4, <2>7, SaleKept DEF SaleStands, Repricing
    <2>9. QED
      BY <2>5, <2>6, <2>8 DEF Stands
  <1>5. QED
    BY <1>3, <1>4

LEMMA RecalcWriteStep ==
  ASSUME InventoryInv, NEW h \in Handlers, RecalcWrite(h)
  PROVE  Stands(h)
  <1> DEFINE r == local[h]  v == r.on  old == vehicle[v]  row == [old EXCEPT !.total = r.total]
  <1>0. /\ pc[h] = "total" /\ UNCHANGED <<expense, plan, undo, applied>>
        /\ Answer(h) /\ Leaves(h, r.settles, {}) /\ vehicle' = [vehicle EXCEPT ![v] = row]
        /\ pc[h] \in VehicleAwaits /\ pc[h] \notin Creates
    BY DEF RecalcWrite, VehicleAwaits, Recalcs, Creates
  <1>1. /\ h \in InFlight /\ HandlerTypes /\ RowTypes /\ PlanTypes /\ DoubtTypes
        /\ Carried("total", r) /\ v \in Vehicles /\ r.alone \in BOOLEAN
        /\ old \in VehicleRow /\ old.row # "none"
    BY <1>0, AtVehicle
  <1>2. r.total \in Nat /\ r.settles \subseteq {"total", "price"}
    BY <1>1 DEF Carried, Recalcs
  <1>3. pc'[h] = "idle"
    BY <1>0, <1>1, AnswerStep
  <1>4. Settles(h) /\ doubt["date"] \subseteq doubt'["date"]
    BY <1>0, <1>1, <1>2, <1>3, LeavesStep DEF Facts
  <1>5. Continues(h)
    BY <1>0, <1>1, <1>4, Answers
  <1>6. /\ row \in VehicleRow /\ row.row = old.row /\ row.vin = old.vin
        /\ row.cost = old.cost /\ row.flooring = old.flooring /\ row.total = r.total
        /\ row.status = old.status /\ row.soldAt = old.soldAt /\ row.price = old.price
        /\ row.deal = old.deal /\ row.jacket = old.jacket
    BY <1>1, <1>2 DEF VehicleRow
  <1> HIDE DEF row
  <1>7. Writes(h) /\ vehicle'[v] = row
    BY <1>0, <1>1, <1>3, <1>5, <1>6, RowWritten
  <1>8. VinStands(h)
    BY <1>0, <1>6, <1>7, VinKept
  <1>9. TotalStands(h)
    <2>1. r.alone => r.total = Invested(row, expense, v)
      BY <1>0, <1>1, <1>6 DEF InventoryInv, Totals, Invested
    <2>2. ~r.alone => v \in doubt["total"]
      BY <1>1 DEF InventoryInv, Overlaps
    <2>3. ~r.alone => v \in doubt'["total"]
      BY <1>4, <2>2 DEF Settles, Facts
    <2>4. QED
      BY <1>0, <1>3, <1>6, <1>7, <2>1, <2>3 DEF TotalStands
  <1>10. SaleStands(h)
    <2>1. row.row = "live" /\ v \notin doubt'["date"] => DateAgrees(row)
      BY <1>0, <1>4, <1>6, SaleKept DEF DateAgrees
    <2>2. row.row = "live" /\ v \notin doubt["price"] /\ OthersKeepPrice(h) => PriceAgrees(row)
      BY <1>0, <1>6, SaleKept DEF PriceAgrees, Repricing
    <2>3. "price" \in r.settles /\ r.alone => PriceAgrees(row)
      BY <1>0, <1>1, <1>6 DEF InventoryInv, Sales, Recalcs, PriceAgrees
    <2>4. v \in doubt["price"] /\ v \notin doubt'["price"] => "price" \in r.settles /\ r.alone
      BY <1>0, <1>1, <1>3, <1>4, LeavesStep DEF Settles, Facts
    <2>5. QED
      BY <1>3, <1>7, <2>1, <2>2, <2>3, <2>4 DEF SaleStands, Recalcs
  <1>11. QED
    BY <1>7, <1>8, <1>9, <1>10 DEF Stands

\* What a request that writes the row once knows of it.
LEMMA AtEdit ==
  ASSUME InventoryInv, NEW h \in Handlers, pc[h] \in EditAwaits
  PROVE  /\ h \in InFlight /\ HandlerTypes /\ RowTypes /\ PlanTypes /\ DoubtTypes
         /\ local[h].on \in Vehicles /\ local[h].alone \in BOOLEAN
         /\ vehicle[local[h].on] \in VehicleRow /\ vehicle[local[h].on].row # "none"
         /\ pc[h] \in VehicleAwaits /\ pc[h] \in Apart /\ ~Repricing(h)
         /\ local[h].status \in Statuses \cup {None} /\ local[h].cost \in Costs \cup {None}
         /\ local[h].price \in Prices \cup {None} /\ local[h].old \in Prices \cup {None}
         /\ pc[h] \in {"status", "wholesaleStatus"} =>
              /\ local[h].status \in Statuses /\ local[h].soldAt \in BOOLEAN
              /\ local[h].alone \/ local[h].on \notin doubt["date"] =>
                   local[h].soldAt = vehicle[local[h].on].soldAt
              /\ local[h].alone \/ local[h].on \notin doubt["price"] =>
                   local[h].old = vehicle[local[h].on].price
         /\ pc[h] = "recordSale" => local[h].price \in Prices
  <1>1. pc[h] \in VehicleAwaits /\ pc[h] \notin Creates /\ pc[h] \in Apart /\ ~Repricing(h)
    BY DEF VehicleAwaits, EditAwaits, Creates, Apart, Repricing
  <1>2. h \in InFlight /\ Carried(pc[h], local[h])
    BY <1>1, AtVehicle
  <1>3. /\ local[h].status \in Statuses \cup {None} /\ local[h].cost \in Costs \cup {None}
        /\ local[h].price \in Prices \cup {None} /\ local[h].old \in Prices \cup {None}
        /\ pc[h] \in {"status", "wholesaleStatus"} =>
             local[h].status \in Statuses /\ local[h].soldAt \in BOOLEAN
        /\ pc[h] = "recordSale" => local[h].price \in Prices
    BY <1>2 DEF Carried
  <1>4. pc[h] \in {"status", "wholesaleStatus"} =>
          /\ local[h].alone \/ local[h].on \notin doubt["date"] =>
               local[h].soldAt = vehicle[local[h].on].soldAt
          /\ local[h].alone \/ local[h].on \notin doubt["price"] =>
               local[h].old = vehicle[local[h].on].price
    BY <1>2 DEF InventoryInv, Sales, Knows
  <1>5. QED
    BY <1>1, <1>2, <1>3, <1>4, AtVehicle

\* A row written once, by a request that keeps the VIN and answers: what is left is
\* whether its total and its terms of sale stand.
LEMMA EditWritten ==
  ASSUME InventoryInv, NEW h \in Handlers, pc[h] \in EditAwaits,
         NEW row \in VehicleRow, vehicle' = [vehicle EXCEPT ![local[h].on] = row],
         row.row # "none", row.row = "live" => vehicle[local[h].on].row = "live",
         row.vin = vehicle[local[h].on].vin,
         row.flooring = vehicle[local[h].on].flooring, row.total = vehicle[local[h].on].total,
         row.cost = vehicle[local[h].on].cost \/ local[h].on \in doubt'["total"],
         doubt["total"] \subseteq doubt'["total"], Settles(h),
         Answer(h), UNCHANGED <<expense, plan, undo, applied>>,
         row.row = "live" =>
           /\ local[h].on \notin doubt'["date"] => DateAgrees(row)
           /\ local[h].on \notin doubt'["price"] /\ OthersKeepPrice(h) => PriceAgrees(row)
  PROVE  Stands(h)
  <1>0. /\ h \in InFlight /\ HandlerTypes /\ local[h].on \in Vehicles /\ pc[h] \in VehicleAwaits
        /\ pc[h] \in Apart
    BY AtEdit
  <1>1. Continues(h) /\ pc'[h] = "idle"
    BY <1>0, Answers
  <1>2. Writes(h) /\ vehicle'[local[h].on] = row
    BY <1>0, <1>1, RowWritten
  <1>3. VinStands(h)
    BY <1>0, <1>2, VinKept
  <1>4. TotalStands(h)
    BY <1>0, <1>1, <1>2, TotalKept
  <1>5. SaleStands(h)
    BY <1>1, <1>2 DEF SaleStands, Recalcs
  <1>6. QED
    BY <1>2, <1>3, <1>4, <1>5 DEF Stands

LEMMA DeleteVehicleStep ==
  ASSUME InventoryInv, NEW h \in Handlers, DeleteVehicle(h)
  PROVE  Stands(h)
  <1> DEFINE v == local[h].on  old == vehicle[v]  row == [old EXCEPT !.row = "deleted"]
  <1>0. /\ pc[h] \in EditAwaits /\ UNCHANGED <<expense, plan, undo, applied, doubt>> /\ Answer(h)
        /\ vehicle' = [vehicle EXCEPT ![v] = row]
    BY DEF DeleteVehicle, EditAwaits
  <1>1. old \in VehicleRow /\ v \in Vehicles /\ DoubtTypes
    BY <1>0, AtEdit
  <1>2. /\ row \in VehicleRow /\ row.row = "deleted" /\ row.vin = old.vin
        /\ row.cost = old.cost /\ row.flooring = old.flooring /\ row.total = old.total
    BY <1>1 DEF VehicleRow
  <1>3. Settles(h)
    BY <1>0, <1>1 DEF Settles, DoubtTypes
  <1> HIDE DEF row
  <1>4. QED
    BY <1>0, <1>2, <1>3, EditWritten

LEMMA ChangeStatusStep ==
  ASSUME InventoryInv, NEW h \in Handlers, ChangeStatus(h)
  PROVE  Stands(h)
  <1> DEFINE r == local[h]  v == r.on  old == vehicle[v]  out == r.status \in ExitStatuses
             price == IF out THEN r.old ELSE None
             wrong == IF out THEN {} ELSE {"price"}
  <1>0. /\ pc[h] = "status" /\ UNCHANGED <<expense, plan, undo, applied>> /\ Answer(h)
        /\ Leaves(h, {"date"}, wrong)
    BY DEF ChangeStatus
  <1>1. /\ pc[h] \in EditAwaits /\ h \in InFlight /\ HandlerTypes /\ DoubtTypes /\ pc[h] \in VehicleAwaits
        /\ old \in VehicleRow /\ v \in Vehicles /\ old.row # "none" /\ ~Repricing(h)
        /\ r.old \in Prices \cup {None} /\ r.status \in Statuses
        /\ r.alone \/ v \notin doubt["price"] => r.old = old.price
    BY <1>0, AtEdit DEF EditAwaits
  <1>2. PICK sold \in BOOLEAN : sold <=> out
    OBVIOUS
  <1> DEFINE row == [old EXCEPT !.status = r.status, !.soldAt = sold, !.price = price]
  <1>3. vehicle' = [vehicle EXCEPT ![v] = row]
    <2>1. sold = out
      BY <1>2
    <2>2. vehicle' = [vehicle EXCEPT ![v].status = r.status, ![v].soldAt = out, ![v].price = price]
      BY DEF ChangeStatus
    <2>3. QED
      BY <2>1, <2>2
  <1>4. price \in Prices \cup {None} /\ (out => price = r.old)
    BY <1>1
  <1> HIDE DEF price
  <1>5. /\ row \in VehicleRow /\ row.row = old.row /\ row.vin = old.vin
        /\ row.cost = old.cost /\ row.flooring = old.flooring /\ row.total = old.total
        /\ row.status = r.status /\ row.soldAt = sold /\ row.price = price
        /\ row.deal = old.deal /\ row.jacket = old.jacket
    BY <1>1, <1>2, <1>4 DEF VehicleRow
  <1> HIDE DEF row
  <1>6. pc'[h] = "idle"
    BY <1>0, <1>1, AnswerStep
  <1>7. /\ Settles(h) /\ doubt["total"] \subseteq doubt'["total"]
        /\ doubt["price"] \subseteq doubt'["price"] /\ (~out => v \in doubt'["price"])
    BY <1>0, <1>1, <1>6, LeavesStep DEF Facts
  <1>8. DateAgrees(row)
    BY <1>2, <1>5 DEF DateAgrees
  <1>9. row.row = "live" /\ v \notin doubt'["price"] /\ OthersKeepPrice(h) => PriceAgrees(row)
    BY <1>1, <1>4, <1>5, <1>7, SaleKept DEF PriceAgrees
  <1>10. QED
    BY <1>0, <1>1, <1>3, <1>5, <1>7, <1>8, <1>9, EditWritten

LEMMA WholesaleEditStep ==
  ASSUME InventoryInv, NEW h \in Handlers, WholesaleEdit(h)
  PROVE  Stands(h)
  <1> DEFINE r == local[h]  v == r.on  old == vehicle[v]
             wrong == (IF r.status = None THEN {} ELSE {"date"})
                        \cup (IF r.cost = None THEN {} ELSE {"total"})
             row == [old EXCEPT !.status = Patched(r.status, @), !.cost = Patched(r.cost, @)]
  <1>0. /\ pc[h] = "edit" /\ UNCHANGED <<expense, plan, undo, applied>> /\ Answer(h)
        /\ Leaves(h, {}, wrong) /\ vehicle' = [vehicle EXCEPT ![v] = row]
    BY DEF WholesaleEdit
  <1>1. /\ pc[h] \in EditAwaits /\ h \in InFlight /\ HandlerTypes /\ DoubtTypes /\ pc[h] \in VehicleAwaits
        /\ old \in VehicleRow /\ v \in Vehicles /\ old.row # "none" /\ ~Repricing(h)
        /\ r.status \in Statuses \cup {None} /\ r.cost \in Costs \cup {None}
    BY <1>0, AtEdit DEF EditAwaits
  <1>2. Patched(r.status, old.status) \in Statuses /\ Patched(r.cost, old.cost) \in Nat
    BY <1>1, InventoryAssumption DEF Patched, VehicleRow
  <1>3. /\ row \in VehicleRow /\ row.row = old.row /\ row.vin = old.vin
        /\ row.cost = Patched(r.cost, old.cost) /\ row.flooring = old.flooring
        /\ row.total = old.total /\ row.status = Patched(r.status, old.status)
        /\ row.soldAt = old.soldAt /\ row.price = old.price
        /\ row.deal = old.deal /\ row.jacket = old.jacket
    BY <1>1, <1>2 DEF VehicleRow
  <1> HIDE DEF row
  <1>4. pc'[h] = "idle"
    BY <1>0, <1>1, AnswerStep
  <1>5. /\ Settles(h) /\ \A f \in Facts : doubt[f] \subseteq doubt'[f]
        /\ r.status # None => v \in doubt'["date"]
        /\ r.cost # None => v \in doubt'["total"]
    BY <1>0, <1>1, <1>4, LeavesStep DEF Facts
  <1>6. row.row = "live" /\ v \notin doubt'["date"] => DateAgrees(row)
    BY <1>1, <1>3, <1>5, SaleKept DEF DateAgrees, Facts, Patched
  <1>7. row.row = "live" /\ v \notin doubt'["price"] /\ OthersKeepPrice(h) => PriceAgrees(row)
    BY <1>1, <1>3, <1>5, SaleKept DEF PriceAgrees, Facts
  <1>8. row.cost = old.cost \/ v \in doubt'["total"]
    BY <1>3, <1>5 DEF Patched
  <1>9. QED
    BY <1>0, <1>1, <1>3, <1>5, <1>6, <1>7, <1>8, EditWritten DEF Facts

LEMMA RecordSaleStep ==
  ASSUME InventoryInv, NEW h \in Handlers, RecordSale(h)
  PROVE  Stands(h)
  <1> DEFINE r == local[h]  v == r.on  old == vehicle[v]
             row == [old EXCEPT !.status = "sold", !.soldAt = TRUE, !.price = r.price]
  <1>0. /\ pc[h] = "recordSale" /\ UNCHANGED <<expense, plan, undo, applied>> /\ Answer(h)
        /\ Leaves(h, {"date"}, {"price"}) /\ vehicle' = [vehicle EXCEPT ![v] = row]
    BY DEF RecordSale
  <1>1. /\ pc[h] \in EditAwaits /\ h \in InFlight /\ HandlerTypes /\ DoubtTypes /\ pc[h] \in VehicleAwaits
        /\ old \in VehicleRow /\ v \in Vehicles /\ old.row # "none" /\ r.price \in Prices
    BY <1>0, AtEdit DEF EditAwaits
  <1>2. /\ row \in VehicleRow /\ row.row = old.row /\ row.vin = old.vin
        /\ row.cost = old.cost /\ row.flooring = old.flooring /\ row.total = old.total
        /\ row.status = "sold" /\ row.soldAt
    BY <1>1 DEF VehicleRow, Statuses
  <1> HIDE DEF row
  <1>3. pc'[h] = "idle"
    BY <1>0, <1>1, AnswerStep
  <1>4. Settles(h) /\ doubt["total"] \subseteq doubt'["total"] /\ v \in doubt'["price"]
    BY <1>0, <1>1, <1>3, LeavesStep DEF Facts
  <1>5. DateAgrees(row)
    BY <1>2 DEF DateAgrees, ExitStatuses
  <1>6. QED
    BY <1>0, <1>1, <1>2, <1>4, <1>5, EditWritten

LEMMA WholesaleStatusStep ==
  ASSUME InventoryInv, NEW h \in Handlers, WholesaleStatus(h)
  PROVE  Stands(h)
  <1> DEFINE r == local[h]  v == r.on  old == vehicle[v]
  <1>0. /\ pc[h] = "wholesaleStatus" /\ UNCHANGED <<expense, plan, undo, applied>> /\ Answer(h)
    BY DEF WholesaleStatus
  <1>1. /\ pc[h] \in EditAwaits /\ h \in InFlight /\ HandlerTypes /\ DoubtTypes /\ pc[h] \in VehicleAwaits
        /\ old \in VehicleRow /\ v \in Vehicles /\ old.row # "none" /\ ~Repricing(h)
        /\ r.old \in Prices \cup {None} /\ r.status \in Statuses /\ r.soldAt \in BOOLEAN
        /\ r.alone \/ v \notin doubt["date"] => r.soldAt = old.soldAt
        /\ r.alone \in BOOLEAN
    BY <1>0, AtEdit DEF EditAwaits
  <1>2. pc'[h] = "idle"
    BY <1>0, <1>1, AnswerStep
  <1>3. CASE r.status = "sold"
    <2> DEFINE wrong == IF r.old = None THEN {"price"} ELSE {}
    <2>1. PICK price \in Prices :
            vehicle' = [vehicle EXCEPT ![v].status = "sold", ![v].soldAt = @ \/ ~r.soldAt,
                                       ![v].price = IF r.old = None THEN price ELSE @]
      BY <1>3 DEF WholesaleStatus
    <2>2. Leaves(h, {"date"}, wrong)
      BY <1>3 DEF WholesaleStatus
    <2>3. PICK sold \in BOOLEAN : sold <=> old.soldAt \/ ~r.soldAt
      OBVIOUS
    <2> DEFINE now == IF r.old = None THEN price ELSE old.price
               row == [old EXCEPT !.status = "sold", !.soldAt = sold, !.price = now]
    <2>4. vehicle' = [vehicle EXCEPT ![v] = row]
      <3>1. sold = (old.soldAt \/ ~r.soldAt)
        BY <2>3
      <3>2. QED
        BY <2>1, <3>1
    <2>5. now \in Prices \cup {None} /\ (r.old # None => now = old.price)
      BY <1>1 DEF VehicleRow
    <2> HIDE DEF now
    <2>6. /\ row \in VehicleRow /\ row.row = old.row /\ row.vin = old.vin
          /\ row.cost = old.cost /\ row.flooring = old.flooring /\ row.total = old.total
          /\ row.status = "sold" /\ row.soldAt = sold /\ row.price = now
          /\ row.deal = old.deal /\ row.jacket = old.jacket
      BY <1>1, <2>3, <2>5 DEF VehicleRow, Statuses
    <2> HIDE DEF row
    <2>7. /\ Settles(h) /\ doubt["total"] \subseteq doubt'["total"]
          /\ doubt["price"] \subseteq doubt'["price"] /\ (r.old = None => v \in doubt'["price"])
      BY <1>1, <1>2, <2>2, LeavesStep DEF Facts
    <2>8. v \notin doubt'["date"] => r.alone \/ v \notin doubt["date"]
      BY <2>7 DEF Settles, Facts
    <2>9. v \notin doubt'["date"] => DateAgrees(row)
      BY <1>1, <2>3, <2>6, <2>8 DEF DateAgrees, ExitStatuses, VehicleRow
    <2>10. row.row = "live" /\ v \notin doubt'["price"] /\ OthersKeepPrice(h) => PriceAgrees(row)
      BY <1>1, <2>5, <2>6, <2>7, SaleKept DEF PriceAgrees
    <2>11. QED
      BY <1>0, <1>1, <2>4, <2>6, <2>7, <2>9, <2>10, EditWritten
  <1>4. CASE r.status = "in_stock"
    <2> DEFINE row == [old EXCEPT !.status = "in_stock", !.soldAt = FALSE, !.price = None]
    <2>1. vehicle' = [vehicle EXCEPT ![v] = row] /\ Leaves(h, {"date"}, {"price"})
      BY <1>4 DEF WholesaleStatus
    <2>2. /\ row \in VehicleRow /\ row.row = old.row /\ row.vin = old.vin
          /\ row.cost = old.cost /\ row.flooring = old.flooring /\ row.total = old.total
          /\ row.status = "in_stock" /\ ~row.soldAt
      BY <1>1 DEF VehicleRow, Statuses
    <2> HIDE DEF row
    <2>3. Settles(h) /\ doubt["total"] \subseteq doubt'["total"] /\ v \in doubt'["price"]
      BY <1>1, <1>2, <2>1, LeavesStep DEF Facts
    <2>4. DateAgrees(row)
      BY <2>2 DEF DateAgrees, ExitStatuses
    <2>5. QED
      BY <1>0, <1>1, <2>1, <2>2, <2>3, <2>4, EditWritten
  <1>5. CASE r.status \notin {"sold", "in_stock"}
    <2> DEFINE row == [old EXCEPT !.status = r.status]
    <2>1. vehicle' = [vehicle EXCEPT ![v] = row] /\ Leaves(h, {}, {"date"})
      BY <1>5 DEF WholesaleStatus
    <2>2. /\ row \in VehicleRow /\ row.row = old.row /\ row.vin = old.vin
          /\ row.cost = old.cost /\ row.flooring = old.flooring /\ row.total = old.total
          /\ row.price = old.price /\ row.deal = old.deal /\ row.jacket = old.jacket
      BY <1>1 DEF VehicleRow
    <2> HIDE DEF row
    <2>3. /\ Settles(h) /\ doubt["total"] \subseteq doubt'["total"] /\ v \in doubt'["date"]
          /\ doubt["price"] \subseteq doubt'["price"]
      BY <1>1, <1>2, <2>1, LeavesStep DEF Facts
    <2>4. row.row = "live" /\ v \notin doubt'["price"] /\ OthersKeepPrice(h) => PriceAgrees(row)
      BY <1>1, <2>2, <2>3, SaleKept DEF PriceAgrees
    <2>5. QED
      BY <1>0, <1>1, <2>1, <2>2, <2>3, <2>4, EditWritten
  <1>6. QED
    BY <1>3, <1>4, <1>5

\* What a request that writes an expense knows.
LEMMA AtExpense ==
  ASSUME InventoryInv, NEW h \in Handlers, pc[h] \in ExpenseAwaits
  PROVE  /\ h \in InFlight /\ HandlerTypes /\ RowTypes /\ PlanTypes /\ DoubtTypes
         /\ Carried(pc[h], local[h]) /\ local[h].on \in Vehicles /\ local[h].alone \in BOOLEAN
         /\ vehicle[local[h].on] \in VehicleRow /\ vehicle[local[h].on].row # "none"
         /\ pc[h] \in VehicleAwaits /\ pc[h] \in Apart /\ ~Repricing(h)
         /\ local[h].expense \in Expenses /\ local[h].cost \in Nat /\ local[h].settles = {"total"}
         /\ {"on", "alone", "expense", "op", "cost", "settles"} \subseteq DOMAIN local[h]
         /\ Written(local[h]) \in ExpenseRow /\ Written(local[h]).on = local[h].on
  <1>1. /\ pc[h] \in VehicleAwaits /\ pc[h] \notin Creates /\ pc[h] \in Apart /\ ~Repricing(h)
    BY DEF VehicleAwaits, ExpenseAwaits, Creates, Apart, Repricing
  <1>2. Carried(pc[h], local[h]) /\ local[h].on \in Vehicles
    BY <1>1, AtVehicle
  <1>3. /\ local[h].expense \in Expenses /\ local[h].cost \in Nat /\ local[h].settles = {"total"}
        /\ {"on", "alone", "expense", "op", "cost", "settles"} \subseteq DOMAIN local[h]
    BY <1>2 DEF Carried, Fields
  <1>4. PICK live \in BOOLEAN : live = (local[h].op # "delete"
                /\ (local[h].op = "create" \/ expense[local[h].expense].live))
    OBVIOUS
  <1>5. Written(local[h]) = [on |-> local[h].on, cost |-> local[h].cost, live |-> live]
    BY <1>4 DEF Written
  <1>6. Written(local[h]) \in ExpenseRow /\ Written(local[h]).on = local[h].on
    BY <1>2, <1>3, <1>5 DEF ExpenseRow
  <1>7. QED
    BY <1>1, <1>2, <1>3, <1>6, AtVehicle

LEMMA ExpenseSumStep ==
  ASSUME InventoryInv, NEW h \in Handlers, ExpenseSum(h)
  PROVE  Stands(h)
  <1> DEFINE r == local[h]  v == r.on  old == vehicle[v]
             table == [expense EXCEPT ![r.expense] = Written(r)]
  <1>0. pc[h] = "expense" /\ UNCHANGED <<vehicle, expense, plan, undo, applied, doubt>>
    BY DEF ExpenseSum, inventory
  <1>1. /\ h \in InFlight /\ HandlerTypes /\ RowTypes /\ DoubtTypes
        /\ Carried("expense", r) /\ v \in Vehicles /\ old \in VehicleRow /\ old.row # "none"
        /\ pc[h] \in VehicleAwaits /\ pc[h] \in Apart /\ ~Repricing(h)
        /\ r.expense \in Expenses /\ r.cost \in Nat /\ r.settles = {"total"}
        /\ {"on", "alone", "expense", "op", "cost", "settles"} \subseteq DOMAIN r
        /\ Written(r) \in ExpenseRow
    BY <1>0, AtExpense DEF ExpenseAwaits
  <1>2. Settles(h)
    BY <1>0, <1>1 DEF Settles, DoubtTypes
  <1>3. CASE old.row # "live"
    <2>1. Answer(h)
      BY <1>3 DEF ExpenseSum
    <2>2. Continues(h) /\ pc'[h] = "idle"
      BY <1>0, <1>1, <1>2, <2>1, Answers
    <2>3. Writes(h) /\ VinStands(h)
      BY <1>0, <1>1, <2>2, RowKept
    <2>4. QED
      BY <1>0, <1>3, <2>2, <2>3 DEF Stands, TotalStands, SaleStands, Recalcs
  <1>4. CASE old.row = "live"
    <2> DEFINE total == Invested(old, table, v)
               more == [total |-> total]
    <2>1. Carry(h, "commit", more)
      BY <1>4 DEF ExpenseSum
    <2>2. table \in [Expenses -> ExpenseRow]
      BY <1>1 DEF RowTypes
    <2>3. total \in Nat
      <3> HIDE DEF table
      <3>1. Spent(table, v) \in Nat
        BY <2>2, SpentType
      <3>2. QED
        BY <1>1, <3>1 DEF Invested, VehicleRow
    <2> HIDE DEF total
    <2>4. PICK s : s = With(more, r)
      OBVIOUS
    <2>5. /\ {"on", "alone", "expense", "op", "cost", "settles", "total"} \subseteq DOMAIN s
          /\ s.on = r.on /\ s.alone = r.alone /\ s.settles = r.settles /\ s.total = total
          /\ s.expense = r.expense /\ s.op = r.op /\ s.cost = r.cost
      BY <1>1, <2>4 DEF With
    <2>6. Carried("commit", s)
      BY <1>1, <2>3, <2>5 DEF Carried, Fields, Creates, Updates, Recalcs, EditAwaits,
         ExpenseAwaits, Restores, VehicleAwaits, FloorAwaits
    <2>7. Continues(h) /\ pc'[h] = "commit" /\ local'[h] = s
      BY <1>0, <1>1, <2>1, <2>4, <2>6, CarriesOn
    <2>8. Writes(h)
      BY <1>0, <1>1, <2>5, <2>7 DEF Writes, Creates, FloorAwaits, Restores, RowTypes
    <2>9. VinStands(h)
      BY <1>0, <1>1, VinKept
    <2>10. TotalStands(h)
      <3>1. r.alone => local'[h].total = Invested(vehicle[v], table, v)
        BY <2>5, <2>7 DEF total
      <3>2. old.row = "live" /\ v \notin doubt["total"] /\ OthersApart(h) => old.total = Invested(old, expense, v)
        <4>1. SUFFICES ASSUME old.row = "live", v \notin doubt["total"], OthersApart(h)
                       PROVE  old.total = Invested(old, expense, v)
          OBVIOUS
        <4>2. v \in Live \ doubt["total"]
          BY <1>1, <4>1 DEF Live
        <4>3. \A g \in InFlight : local[g].on = v => pc[g] \in Apart
          BY <1>1, <4>1 DEF OthersApart
        <4>4. QED
          BY <4>2, <4>3 DEF InventoryInv, Totals
      <3>3. QED
        BY <1>0, <2>7, <3>1, <3>2 DEF TotalStands
    <2>11. SaleStands(h)
      BY <1>0, <1>1, <1>4, <2>7, SaleKept DEF SaleStands, Recalcs
    <2>12. QED
      BY <2>8, <2>9, <2>10, <2>11 DEF Stands
  <1>5. QED
    BY <1>3, <1>4

LEMMA ExpenseCommitStep ==
  ASSUME InventoryInv, NEW h \in Handlers, ExpenseCommit(h)
  PROVE  Stands(h)
  <1> DEFINE r == local[h]  v == r.on  old == vehicle[v]  row == [old EXCEPT !.total = r.total]
             table == [expense EXCEPT ![r.expense] = Written(r)]
  <1>0. /\ pc[h] = "commit" /\ UNCHANGED <<plan, undo, applied>> /\ Answer(h)
        /\ Leaves(h, r.settles, {}) /\ vehicle' = [vehicle EXCEPT ![v] = row] /\ expense' = table
    BY DEF ExpenseCommit
  <1>1. /\ h \in InFlight /\ HandlerTypes /\ RowTypes /\ DoubtTypes
        /\ Carried("commit", r) /\ v \in Vehicles /\ old \in VehicleRow /\ old.row # "none"
        /\ pc[h] \in VehicleAwaits /\ pc[h] \in Apart /\ ~Repricing(h)
        /\ r.expense \in Expenses /\ r.settles = {"total"} /\ r.alone \in BOOLEAN
        /\ Written(r) \in ExpenseRow
    BY <1>0, AtExpense DEF ExpenseAwaits
  <1>2. r.total \in Nat
    BY <1>1 DEF Carried
  <1>3. pc'[h] = "idle"
    BY <1>0, <1>1, AnswerStep
  <1>4. Settles(h) /\ doubt["date"] \subseteq doubt'["date"] /\ doubt["price"] \subseteq doubt'["price"]
    BY <1>0, <1>1, <1>3, LeavesStep DEF Facts
  <1>5. Continues(h)
    BY <1>0, <1>1, <1>4, Answers
  <1>6. /\ row \in VehicleRow /\ row.row = old.row /\ row.vin = old.vin
        /\ row.cost = old.cost /\ row.flooring = old.flooring /\ row.total = r.total
        /\ row.status = old.status /\ row.soldAt = old.soldAt /\ row.price = old.price
        /\ row.deal = old.deal /\ row.jacket = old.jacket
    BY <1>1, <1>2 DEF VehicleRow
  <1> HIDE DEF row
  <1>7. vehicle'[v] = row /\ \A u \in Vehicles \ {v} : vehicle'[u] = vehicle[u]
    BY <1>0, <1>1 DEF RowTypes
  <1>8. /\ expense'[r.expense] = Written(r)
        /\ \A e \in Expenses \ {r.expense} : expense'[e] = expense[e]
    BY <1>0, <1>1 DEF RowTypes
  <1>9. RowTypes'
    BY <1>0, <1>1, <1>6 DEF RowTypes
  <1>10. Writes(h)
    <2>1. \A e \in Expenses :
            \/ expense'[e] = expense[e]
            \/ pc[h] = "commit" /\ pc'[h] = "idle" /\ e = r.expense /\ expense'[e] = Written(r)
      BY <1>0, <1>3, <1>8
    <2>2. QED
      BY <1>0, <1>1, <1>3, <1>5, <1>6, <1>7, <1>9, <2>1
         DEF Writes, Creates, FloorAwaits, Restores, ExpenseAwaits
  <1>11. VinStands(h)
    BY <1>1, <1>6, <1>7, VinKept
  <1>12. TotalStands(h)
    <2>1. r.alone => r.total = Invested(old, table, v)
      BY <1>0, <1>1 DEF InventoryInv, Totals
    <2>2. Invested(row, expense', v) = Invested(old, table, v)
      BY <1>0, <1>6 DEF Invested
    <2>3. ~r.alone => v \in doubt["total"]
      BY <1>1 DEF InventoryInv, Overlaps
    <2>4. ~r.alone => v \in doubt'["total"]
      BY <1>4, <2>3 DEF Settles, Facts
    <2>5. QED
      BY <1>3, <1>6, <1>7, <2>1, <2>2, <2>4 DEF TotalStands
  <1>13. SaleStands(h)
    <2>1. row.row = "live" /\ v \notin doubt'["date"] => DateAgrees(row)
      BY <1>1, <1>4, <1>6, SaleKept DEF DateAgrees
    <2>2. row.row = "live" /\ v \notin doubt'["price"] /\ OthersKeepPrice(h) => PriceAgrees(row)
      BY <1>1, <1>4, <1>6, SaleKept DEF PriceAgrees
    <2>3. QED
      BY <1>3, <1>7, <2>1, <2>2 DEF SaleStands, Recalcs
  <1>14. QED
    BY <1>10, <1>11, <1>12, <1>13 DEF Stands

LEMMA FailStep ==
  ASSUME InventoryInv, NEW h \in Handlers, Fail(h)
  PROVE  /\ Continues(h) /\ pc'[h] = "idle" /\ Answer(h)
         /\ UNCHANGED <<vehicle, expense, plan, undo, applied>>
         /\ \A f \in Facts : local[h].on \in doubt'[f] /\ doubt[f] \subseteq doubt'[f]
  <1>0. /\ pc[h] # "idle" /\ Answer(h) /\ Doubt(Facts, {local[h].on})
        /\ UNCHANGED <<vehicle, expense, plan, undo, applied>>
    BY DEF Fail, inventory
  <1>1. h \in InFlight /\ HandlerTypes /\ DoubtTypes
    BY <1>0 DEF InFlight, InventoryInv, InventoryTypes
  <1>2. local[h].on \in Vehicles \cup {Floor}
    BY <1>1, InFlightTypes
  <1>3. /\ Settles(h)
        /\ \A f \in Facts : local[h].on \in doubt'[f] /\ doubt[f] \subseteq doubt'[f]
    BY <1>0, <1>1, <1>2, DoubtStep
  <1>4. QED
    BY <1>0, <1>1, <1>3, Answers

\* The steps of a request about a vehicle.
VehicleSteps(h) ==
  \/ CreateRow(h) \/ WholesaleCreate(h)
  \/ UpdateRow(h) \/ UpdateDeal(h) \/ UpdateJacket(h)
  \/ RecalcRead(h) \/ RecalcWrite(h)
  \/ DeleteVehicle(h) \/ ChangeStatus(h)
  \/ WholesaleEdit(h) \/ WholesaleStatus(h) \/ RecordSale(h)
  \/ ExpenseSum(h) \/ ExpenseCommit(h)
  \/ Fail(h) /\ pc[h] \in VehicleAwaits

LEMMA VehicleStepStands ==
  ASSUME InventoryInv, NEW h \in Handlers, VehicleSteps(h)
  PROVE  Stands(h)
  <1>1. ASSUME Fail(h), pc[h] \in VehicleAwaits
        PROVE  Stands(h)
    <2>1. /\ Continues(h) /\ pc'[h] = "idle" /\ UNCHANGED <<vehicle, expense, plan, undo, applied>>
          /\ \A f \in Facts : local[h].on \in doubt'[f]
      BY <1>1, FailStep
    <2>2. Writes(h) /\ VinStands(h)
      BY <1>1, <2>1, RowKept
    <2>3. TotalStands(h) /\ SaleStands(h)
      BY <2>1 DEF TotalStands, SaleStands, Facts, Recalcs
    <2>4. QED
      BY <2>2, <2>3 DEF Stands
  <1>2. QED
    BY <1>1, CreateRowStep, WholesaleCreateStep, UpdateRowStep, UpdateDealStep, UpdateJacketStep,
       RecalcReadStep, RecalcWriteStep, DeleteVehicleStep, ChangeStatusStep, WholesaleEditStep,
       WholesaleStatusStep, RecordSaleStep, ExpenseSumStep, ExpenseCommitStep DEF VehicleSteps

-----------------------------------------------------------------------------
(* A request that goes on or answers keeps the invariant.                  *)

\* Whoever is in flight afterwards was before, about the same.
LEMMA StillInFlight ==
  ASSUME NEW h \in Handlers, Continues(h), NEW g \in InFlight'
  PROVE  /\ g \in InFlight /\ local'[g].on = local[g].on /\ local'[g].alone = local[g].alone
         /\ g # h => pc'[g] = pc[g] /\ local'[g] = local[g]
         /\ h \in InFlight /\ pc'[g] # "idle"
  BY DEF Continues, Elsewhere, InFlight

LEMMA ContinuesOverlaps ==
  ASSUME Overlaps, NEW h \in Handlers, Continues(h)
  PROVE  Overlaps'
  <1>1. ASSUME NEW g \in InFlight', NEW f \in Facts, local[g].on \in doubt[f]
        PROVE  local[g].on \in doubt'[f]
    <2>1. CASE local[g].on = local[h].on /\ local[h].alone /\ pc'[h] = "idle"
      BY <2>1, StillInFlight DEF Overlaps
    <2>2. CASE ~(local[g].on = local[h].on /\ local[h].alone /\ pc'[h] = "idle")
      BY <1>1, <2>2 DEF Continues, Settles
    <2>3. QED
      BY <2>1, <2>2
  <1>2. ASSUME NEW k \in InFlight', NEW g \in InFlight', k # g, local'[k].on = local'[g].on
        PROVE  ~local'[g].alone /\ \A f \in Facts : local'[g].on \in doubt'[f]
    BY <1>1, <1>2, StillInFlight DEF Overlaps
  <1>3. ASSUME NEW g \in InFlight', ~local'[g].alone
        PROVE  local'[g].on \in doubt'["total"]
    BY <1>1, <1>3, StillInFlight DEF Overlaps, Facts
  <1>4. QED
    BY <1>2, <1>3 DEF Overlaps

LEMMA WritesCreations ==
  ASSUME InventoryInv, NEW h \in Handlers, Writes(h)
  PROVE  Creations'
  <1>0. /\ Creations /\ HandlerTypes /\ Continues(h) /\ local[h].on \in Vehicles
        /\ HandlerTypes'
    BY DEF Writes, InventoryInv, InventoryTypes, Continues
  <1>1. ASSUME NEW g \in InFlight'
        PROVE  /\ g \in InFlight /\ (pc'[g] \in VehicleAwaits => local[g].on \in Vehicles)
               /\ local'[g].on = local[g].on /\ (g # h => pc'[g] = pc[g]) /\ h \in InFlight
               /\ pc'[g] # "idle"
    <2>1. /\ g \in InFlight /\ local'[g].on = local[g].on /\ (g # h => pc'[g] = pc[g]) /\ h \in InFlight
          /\ pc'[g] # "idle"
      BY <1>0, StillInFlight
    <2>2. pc'[g] \in VehicleAwaits => local[g].on \in Vehicles
      BY <1>0, <2>1, InFlightTypes
    <2>3. QED
      BY <2>1, <2>2
  <1>2. \A u \in Vehicles : vehicle'[u].row = "none" =>
          vehicle[u].row = "none" /\ (u = local[h].on => pc'[h] = "idle")
    BY DEF Writes
  <1>3. ASSUME NEW g \in InFlight', pc'[g] \in Creates
        PROVE  /\ vehicle'[local'[g].on].row = "none"
               /\ \A k \in InFlight' : local'[k].on = local'[g].on => k = g
    <2>1. g # h /\ pc[g] \in Creates /\ g \in InFlight
      BY <1>1, <1>3 DEF Writes
    <2>2. local[g].on \in Vehicles /\ local[g].on # local[h].on
      BY <1>0, <1>1, <2>1, InFlightTypes DEF Creations, VehicleAwaits
    <2>3. vehicle'[local[g].on] = vehicle[local[g].on]
      BY <2>2 DEF Writes
    <2>4. QED
      BY <1>0, <1>1, <2>1, <2>3 DEF Creations
  <1>4. ASSUME NEW g \in InFlight', pc'[g] \in VehicleAwaits \ Creates
        PROVE  vehicle'[local'[g].on].row # "none"
    <2>1. CASE g = h
      BY <1>0, <1>1, <1>2, <2>1
    <2>2. CASE g # h
      BY <1>0, <1>1, <1>2, <1>4, <2>2 DEF Creations
    <2>3. QED
      BY <2>1, <2>2
  <1>5. ASSUME NEW e \in Expenses, expense'[e].on # None
        PROVE  vehicle'[expense'[e].on].row # "none"
    <2>1. CASE expense'[e] = expense[e]
      <3>1. vehicle[expense[e].on].row # "none" /\ expense[e].on \in Vehicles
        BY <1>0, <1>5, <2>1 DEF Creations, InventoryInv, InventoryTypes, RowTypes, ExpenseRow
      <3>2. QED
        BY <1>2, <2>1, <3>1
    <2>2. CASE pc[h] = "commit" /\ expense'[e] = Written(local[h])
      <3>1. vehicle[local[h].on].row # "none" /\ Written(local[h]).on = local[h].on
        BY <2>2, AtExpense DEF ExpenseAwaits
      <3>2. QED
        BY <1>0, <1>2, <2>2, <3>1
    <2>3. QED
      BY <2>1, <2>2 DEF Writes
  <1>6. QED
    BY <1>3, <1>4, <1>5 DEF Creations

\* An expense somebody else claims is not the one a commit writes, or is of its vehicle.
LEMMA WritesClaimants ==
  ASSUME InventoryInv, NEW h \in Handlers, Writes(h)
  PROVE  /\ Claimants'
         /\ \A g \in Handlers \ {h} : Claims(g) /\ local[g].on # local[h].on =>
              expense'[local[g].expense] = expense[local[g].expense]
  <1>0. /\ Claimants /\ Continues(h) /\ HandlerTypes
    BY DEF Writes, InventoryInv, InventoryTypes
  <1>1. ASSUME NEW g \in Handlers, Claims(g)
        PROVE  local[g].expense \in Expenses
    BY <1>1, AtExpense DEF Claims
  <1>2. ASSUME NEW g \in Handlers, Claims(g)'
        PROVE  /\ Claims(g) /\ local'[g].expense = local[g].expense /\ local'[g].op = local[g].op
               /\ local'[g].on = local[g].on
    <2>1. pc'[g] # "idle"
      BY <1>2 DEF Claims, ExpenseAwaits
    <2>2. local'[g].on = local[g].on
      BY <1>0, <2>1 DEF Continues, Elsewhere
    <2>3. QED
      BY <1>0, <1>2, <2>2 DEF Claims, Continues, Elsewhere, Writes, ExpenseAwaits
  <1>3. ASSUME NEW g \in Handlers \ {h}, Claims(g),
               expense'[local[g].expense] # expense[local[g].expense]
        PROVE  /\ Claims(h) /\ local[h].expense = local[g].expense
               /\ expense'[local[g].expense].on = local[h].on
               /\ local[g].op # "create" /\ local[h].op # "create"
               /\ local[g].on = local[h].on
    <2>1. pc[h] = "commit" /\ local[h].expense = local[g].expense
          /\ expense'[local[g].expense] = Written(local[h])
      BY <1>1, <1>3 DEF Writes
    <2>2. Claims(h) /\ Written(local[h]).on = local[h].on
      BY <2>1, AtExpense DEF Claims, ExpenseAwaits
    <2>3. QED
      BY <1>0, <1>3, <2>1, <2>2 DEF Claimants
  <1>4. ASSUME NEW g \in Handlers, Claims(g)'
        PROVE  IF local'[g].op = "create"
               THEN /\ expense'[local'[g].expense].on = None
                    /\ \A k \in Handlers \ {g} : Claims(k)' => local'[k].expense # local'[g].expense
               ELSE expense'[local'[g].expense].on = local'[g].on
    <2>1. Claims(g) /\ local'[g].expense = local[g].expense /\ local'[g].op = local[g].op
          /\ local'[g].on = local[g].on
      BY <1>2, <1>4
    <2>2. \A k \in Handlers \ {g} : Claims(k)' => Claims(k) /\ local'[k].expense = local[k].expense
      BY <1>2
    <2>3. CASE expense'[local[g].expense] = expense[local[g].expense]
      BY <1>0, <2>1, <2>2, <2>3 DEF Claimants
    <2>4. CASE expense'[local[g].expense] # expense[local[g].expense] /\ g # h
      BY <1>3, <2>1, <2>4
    <2>5. CASE expense'[local[g].expense] # expense[local[g].expense] /\ g = h
      BY <1>1, <1>4, <2>1, <2>5 DEF Writes, Claims, ExpenseAwaits
    <2>6. QED
      BY <2>3, <2>4, <2>5
  <1>5. Claimants'
    BY <1>4 DEF Claimants
  <1>6. QED
    BY <1>3, <1>5

LEMMA StandsVins ==
  ASSUME InventoryInv, NEW h \in Handlers, Writes(h), VinStands(h)
  PROVE  VinsUnique'
  <1>1. ASSUME NEW u \in Live', NEW v \in Live', u # v
        PROVE  vehicle'[u].vin # vehicle'[v].vin
    <2>1. \A w \in Vehicles \ {local[h].on} : vehicle'[w] = vehicle[w] /\ (w \in Live' <=> w \in Live)
      BY DEF Writes, Live
    <2>2. \A w \in Live' : w \in Vehicles /\ vehicle'[w].row = "live"
      BY DEF Live
    <2>3. QED
      BY <1>1, <2>1, <2>2 DEF InventoryInv, VinsUnique, VinStands
  <1>2. QED
    BY <1>1 DEF VinsUnique

\* What is spent on a vehicle depends on its own expenses.
LEMMA SpentSame ==
  ASSUME NEW old, NEW new, NEW v,
         \A e \in Expenses : old[e].on = v \/ new[e].on = v => new[e] = old[e]
  PROVE  Spent(new, v) = Spent(old, v)
  <1> DEFINE Paid(table, e) == {e} \X (1..table[e].cost)
  <1>1. Counted(new, v) = Counted(old, v)
    BY DEF Counted
  <1>2. \A e \in Counted(old, v) : Paid(new, e) = Paid(old, e)
    BY DEF Counted
  <1> HIDE DEF Paid
  <1>3. {Paid(new, e) : e \in Counted(new, v)} = {Paid(old, e) : e \in Counted(old, v)}
    BY <1>1, <1>2
  <1>4. QED
    BY <1>3 DEF Spent, Paid

\* A step about one vehicle leaves the expenses of the others.
LEMMA ExpensesElsewhere ==
  ASSUME InventoryInv, NEW h \in Handlers, Writes(h), NEW u \in Vehicles \ {local[h].on}
  PROVE  /\ \A e \in Expenses : expense[e].on = u \/ expense'[e].on = u => expense'[e] = expense[e]
         /\ \A row : Invested(row, expense', u) = Invested(row, expense, u)
  <1>1. ASSUME NEW e \in Expenses, expense'[e] # expense[e]
        PROVE  expense[e].on # u /\ expense'[e].on # u
    <2>1. pc[h] = "commit" /\ e = local[h].expense /\ expense'[e] = Written(local[h])
      BY <1>1 DEF Writes
    <2>2. Written(local[h]).on = local[h].on /\ Claims(h)
      BY <2>1, AtExpense DEF ExpenseAwaits, Claims
    <2>3. expense[e].on \in {None, local[h].on}
      BY <2>1, <2>2 DEF InventoryInv, Claimants
    <2>4. QED
      BY <2>1, <2>2, <2>3, InventoryAssumption
  <1>2. Spent(expense', u) = Spent(expense, u)
    BY <1>1, SpentSame
  <1>3. QED
    BY <1>1, <1>2 DEF Invested

LEMMA StandsTotals ==
  ASSUME InventoryInv, NEW h \in Handlers, Writes(h), TotalStands(h)
  PROVE  Totals'
  <1>0. /\ HandlerTypes /\ Continues(h) /\ local[h].on \in Vehicles /\ Overlaps /\ Totals
        /\ \A u \in Vehicles \ {local[h].on} : vehicle'[u] = vehicle[u]
    BY DEF Writes, InventoryInv, InventoryTypes
  <1>1. ASSUME NEW g \in InFlight' \ {h}
        PROVE  /\ g \in InFlight /\ pc'[g] = pc[g] /\ local'[g] = local[g]
               /\ local[g].alone => local[g].on # local[h].on
               /\ pc[g] \in VehicleAwaits => local[g].on \in Vehicles
    <2>1. g \in InFlight /\ pc'[g] = pc[g] /\ local'[g] = local[g] /\ h \in InFlight
      BY <1>0, StillInFlight
    <2>2. QED
      BY <1>0, <2>1, InFlightTypes DEF Overlaps
  <1>2. ASSUME NEW g \in InFlight', pc'[g] = "total", local'[g].alone
        PROVE  local'[g].total = Invested(vehicle'[local'[g].on], expense', local'[g].on)
    <2>1. CASE g = h
      <3>1. local'[h].on = local[h].on /\ local[h].alone
        BY <1>0, <1>2, <2>1, StillInFlight
      <3>2. QED
        BY <1>2, <2>1, <3>1 DEF TotalStands
    <2>2. CASE g # h
      <3>1. /\ g \in InFlight /\ pc[g] = "total" /\ local'[g] = local[g] /\ local[g].alone
            /\ local[g].on \in Vehicles \ {local[h].on}
        BY <1>1, <1>2, <2>2 DEF VehicleAwaits, Recalcs
      <3>2. local[g].total = Invested(vehicle[local[g].on], expense, local[g].on)
        BY <1>0, <3>1 DEF Totals
      <3>3. QED
        BY <1>0, <3>1, <3>2, ExpensesElsewhere
    <2>3. QED
      BY <2>1, <2>2
  <1>3. ASSUME NEW g \in InFlight', pc'[g] = "commit", local'[g].alone
        PROVE  LET r == local'[g] IN
               r.total = Invested(vehicle'[r.on], [expense' EXCEPT ![r.expense] = Written(local[g])'], r.on)
    <2>1. CASE g = h
      <3>1. local'[h].on = local[h].on /\ local[h].alone
        BY <1>0, <1>3, <2>1, StillInFlight
      <3>2. /\ UNCHANGED <<vehicle, expense>> /\ local'[h].expense = local[h].expense
            /\ local'[h].op = local[h].op /\ local'[h].cost = local[h].cost
        BY <1>3, <2>1 DEF Writes, ExpenseAwaits
      <3>3. Written(local[h])' = Written(local[h])
        BY <3>1, <3>2 DEF Written
      <3>4. QED
        BY <1>3, <2>1, <3>1, <3>2, <3>3 DEF TotalStands
    <2>2. CASE g # h
      <3> DEFINE r == local[g]
                 old == [expense EXCEPT ![r.expense] = Written(r)]
                 new == [expense' EXCEPT ![r.expense] = Written(r)]
      <3>1. /\ g \in InFlight /\ pc[g] = "commit" /\ local'[g] = r /\ r.alone
            /\ r.on \in Vehicles \ {local[h].on}
        BY <1>1, <1>3, <2>2 DEF VehicleAwaits, ExpenseAwaits
      <3>2. Claims(g) /\ g \in Handlers
        BY <3>1 DEF Claims, ExpenseAwaits, InFlight
      <3>3. expense'[r.expense] = expense[r.expense]
        BY <2>2, <3>1, <3>2, WritesClaimants
      <3>4. Written(local[g])' = Written(r)
        BY <3>1, <3>3 DEF Written
      <3>5. /\ \A e \in Expenses : expense[e].on = r.on \/ expense'[e].on = r.on => expense'[e] = expense[e]
            /\ vehicle'[r.on] = vehicle[r.on]
        BY <1>0, <3>1, ExpensesElsewhere
      <3>6. r.total = Invested(vehicle[r.on], old, r.on)
        BY <1>0, <3>1 DEF Totals
      <3>7. \A e \in Expenses :
              \/ e = r.expense /\ old[e] = Written(r) /\ new[e] = Written(r)
              \/ old[e] = expense[e] /\ new[e] = expense'[e]
        BY DEF InventoryInv, InventoryTypes, RowTypes, Writes
      <3> HIDE DEF old, new
      <3>8. Spent(new, r.on) = Spent(old, r.on)
        BY <3>5, <3>7, SpentSame
      <3>9. Invested(vehicle'[r.on], new, r.on) = Invested(vehicle[r.on], old, r.on)
        BY <3>5, <3>8 DEF Invested
      <3>10. QED
        BY <3>1, <3>4, <3>6, <3>9 DEF new
    <2>3. QED
      BY <2>1, <2>2
  <1>4. ASSUME NEW v \in Live', v \notin doubt'["total"],
               \A g \in InFlight' : local'[g].on = v => pc'[g] \in Apart
        PROVE  vehicle'[v].total = Invested(vehicle'[v], expense', v)
    <2>0. v \in Vehicles /\ vehicle'[v].row = "live"
      BY DEF Live
    <2>4. \A g \in InFlight \ {h} : g \in InFlight' /\ pc'[g] = pc[g] /\ local'[g] = local[g]
      BY <1>0 DEF Continues, Elsewhere, InFlight
    <2>1. CASE v = local[h].on
      <3>1. OthersApart(h)
        BY <1>4, <2>4, <2>1 DEF OthersApart
      <3>2. pc'[h] \in Apart \cup {"idle"}
        <4>1. pc'[h] # "idle" => h \in InFlight' /\ local'[h].on = v
          BY <1>0, <2>1 DEF Continues, InFlight
        <4>2. QED
          BY <1>4, <4>1
      <3>3. QED
        BY <1>4, <2>0, <2>1, <3>1, <3>2 DEF TotalStands
    <2>2. CASE v # local[h].on
      <3>1. vehicle'[v] = vehicle[v] /\ v \in Live
        BY <1>0, <2>0, <2>2 DEF Live
      <3>2. v \notin doubt["total"]
        BY <1>0, <1>4, <2>2 DEF Continues, Settles, Facts
      <3>3. \A g \in InFlight : local[g].on = v => pc[g] \in Apart
        BY <1>4, <2>4, <2>2
      <3>4. vehicle[v].total = Invested(vehicle[v], expense, v)
        BY <1>0, <3>1, <3>2, <3>3 DEF Totals
      <3>5. QED
        BY <2>0, <2>2, <3>1, <3>4, ExpensesElsewhere
    <2>3. QED
      BY <2>1, <2>2
  <1>5. QED
    BY <1>2, <1>3, <1>4 DEF Totals

LEMMA StandsSales ==
  ASSUME InventoryInv, NEW h \in Handlers, Writes(h), SaleStands(h)
  PROVE  Sales'
  <1>0. /\ HandlerTypes /\ Continues(h) /\ local[h].on \in Vehicles /\ Overlaps /\ Sales
        /\ \A u \in Vehicles \ {local[h].on} : vehicle'[u] = vehicle[u]
    BY DEF Writes, InventoryInv, InventoryTypes
  <1>1. \A g \in InFlight \ {h} : g \in InFlight' /\ pc'[g] = pc[g] /\ local'[g] = local[g]
    BY <1>0 DEF Continues, Elsewhere, InFlight
  <1>2. \A v \in Live' : v \in Vehicles /\ vehicle'[v].row = "live"
    BY DEF Live
  <1>3. ASSUME NEW v \in Live', v # local[h].on
        PROVE  /\ vehicle'[v] = vehicle[v] /\ v \in Live
               /\ \A f \in Facts : v \notin doubt'[f] => v \notin doubt[f]
    BY <1>0, <1>2, <1>3 DEF Live, Continues, Settles
  \* Another request that still knows something is about another vehicle.
  <1>4. ASSUME NEW g \in InFlight' \ {h}, pc'[g] \in VehicleAwaits, NEW f \in Facts,
               local'[g].alone \/ local'[g].on \notin doubt'[f]
        PROVE  /\ g \in InFlight /\ pc'[g] = pc[g] /\ local'[g] = local[g]
               /\ local[g].on \in Vehicles /\ vehicle'[local[g].on] = vehicle[local[g].on]
               /\ local[g].alone \/ local[g].on \notin doubt[f]
    <2>1. g \in InFlight /\ pc'[g] = pc[g] /\ local'[g] = local[g] /\ h \in InFlight
      BY <1>0, StillInFlight
    <2>2. local[g].on \in Vehicles
      BY <1>0, <1>4, <2>1, InFlightTypes
    <2>3. local[g].on # local[h].on
      <3>1. SUFFICES ASSUME local[g].on = local[h].on  PROVE  FALSE
        OBVIOUS
      <3>2. ~local[g].alone /\ ~local[h].alone /\ local[g].on \in doubt[f]
        BY <1>0, <2>1, <3>1 DEF Overlaps
      <3>3. local[g].on \in doubt'[f]
        BY <1>0, <3>2 DEF Continues, Settles
      <3>4. QED
        BY <1>4, <2>1, <3>2, <3>3
    <2>4. local[g].on \notin doubt'[f] => local[g].on \notin doubt[f]
      BY <1>0, <2>3 DEF Continues, Settles
    <2>5. QED
      BY <1>0, <1>4, <2>1, <2>2, <2>3, <2>4
  <1>5. ASSUME NEW v \in Live', v \notin doubt'["date"]
        PROVE  DateAgrees(vehicle'[v])
    BY <1>0, <1>2, <1>3, <1>5 DEF SaleStands, Sales, Facts
  <1>6. ASSUME NEW v \in Live', v \notin doubt'["price"],
               \A g \in InFlight' : local'[g].on = v => ~Repricing(g)'
        PROVE  PriceAgrees(vehicle'[v])
    <2>1. CASE v = local[h].on
      <3>1. OthersKeepPrice(h)
        BY <1>1, <1>6, <2>1 DEF OthersKeepPrice, Repricing
      <3>2. ~(pc'[h] \in {"deal", "jacket"} /\ local[h].patch.price # None)
        <4>1. pc'[h] # "idle" => h \in InFlight' /\ local'[h].on = v
          BY <1>0, <2>1 DEF Continues, InFlight
        <4>2. pc'[h] \in {"deal", "jacket"} => local'[h].patch = local[h].patch /\ ~Repricing(h)'
          BY <1>6, <4>1 DEF SaleStands
        <4>3. QED
          BY <4>2 DEF Repricing
      <3>3. QED
        BY <1>2, <1>6, <2>1, <3>1, <3>2 DEF SaleStands
    <2>2. CASE v # local[h].on
      <3>1. \A g \in InFlight : local[g].on = v => ~Repricing(g)
        BY <1>1, <1>6, <2>2 DEF Repricing
      <3>2. QED
        BY <1>0, <1>3, <1>6, <2>2, <3>1 DEF Sales, Facts
    <2>3. QED
      BY <2>1, <2>2
  <1>7. ASSUME NEW g \in InFlight', pc'[g] \in {"status", "wholesaleStatus"}
        PROVE  /\ Knows(g, "date")' => local'[g].soldAt = vehicle'[local'[g].on].soldAt
               /\ Knows(g, "price")' => local'[g].old = vehicle'[local'[g].on].price
    <2>1. g # h /\ pc'[g] \in VehicleAwaits
      BY <1>7 DEF Writes, VehicleAwaits, EditAwaits
    <2>2. Knows(g, "date")' => local'[g].soldAt = vehicle'[local'[g].on].soldAt
      BY <1>0, <1>4, <1>7, <2>1 DEF Knows, Facts, Sales
    <2>3. Knows(g, "price")' => local'[g].old = vehicle'[local'[g].on].price
      BY <1>0, <1>4, <1>7, <2>1 DEF Knows, Facts, Sales
    <2>4. QED
      BY <2>2, <2>3
  <1>8. ASSUME NEW g \in InFlight', Repricing(g)', Knows(g, "price")'
        PROVE  /\ vehicle'[local'[g].on].price = local'[g].patch.price
               /\ pc'[g] = "jacket" => vehicle'[local'[g].on].deal = local'[g].patch.price
    <2>1. CASE g = h
      <3>1. local'[h].on = local[h].on /\ local'[h].alone = local[h].alone
        BY <1>0, <1>8, <2>1 DEF Continues, InFlight
      <3>2. QED
        BY <1>8, <2>1, <3>1 DEF SaleStands, Repricing, Knows
    <2>2. CASE g # h
      <3>1. pc'[g] \in VehicleAwaits
        BY <1>8 DEF Repricing, VehicleAwaits, Updates
      <3>2. /\ g \in InFlight /\ Repricing(g) /\ Knows(g, "price") /\ pc'[g] = pc[g]
            /\ local'[g] = local[g] /\ vehicle'[local[g].on] = vehicle[local[g].on]
        BY <1>4, <1>8, <2>2, <3>1 DEF Repricing, Knows, Facts
      <3>3. QED
        BY <1>0, <3>2 DEF Sales
    <2>3. QED
      BY <2>1, <2>2
  <1>9. ASSUME NEW g \in InFlight', pc'[g] \in Recalcs, "price" \in local'[g].settles, local'[g].alone
        PROVE  PriceAgrees(vehicle'[local'[g].on])
    <2>1. CASE g = h
      <3>1. local'[h].on = local[h].on /\ local'[h].alone = local[h].alone
        BY <1>0, <1>9, <2>1 DEF Continues, InFlight
      <3>2. QED
        BY <1>9, <2>1, <3>1 DEF SaleStands
    <2>2. CASE g # h
      <3>1. pc'[g] \in VehicleAwaits
        BY <1>9 DEF VehicleAwaits
      <3>2. /\ g \in InFlight /\ local'[g] = local[g] /\ pc'[g] = pc[g]
            /\ vehicle'[local[g].on] = vehicle[local[g].on]
        BY <1>4, <1>9, <2>2, <3>1 DEF Facts
      <3>3. QED
        BY <1>0, <1>9, <3>2 DEF Sales
    <2>3. QED
      BY <2>1, <2>2
  <1>10. QED
    BY <1>5, <1>6, <1>7, <1>8, <1>9 DEF Sales

LEMMA VehicleStepInv ==
  ASSUME InventoryInv, NEW h \in Handlers, VehicleSteps(h)
  PROVE  InventoryInv'
  <1>1. Stands(h) /\ Writes(h) /\ Continues(h) /\ local[h].on \in Vehicles
    BY VehicleStepStands DEF Stands, Writes
  <1>2. /\ Overlaps' /\ Creations' /\ VinsUnique' /\ Claimants' /\ Totals' /\ Sales'
    BY <1>1, ContinuesOverlaps, WritesCreations, StandsVins, WritesClaimants, StandsTotals,
       StandsSales DEF Stands, InventoryInv
  <1>3. UNCHANGED <<plan, undo, applied>> /\ RowTypes' /\ pc'[h] \notin FloorAwaits
    BY <1>1 DEF Writes
  <1>4. InventoryTypes'
    BY <1>1, <1>3 DEF InventoryInv, InventoryTypes, PlanTypes, Continues, Settles
  <1>5. Undos'
    <2>1. SUFFICES ASSUME Floor \notin doubt'["undo"]
                   PROVE  /\ undo' # None => undo'.at = applied' \/ \E g \in Handlers : pc'[g] \in {"clear", "clear_delete"}
                          /\ \A g \in Handlers : pc'[g] = "save" => local'[g].at = applied'
                          /\ \A g \in Handlers : pc'[g] = "clear_delete" => undo' = None \/ undo'.id = local'[g].id
      BY DEF Undos
    <2>2. Floor \notin doubt["undo"] /\ Undos
      BY <1>1, <2>1, InventoryAssumption DEF Continues, Settles, Facts, InventoryInv
    <2>3. h \in InFlight /\ HandlerTypes
      BY <1>1 DEF Continues, InFlight, InventoryInv, InventoryTypes
    <2>4. pc[h] \notin FloorAwaits
      BY <1>1, <2>3, InFlightTypes, InventoryAssumption
    <2>5. \A g \in Handlers : pc[g] \in FloorAwaits \/ pc'[g] \in FloorAwaits =>
            pc'[g] = pc[g] /\ local'[g] = local[g]
      BY <1>1, <1>3, <2>4 DEF Continues, Elsewhere
    <2>6. QED
      BY <1>3, <2>2, <2>5 DEF Undos, FloorAwaits
  <1>6. QED
    BY <1>2, <1>4, <1>5 DEF InventoryInv

-----------------------------------------------------------------------------
(* Steps of requests about the floor plan.                                 *)

\* Whatever such a step does, it does not touch vehicles.
OffTheLot(h) ==
  /\ Continues(h) /\ local[h].on = Floor /\ pc'[h] \notin VehicleAwaits
  /\ UNCHANGED <<vehicle, expense>>
  /\ \A f \in Facts : doubt[f] \subseteq doubt'[f]

LEMMA OffTheLotStep ==
  ASSUME InventoryInv, NEW h \in Handlers, OffTheLot(h)
  PROVE  /\ HandlerTypes' /\ DoubtTypes' /\ RowTypes'
         /\ Overlaps' /\ Creations' /\ VinsUnique' /\ Claimants' /\ Totals' /\ Sales'
  <1>0. /\ HandlerTypes /\ RowTypes /\ Continues(h) /\ h \in InFlight /\ UNCHANGED <<vehicle, expense>>
        /\ local[h].on = Floor /\ Floor \notin Vehicles
    BY InventoryAssumption DEF InventoryInv, InventoryTypes, OffTheLot, Continues, InFlight
  <1>1. HandlerTypes' /\ DoubtTypes' /\ RowTypes' /\ Overlaps'
    BY <1>0, ContinuesOverlaps DEF Continues, Settles, RowTypes, InventoryInv
  <1>2. Live' = Live /\ VinsUnique'
    BY <1>0 DEF Live, VinsUnique, InventoryInv
  \* The requests about vehicles are those that were.
  <1>3. ASSUME NEW g \in Handlers, pc[g] \in VehicleAwaits \/ pc'[g] \in VehicleAwaits
        PROVE  /\ g # h /\ pc'[g] = pc[g] /\ local'[g] = local[g] /\ g \in InFlight /\ g \in InFlight'
               /\ local[g].on \in Vehicles
    <2>1. pc[h] \notin VehicleAwaits /\ pc'[h] \notin VehicleAwaits
      BY <1>0, InFlightTypes DEF OffTheLot
    <2>2. g # h /\ pc'[g] = pc[g] /\ local'[g] = local[g]
      BY <1>0, <1>3, <2>1 DEF Continues, Elsewhere
    <2>3. g \in InFlight /\ g \in InFlight'
      BY <1>3, <2>2 DEF InFlight, VehicleAwaits, Creates, Updates, Recalcs, EditAwaits, ExpenseAwaits
    <2>4. QED
      BY <1>0, <1>3, <2>2, <2>3, InFlightTypes
  <1>4. ASSUME NEW g \in InFlight', pc'[g] \in VehicleAwaits \/ local'[g].on # Floor
        PROVE  g \in InFlight /\ pc'[g] = pc[g] /\ local'[g] = local[g] /\ pc[g] \in VehicleAwaits
    <2>1. g \in Handlers
      BY DEF InFlight
    <2>2. CASE pc'[g] \in VehicleAwaits
      BY <1>3, <2>1, <2>2
    <2>3. CASE local'[g].on # Floor
      <3>1. g \in InFlight /\ local[g].on # Floor
        BY <1>0, <2>3, StillInFlight
      <3>2. pc[g] \in VehicleAwaits
        BY <1>0, <3>1, InFlightTypes
      <3>3. QED
        BY <1>3, <2>1, <3>1, <3>2
    <2>4. QED
      BY <1>4, <2>2, <2>3
  <1>5. \A f \in Facts, x \in Vehicles : x \notin doubt'[f] => x \notin doubt[f]
    BY DEF OffTheLot
  <1>6. Creations'
    <2>1. ASSUME NEW g \in InFlight', pc'[g] \in Creates
          PROVE  /\ vehicle'[local'[g].on].row = "none"
                 /\ \A k \in InFlight' : local'[k].on = local'[g].on => k = g
      <3>1. /\ g \in InFlight /\ pc'[g] = pc[g] /\ local'[g] = local[g] /\ local[g].on \in Vehicles
        BY <1>3, <1>4, <2>1 DEF VehicleAwaits, InFlight
      <3>2. \A k \in InFlight' : local'[k].on = local[g].on => k \in InFlight /\ local'[k] = local[k]
        BY <1>0, <1>4, <3>1
      <3>3. QED
        BY <1>0, <2>1, <3>1, <3>2 DEF InventoryInv, Creations
    <2>2. ASSUME NEW g \in InFlight', pc'[g] \in VehicleAwaits \ Creates
          PROVE  vehicle'[local'[g].on].row # "none"
      BY <1>0, <1>4, <2>2 DEF InventoryInv, Creations
    <2>3. QED
      BY <1>0, <2>1, <2>2 DEF InventoryInv, Creations
  <1>7. Claimants'
    <2>1. \A g \in Handlers : Claims(g)' => Claims(g) /\ local'[g] = local[g]
      BY <1>3 DEF Claims, VehicleAwaits
    <2>2. QED
      BY <1>0, <2>1 DEF InventoryInv, Claimants
  <1>8. Totals'
    <2>1. ASSUME NEW g \in InFlight', pc'[g] = "total", local'[g].alone
          PROVE  local'[g].total = Invested(vehicle'[local'[g].on], expense', local'[g].on)
      BY <1>0, <1>4, <2>1 DEF InventoryInv, Totals, VehicleAwaits, Recalcs
    <2>2. ASSUME NEW g \in InFlight', pc'[g] = "commit", local'[g].alone
          PROVE  LET r == local'[g] IN
                 r.total = Invested(vehicle'[r.on], [expense' EXCEPT ![r.expense] = Written(local[g])'], r.on)
      <3>1. /\ g \in InFlight /\ pc[g] = "commit" /\ local'[g] = local[g]
        BY <1>4, <2>2 DEF VehicleAwaits, ExpenseAwaits
      <3>2. Written(local[g])' = Written(local[g])
        BY <1>0, <3>1 DEF Written
      <3>3. QED
        BY <1>0, <2>2, <3>1, <3>2 DEF InventoryInv, Totals
    <2>3. ASSUME NEW v \in Live', v \notin doubt'["total"],
                 \A g \in InFlight' : local'[g].on = v => pc'[g] \in Apart
          PROVE  vehicle'[v].total = Invested(vehicle'[v], expense', v)
      <3>1. v \in Live /\ v \in Vehicles /\ v \notin doubt["total"]
        BY <1>2, <1>5, <2>3 DEF Live, Facts
      <3>2. \A g \in InFlight : local[g].on = v => pc[g] \in Apart
        <4>1. ASSUME NEW g \in InFlight, local[g].on = v
              PROVE  pc[g] \in Apart
          <5>1. pc[g] \in VehicleAwaits /\ g \in Handlers
            BY <1>0, <3>1, <4>1, InFlightTypes
          <5>2. QED
            BY <1>3, <2>3, <4>1, <5>1
        <4>2. QED
          BY <4>1
      <3>3. QED
        BY <1>0, <3>1, <3>2 DEF InventoryInv, Totals
    <2>4. QED
      BY <2>1, <2>2, <2>3 DEF Totals
  <1>9. Sales'
    <2>1. ASSUME NEW v \in Live', v \notin doubt'["date"]
          PROVE  DateAgrees(vehicle'[v])
      BY <1>0, <1>2, <1>5, <2>1 DEF InventoryInv, Sales, Live, Facts
    <2>2. ASSUME NEW v \in Live', v \notin doubt'["price"],
                 \A g \in InFlight' : local'[g].on = v => ~Repricing(g)'
          PROVE  PriceAgrees(vehicle'[v])
      <3>1. v \in Live /\ v \in Vehicles /\ v \notin doubt["price"]
        BY <1>2, <1>5, <2>2 DEF Live, Facts
      <3>2. \A g \in InFlight : local[g].on = v => ~Repricing(g)
        <4>1. ASSUME NEW g \in InFlight, local[g].on = v
              PROVE  ~Repricing(g)
          <5>1. pc[g] \in VehicleAwaits /\ g \in Handlers
            BY <1>0, <3>1, <4>1, InFlightTypes
          <5>2. QED
            BY <1>3, <2>2, <4>1, <5>1 DEF Repricing
        <4>2. QED
          BY <4>1
      <3>3. QED
        BY <1>0, <3>1, <3>2 DEF InventoryInv, Sales
    <2>3. ASSUME NEW g \in InFlight', pc'[g] \in VehicleAwaits
          PROVE  /\ g \in InFlight /\ pc'[g] = pc[g] /\ local'[g] = local[g]
                 /\ \A f \in Facts : Knows(g, f)' => Knows(g, f)
      <3>1. g \in InFlight /\ pc'[g] = pc[g] /\ local'[g] = local[g] /\ local[g].on \in Vehicles
        BY <1>3, <1>4, <2>3 DEF InFlight
      <3>2. QED
        BY <1>5, <3>1 DEF Knows
    <2>4. ASSUME NEW g \in InFlight', pc'[g] \in {"status", "wholesaleStatus"}
          PROVE  /\ Knows(g, "date")' => local'[g].soldAt = vehicle'[local'[g].on].soldAt
                 /\ Knows(g, "price")' => local'[g].old = vehicle'[local'[g].on].price
      BY <1>0, <2>3, <2>4 DEF InventoryInv, Sales, VehicleAwaits, EditAwaits, Facts
    <2>5. ASSUME NEW g \in InFlight', Repricing(g)', Knows(g, "price")'
          PROVE  /\ vehicle'[local'[g].on].price = local'[g].patch.price
                 /\ pc'[g] = "jacket" => vehicle'[local'[g].on].deal = local'[g].patch.price
      <3>1. pc'[g] \in VehicleAwaits
        BY <2>5 DEF Repricing, VehicleAwaits, Updates
      <3>2. g \in InFlight /\ pc'[g] = pc[g] /\ local'[g] = local[g] /\ Repricing(g) /\ Knows(g, "price")
        BY <2>3, <2>5, <3>1 DEF Facts, Repricing
      <3>3. QED
        BY <1>0, <3>2 DEF InventoryInv, Sales
    <2>6. ASSUME NEW g \in InFlight', pc'[g] \in Recalcs, "price" \in local'[g].settles, local'[g].alone
          PROVE  PriceAgrees(vehicle'[local'[g].on])
      BY <1>0, <2>3, <2>6 DEF InventoryInv, Sales, VehicleAwaits
    <2>7. QED
      BY <2>1, <2>2, <2>4, <2>5, <2>6 DEF Sales
  <1>10. QED
    BY <1>1, <1>2, <1>6, <1>7, <1>8, <1>9

LEMMA AtFloor ==
  ASSUME InventoryInv, NEW h \in Handlers, pc[h] \in FloorAwaits
  PROVE  /\ h \in InFlight /\ HandlerTypes /\ PlanTypes /\ DoubtTypes /\ applied \in Nat
         /\ Carried(pc[h], local[h]) /\ local[h].on = Floor
         /\ doubt' = doubt => Settles(h)
         /\ {"on", "alone"} \subseteq DOMAIN local[h]
         /\ Floor \notin doubt["undo"] => \A g \in Handlers \ {h} : pc[g] \notin FloorAwaits
  <1>1. pc[h] # "idle"
    BY DEF FloorAwaits, Restores
  <1>2. h \in InFlight /\ HandlerTypes /\ PlanTypes /\ DoubtTypes /\ Overlaps
    BY <1>1 DEF InFlight, InventoryInv, InventoryTypes
  <1>3. Carried(pc[h], local[h]) /\ local[h].on = Floor
    BY <1>2, InFlightTypes
  <1>4. ASSUME Floor \notin doubt["undo"], NEW g \in Handlers \ {h}, pc[g] \in FloorAwaits
        PROVE  FALSE
    <2>1. g \in InFlight
      BY <1>4 DEF InFlight, FloorAwaits, Restores
    <2>2. local[g].on = Floor
      BY <1>2, <1>4, <2>1, InFlightTypes
    <2>3. QED
      BY <1>2, <1>3, <1>4, <2>1, <2>2 DEF Overlaps, Facts
  <1>5. doubt' = doubt => Settles(h)
    BY <1>2 DEF Settles, DoubtTypes
  <1>6. QED
    BY <1>2, <1>3, <1>4, <1>5 DEF PlanTypes, Carried, Fields

LEMMA FloorInv ==
  ASSUME InventoryInv, NEW h \in Handlers, OffTheLot(h), PlanTypes', Undos'
  PROVE  InventoryInv'
  BY OffTheLotStep DEF InventoryInv, InventoryTypes

LEMMA PlanWriteStep ==
  ASSUME InventoryInv, NEW h \in Handlers, PlanWrite(h)
  PROVE  InventoryInv'
  <1> DEFINE p == local[h].plan
  <1>0. pc[h] = "plan" /\ plan' = p /\ UNCHANGED <<vehicle, expense, undo, doubt>>
    BY DEF PlanWrite
  <1>1. /\ h \in InFlight /\ HandlerTypes /\ PlanTypes /\ DoubtTypes /\ applied \in Nat
        /\ Carried("plan", local[h]) /\ local[h].on = Floor /\ Settles(h)
        /\ {"on", "alone"} \subseteq DOMAIN local[h]
        /\ Floor \notin doubt["undo"] => \A g \in Handlers \ {h} : pc[g] \notin FloorAwaits
    BY <1>0, AtFloor DEF FloorAwaits
  <1>2. p \in Plan
    BY <1>1 DEF Carried
  <1>3. CASE p = "applied"
    <2>1. applied' = applied + 1 /\ Goto(h, "clear")
      BY <1>3 DEF PlanWrite
    <2>2. Carried("clear", local[h])
      BY <1>1 DEF Carried, Fields, Creates, Updates, Recalcs, EditAwaits,
         ExpenseAwaits, Restores, VehicleAwaits, FloorAwaits
    <2>3. Continues(h) /\ pc'[h] = "clear"
      BY <1>0, <1>1, <2>1, <2>2, GoesOn
    <2>4. OffTheLot(h)
      BY <1>0, <1>1, <2>3 DEF OffTheLot, VehicleAwaits, Creates, Updates, Recalcs, EditAwaits, ExpenseAwaits
    <2>5. PlanTypes'
      BY <1>0, <1>1, <1>2, <2>1 DEF PlanTypes, IsUndo
    <2>6. Undos'
      BY <1>0, <1>1, <2>3 DEF Undos, Continues, Elsewhere, FloorAwaits
    <2>7. QED
      BY <2>4, <2>5, <2>6, FloorInv
  <1>4. CASE p # "applied"
    <2>1. applied' = applied /\ Answer(h)
      BY <1>4 DEF PlanWrite
    <2>2. Continues(h) /\ pc'[h] = "idle"
      BY <1>1, <2>1, Answers
    <2>3. OffTheLot(h)
      BY <1>0, <1>1, <2>2 DEF OffTheLot, VehicleAwaits, Creates, Updates, Recalcs, EditAwaits, ExpenseAwaits
    <2>4. PlanTypes'
      BY <1>0, <1>1, <1>2, <2>1 DEF PlanTypes
    <2>5. Undos'
      BY <1>0, <1>1, <2>1, <2>2 DEF Undos, Continues, Elsewhere, FloorAwaits, InventoryInv
    <2>6. QED
      BY <2>3, <2>4, <2>5, FloorInv
  <1>5. QED
    BY <1>3, <1>4

LEMMA ClearFindStep ==
  ASSUME InventoryInv, NEW h \in Handlers, ClearFind(h)
  PROVE  InventoryInv'
  <1>0. pc[h] = "clear" /\ UNCHANGED <<vehicle, expense, plan, undo, applied, doubt>>
    BY DEF ClearFind, inventory
  <1>1. /\ h \in InFlight /\ HandlerTypes /\ PlanTypes /\ DoubtTypes
        /\ Carried("clear", local[h]) /\ local[h].on = Floor /\ Settles(h)
        /\ {"on", "alone"} \subseteq DOMAIN local[h]
        /\ Floor \notin doubt["undo"] => \A g \in Handlers \ {h} : pc[g] \notin FloorAwaits
    BY <1>0, AtFloor DEF FloorAwaits
  <1>2. PlanTypes'
    BY <1>0, <1>1 DEF PlanTypes
  <1>3. CASE undo = None
    <2>1. Answer(h)
      BY <1>3 DEF ClearFind
    <2>2. Continues(h) /\ pc'[h] = "idle"
      BY <1>0, <1>1, <2>1, Answers
    <2>3. OffTheLot(h)
      BY <1>0, <1>1, <2>2 DEF OffTheLot, VehicleAwaits, Creates, Updates, Recalcs, EditAwaits, ExpenseAwaits
    <2>4. Undos'
      BY <1>0, <1>1, <1>3, <2>2 DEF Undos, Continues, Elsewhere, FloorAwaits
    <2>5. QED
      BY <1>2, <2>3, <2>4, FloorInv
  <1>4. CASE undo # None
    <2> DEFINE more == [id |-> undo.id]
    <2>1. Carry(h, "clear_delete", more)
      BY <1>4 DEF ClearFind
    <2>2. PICK s : s = With(more, local[h])
      OBVIOUS
    <2>3. {"on", "alone", "id"} \subseteq DOMAIN s /\ s.on = local[h].on /\ s.alone = local[h].alone
          /\ s.id = undo.id
      BY <1>1, <2>2 DEF With
    <2>4. Carried("clear_delete", s)
      BY <1>1, <2>3 DEF Carried, Fields, Creates, Updates, Recalcs, EditAwaits,
         ExpenseAwaits, Restores, VehicleAwaits, FloorAwaits
    <2>5. DOMAIN more \cap {"on", "alone"} = {}
      OBVIOUS
    <2> HIDE DEF more
    <2>6. Continues(h) /\ pc'[h] = "clear_delete" /\ local'[h] = s
      BY <1>0, <1>1, <2>1, <2>2, <2>4, <2>5, CarriesOn
    <2>7. OffTheLot(h)
      BY <1>0, <1>1, <2>6 DEF OffTheLot, VehicleAwaits, Creates, Updates, Recalcs, EditAwaits, ExpenseAwaits
    <2>8. Undos'
      BY <1>0, <1>1, <1>4, <2>3, <2>6 DEF Undos, Continues, Elsewhere, FloorAwaits
    <2>9. QED
      BY <1>2, <2>7, <2>8, FloorInv
  <1>5. QED
    BY <1>3, <1>4

\* A request that may withdraw the undo and answers.
LEMMA WithdrawStep ==
  ASSUME InventoryInv, NEW h \in Handlers, pc[h] \in {"clear_delete", "expired"}, Answer(h),
         undo' = IF undo # None /\ undo.id = local[h].id THEN None ELSE undo,
         UNCHANGED <<vehicle, expense, plan, applied, doubt>>
  PROVE  InventoryInv'
  <1>1. /\ h \in InFlight /\ HandlerTypes /\ PlanTypes /\ DoubtTypes /\ local[h].on = Floor /\ Settles(h)
        /\ Floor \notin doubt["undo"] => \A g \in Handlers \ {h} : pc[g] \notin FloorAwaits
    BY AtFloor DEF FloorAwaits, Restores
  <1>2. Continues(h) /\ pc'[h] = "idle"
    BY <1>1, Answers
  <1>3. OffTheLot(h)
    BY <1>1, <1>2 DEF OffTheLot, VehicleAwaits, Creates, Updates, Recalcs, EditAwaits, ExpenseAwaits
  <1>4. PlanTypes'
    BY <1>1 DEF PlanTypes
  <1>5. Undos'
    BY <1>1, <1>2 DEF InventoryInv, Undos, Continues, Elsewhere, FloorAwaits
  <1>6. QED
    BY <1>3, <1>4, <1>5, FloorInv

LEMMA SaveUndoStep ==
  ASSUME InventoryInv, NEW h \in Handlers, SaveUndo(h)
  PROVE  InventoryInv'
  <1> DEFINE r == local[h]
  <1>0. /\ pc[h] = "save" /\ Answer(h) /\ UNCHANGED <<vehicle, expense, plan, applied, doubt>>
        /\ undo' = [id |-> IF undo = None THEN begun ELSE undo.id, fresh |-> TRUE,
                    at |-> r.at, plan |-> r.plan, flooring |-> r.flooring]
    BY DEF SaveUndo
  <1>1. /\ h \in InFlight /\ HandlerTypes /\ PlanTypes /\ DoubtTypes /\ applied \in Nat
        /\ Carried("save", r) /\ r.on = Floor /\ Settles(h)
        /\ Floor \notin doubt["undo"] => \A g \in Handlers \ {h} : pc[g] \notin FloorAwaits
    BY <1>0, AtFloor DEF FloorAwaits
  <1>2. Continues(h) /\ pc'[h] = "idle"
    BY <1>0, <1>1, Answers
  <1>3. OffTheLot(h)
    BY <1>0, <1>1, <1>2 DEF OffTheLot, VehicleAwaits, Creates, Updates, Recalcs, EditAwaits, ExpenseAwaits
  <1>4. PICK id \in Nat : id = IF undo = None THEN begun ELSE undo.id
    BY <1>1, RequestsAssumption DEF HandlerTypes, PlanTypes, IsUndo
  <1>5. r.at \in Nat /\ r.plan \in Plan /\ IsSnapshot(r.flooring) /\ r.at <= applied
    BY <1>0, <1>1 DEF Carried, HandlerTypes, InFlight
  <1>6. /\ DOMAIN undo' = {"id", "fresh", "at", "plan", "flooring"}
        /\ undo'.id = id /\ undo'.at = r.at /\ undo'.plan = r.plan /\ undo'.flooring = r.flooring
    BY <1>0, <1>4
  <1>7. IsUndo(undo')
    BY <1>4, <1>5, <1>6 DEF IsUndo
  <1>8. PlanTypes'
    BY <1>0, <1>1, <1>5, <1>6, <1>7 DEF PlanTypes
  <1>9. Undos'
    BY <1>0, <1>1, <1>2, <1>6 DEF InventoryInv, Undos, Continues, Elsewhere, FloorAwaits
  <1>10. QED
    BY <1>3, <1>8, <1>9, FloorInv

LEMMA RestorePlanStep ==
  ASSUME InventoryInv, NEW h \in Handlers, RestorePlan(h)
  PROVE  InventoryInv'
  <1> DEFINE more == [live |-> Live]
  <1>0. /\ pc[h] = "restore_plan" /\ Carry(h, "restore", more)
        /\ UNCHANGED <<vehicle, expense, undo, applied, doubt>>
        /\ plan' \in Plan
    BY DEF RestorePlan, Plan
  <1>1. /\ h \in InFlight /\ HandlerTypes /\ PlanTypes /\ DoubtTypes
        /\ Carried("restore_plan", local[h]) /\ local[h].on = Floor /\ Settles(h)
        /\ Floor \notin doubt["undo"] => \A g \in Handlers \ {h} : pc[g] \notin FloorAwaits
    BY <1>0, AtFloor DEF FloorAwaits, Restores
  <1>2. /\ {"on", "alone", "id", "plan", "flooring"} \subseteq DOMAIN local[h]
        /\ IsSnapshot(local[h].flooring)
    BY <1>1 DEF Carried, Fields, Restores
  <1>3. PICK s : s = With(more, local[h])
    OBVIOUS
  <1>4. /\ {"on", "alone", "id", "plan", "flooring", "live"} \subseteq DOMAIN s
        /\ s.on = local[h].on /\ s.alone = local[h].alone /\ s.flooring = local[h].flooring
    BY <1>2, <1>3 DEF With
  <1>5. Carried("restore", s)
    BY <1>1, <1>2, <1>4 DEF Carried, Fields, Creates, Updates, Recalcs, EditAwaits,
       ExpenseAwaits, Restores, VehicleAwaits, FloorAwaits
  <1>6. DOMAIN more \cap {"on", "alone"} = {}
    OBVIOUS
  <1> HIDE DEF more
  <1>7. Continues(h) /\ pc'[h] = "restore"
    BY <1>0, <1>1, <1>3, <1>5, <1>6, CarriesOn
  <1>8. OffTheLot(h)
    BY <1>0, <1>1, <1>7 DEF OffTheLot, VehicleAwaits, Creates, Updates, Recalcs, EditAwaits, ExpenseAwaits
  <1>9. PlanTypes'
    BY <1>0, <1>1 DEF PlanTypes
  <1>10. Undos'
    BY <1>0, <1>1, <1>7 DEF InventoryInv, Undos, Continues, Elsewhere, FloorAwaits
  <1>11. QED
    BY <1>8, <1>9, <1>10, FloorInv

LEMMA FloorFailStep ==
  ASSUME InventoryInv, NEW h \in Handlers, Fail(h), pc[h] \in FloorAwaits
  PROVE  InventoryInv'
  <1>1. /\ Continues(h) /\ pc'[h] = "idle" /\ UNCHANGED <<vehicle, expense, plan, undo, applied>>
        /\ \A f \in Facts : local[h].on \in doubt'[f] /\ doubt[f] \subseteq doubt'[f]
    BY FailStep
  <1>2. PlanTypes /\ local[h].on = Floor
    BY AtFloor
  <1>3. OffTheLot(h)
    BY <1>1, <1>2 DEF OffTheLot, VehicleAwaits, Creates, Updates, Recalcs, EditAwaits, ExpenseAwaits
  <1>4. PlanTypes' /\ Undos'
    BY <1>1, <1>2 DEF PlanTypes, Undos, Facts
  <1>5. QED
    BY <1>3, <1>4, FloorInv

\* The steps of a request about the floor plan, but the restore of the fees.
FloorSteps(h) ==
  \/ PlanWrite(h) \/ ClearFind(h) \/ ClearDelete(h) \/ SaveUndo(h)
  \/ DeleteExpired(h) \/ RestorePlan(h)
  \/ Fail(h) /\ pc[h] \in FloorAwaits

LEMMA FloorStepInv ==
  ASSUME InventoryInv, NEW h \in Handlers, FloorSteps(h)
  PROVE  InventoryInv'
  <1>1. CASE ClearDelete(h)
    BY <1>1, WithdrawStep DEF ClearDelete
  <1>2. CASE DeleteExpired(h)
    BY <1>2, WithdrawStep DEF DeleteExpired
  <1>3. QED
    BY <1>1, <1>2, PlanWriteStep, ClearFindStep, SaveUndoStep, RestorePlanStep, FloorFailStep
       DEF FloorSteps

-----------------------------------------------------------------------------
(* Requests that begin.                                                    *)

\* Who was in flight still is, at the same await with the same in hand.
LEMMA OthersGoOn ==
  ASSUME HandlerTypes, NEW h \in Handlers, Begins(h), NEW g \in InFlight
  PROVE  /\ g # h /\ g \in Handlers /\ g \in InFlight' /\ pc'[g] = pc[g] /\ Carried(pc[g], local[g])
         /\ \A f \in Fields(pc[g]) \ {"alone"} : local'[g][f] = local[g][f]
         /\ local'[g].on = local[g].on
         /\ local'[g].alone <=> local[g].alone /\ local[g].on # local'[h].on
         /\ \A f \in Facts : local'[g].alone \/ local[g].on \notin doubt'[f] =>
                               local[g].alone \/ local[g].on \notin doubt[f]
  <1>1. g \in Handlers /\ pc[g] # "idle" /\ g # h /\ Carried(pc[g], local[g])
    BY DEF Begins, InFlight, HandlerTypes
  <1>2. pc'[g] = pc[g] /\ Same(local'[g], local[g]) /\ g \in InFlight'
    BY <1>1 DEF Begins, Around, InFlight
  <1>3. \A f \in Fields(pc[g]) \ {"alone"} : local'[g][f] = local[g][f]
    BY <1>1, <1>2, SameCarried
  <1>4. local'[g].on = local[g].on
    BY <1>3 DEF Fields
  <1>5. local'[g].alone <=> local[g].alone /\ local[g].on # local'[h].on
    BY <1>1 DEF Begins
  <1>6. \A f \in Facts : local[g].on \notin doubt'[f] => local[g].on \notin doubt[f]
    BY DEF Begins, Doubt
  <1>7. QED
    BY <1>1, <1>2, <1>3, <1>4, <1>5, <1>6

\* And there is only the new one besides.
LEMMA StartKnows ==
  ASSUME InventoryInv, NEW h \in Handlers, Begins(h), Reading(h, pc'[h], local'[h])
  PROVE  /\ HandlerTypes /\ InFlight' = InFlight \cup {h} /\ h \notin InFlight
         /\ Carried(pc'[h], local'[h]) /\ local'[h].on \in Vehicles \cup {Floor}
         /\ local'[h].alone \in BOOLEAN
         /\ pc'[h] \in VehicleAwaits => local'[h].on \in Vehicles
         /\ Live' = Live /\ DoubtTypes'
         /\ \A f \in Facts : doubt[f] \subseteq doubt'[f]
         /\ ~local'[h].alone => \A f \in Facts : local'[h].on \in doubt'[f]
         /\ \A g \in InFlight : local[g].on = local'[h].on => ~local'[h].alone
  <1>1. /\ HandlerTypes /\ HandlerTypes' /\ DoubtTypes /\ pc[h] = "idle" /\ pc'[h] # "idle"
        /\ UNCHANGED <<vehicle, expense>>
    BY DEF InventoryInv, InventoryTypes, Begins
  <1>2. InFlight' = InFlight \cup {h} /\ h \notin InFlight
    BY <1>1 DEF Begins, Around, InFlight
  <1>3. Carried(pc'[h], local'[h])
    BY <1>1 DEF HandlerTypes
  <1>4. /\ local'[h].on \in Vehicles \cup {Floor} /\ local'[h].alone \in BOOLEAN
        /\ pc'[h] \in VehicleAwaits => local'[h].on \in Vehicles
    BY <1>3 DEF Carried
  <1>5. Live' = Live
    BY <1>1 DEF Live
  <1>6. DoubtTypes' /\ \A f \in Facts : doubt[f] \subseteq doubt'[f]
    BY <1>1, <1>4 DEF DoubtTypes, Begins, Doubt
  <1>7. ~local'[h].alone => \A f \in Facts : local'[h].on \in doubt'[f]
    BY DEF Begins, Doubt
  <1>8. \A g \in InFlight : local[g].on = local'[h].on => ~local'[h].alone
    BY <1>2 DEF Begins, Others
  <1>9. QED
    BY <1>1, <1>2, <1>3, <1>4, <1>5, <1>6, <1>7, <1>8

LEMMA StartOverlaps ==
  ASSUME InventoryInv, NEW h \in Handlers, Begins(h), Reading(h, pc'[h], local'[h])
  PROVE  Overlaps'
  <1>0. /\ HandlerTypes /\ Overlaps /\ InFlight' = InFlight \cup {h}
        /\ \A f \in Facts : doubt[f] \subseteq doubt'[f]
        /\ ~local'[h].alone => \A f \in Facts : local'[h].on \in doubt'[f]
        /\ \A g \in InFlight : local[g].on = local'[h].on => ~local'[h].alone
    BY StartKnows DEF InventoryInv
  <1>1. ASSUME NEW g \in InFlight', NEW k \in InFlight', g # k, local'[g].on = local'[k].on
        PROVE  ~local'[k].alone /\ \A f \in Facts : local'[k].on \in doubt'[f]
    <2>1. CASE k = h
      BY <1>0, <1>1, <2>1, OthersGoOn
    <2>2. CASE g = h
      BY <1>0, <1>1, <2>2, OthersGoOn
    <2>3. CASE g # h /\ k # h
      <3>1. local[g].on = local[k].on /\ local'[k].on = local[k].on /\ g \in InFlight /\ k \in InFlight
        BY <1>0, <1>1, <2>3, OthersGoOn
      <3>2. ~local[k].alone /\ \A f \in Facts : local[k].on \in doubt[f]
        BY <1>0, <1>1, <3>1 DEF Overlaps
      <3>3. QED
        BY <1>0, <3>1, <3>2, OthersGoOn
    <2>4. QED
      BY <2>1, <2>2, <2>3
  <1>2. ASSUME NEW g \in InFlight', ~local'[g].alone
        PROVE  local'[g].on \in doubt'["total"]
    <2>1. CASE g = h
      BY <1>0, <1>2, <2>1 DEF Facts
    <2>2. CASE g # h /\ local[g].on = local'[h].on
      BY <1>0, <2>2, OthersGoOn DEF Facts
    <2>3. CASE g # h /\ local[g].on # local'[h].on
      <3>1. g \in InFlight /\ ~local[g].alone /\ local'[g].on = local[g].on
        BY <1>0, <1>2, <2>3, OthersGoOn
      <3>2. QED
        BY <1>0, <3>1 DEF Overlaps, Facts
    <2>4. QED
      BY <2>1, <2>2, <2>3
  <1>3. QED
    BY <1>1, <1>2 DEF Overlaps

LEMMA StartCreations ==
  ASSUME InventoryInv, NEW h \in Handlers, Begins(h), Reading(h, pc'[h], local'[h])
  PROVE  Creations'
  <1>0. /\ HandlerTypes /\ Creations /\ InFlight' = InFlight \cup {h} /\ h \notin InFlight
        /\ Carried(pc'[h], local'[h])
        /\ UNCHANGED <<vehicle, expense>>
    BY StartKnows DEF InventoryInv, Begins
  <1>1. ASSUME NEW g \in InFlight', pc'[g] \in Creates
        PROVE  /\ vehicle'[local'[g].on].row = "none"
               /\ \A k \in InFlight' : local'[k].on = local'[g].on => k = g
    <2>1. CASE g = h
      <3>1. vehicle[local'[h].on].row = "none" /\ Others(h, local'[h].on) = {}
        BY <1>1, <2>1 DEF Reading
      <3>2. \A k \in InFlight : local'[k].on # local'[h].on
        BY <1>0, <3>1, OthersGoOn DEF Others
      <3>3. QED
        BY <1>0, <2>1, <3>1, <3>2
    <2>2. CASE g # h
      <3>1. /\ g \in InFlight /\ pc[g] \in Creates /\ local'[g].on = local[g].on
            /\ local[g].on \in Vehicles
        BY <1>0, <1>1, <2>2, OthersGoOn DEF Carried, VehicleAwaits
      <3>2. vehicle[local[g].on].row = "none" /\ \A k \in InFlight : local[k].on = local[g].on => k = g
        BY <1>0, <3>1 DEF Creations
      <3>3. \A k \in InFlight : local'[k].on = local'[g].on => k = g
        BY <1>0, <3>1, <3>2, OthersGoOn
      <3>4. local'[h].on # local[g].on
        <4>1. SUFFICES ASSUME local'[h].on = local[g].on  PROVE  FALSE
          OBVIOUS
        <4>2. pc'[h] \in VehicleAwaits
          BY <1>0, <3>1, <4>1, InventoryAssumption DEF Carried
        <4>3. pc'[h] \in Creates
          BY <3>2, <4>1, <4>2 DEF Reading
        <4>4. Others(h, local'[h].on) = {}
          BY <4>3 DEF Reading
        <4>5. QED
          BY <1>0, <3>1, <4>1, <4>4 DEF Others
      <3>5. QED
        BY <1>0, <3>1, <3>2, <3>3, <3>4
    <2>3. QED
      BY <2>1, <2>2
  <1>2. ASSUME NEW g \in InFlight', pc'[g] \in VehicleAwaits \ Creates
        PROVE  vehicle'[local'[g].on].row # "none"
    <2>1. CASE g = h
      BY <1>0, <1>2, <2>1 DEF Reading
    <2>2. CASE g # h
      <3>1. g \in InFlight /\ pc[g] \in VehicleAwaits \ Creates /\ local'[g].on = local[g].on
        BY <1>0, <1>2, <2>2, OthersGoOn
      <3>2. QED
        BY <1>0, <3>1 DEF Creations
    <2>3. QED
      BY <2>1, <2>2
  <1>3. QED
    BY <1>0, <1>1, <1>2 DEF Creations

LEMMA StartClaimants ==
  ASSUME InventoryInv, NEW h \in Handlers, Begins(h), Reading(h, pc'[h], local'[h])
  PROVE  Claimants'
  <1>0. /\ HandlerTypes /\ Claimants /\ InFlight' = InFlight \cup {h} /\ h \notin InFlight
        /\ Carried(pc'[h], local'[h])
        /\ pc'[h] \in VehicleAwaits => local'[h].on \in Vehicles
        /\ UNCHANGED <<vehicle, expense>> /\ None \notin Vehicles
    BY StartKnows, InventoryAssumption DEF InventoryInv, Begins
  <1>1. ASSUME NEW g \in Handlers \ {h}, Claims(g)'
        PROVE  /\ Claims(g) /\ local'[g].expense = local[g].expense /\ local'[g].op = local[g].op
               /\ local'[g].on = local[g].on
    <2>1. g \in InFlight
      BY <1>0, <1>1 DEF Claims, ExpenseAwaits, InFlight
    <2>2. pc[g] \in ExpenseAwaits
      BY <1>0, <1>1, <2>1, OthersGoOn DEF Claims
    <2>3. {"on", "expense", "op"} \subseteq Fields(pc[g]) \ {"alone"}
      BY <2>2 DEF Fields
    <2>4. QED
      BY <1>0, <2>1, <2>2, <2>3, OthersGoOn DEF Claims
  <1>2. ASSUME Claims(h)'
        PROVE  IF local'[h].op = "create"
               THEN expense[local'[h].expense].on = None /\ local'[h].expense \notin Claimed
               ELSE expense[local'[h].expense].on = local'[h].on /\ local'[h].on # None
    <2>1. pc'[h] = "expense" /\ pc'[h] \in VehicleAwaits
      BY <1>2 DEF Claims, Reading, ExpenseAwaits, StartAwaits, Creates, EditAwaits, VehicleAwaits
    <2>2. QED
      BY <1>0, <2>1 DEF Reading
  <1>3. ASSUME NEW g \in Handlers, Claims(g)
        PROVE  local[g].expense \in Claimed
    BY <1>3 DEF Claimed, Claims, ExpenseAwaits
  <1>4. ASSUME NEW g \in Handlers, Claims(g)'
        PROVE  IF local'[g].op = "create"
               THEN /\ expense'[local'[g].expense].on = None
                    /\ \A k \in Handlers \ {g} : Claims(k)' => local'[k].expense # local'[g].expense
               ELSE expense'[local'[g].expense].on = local'[g].on
    <2>1. CASE g = h
      BY <1>0, <1>1, <1>2, <1>3, <1>4, <2>1
    <2>2. CASE g # h
      <3>1. Claims(g) /\ local'[g].expense = local[g].expense /\ local'[g].op = local[g].op
            /\ local'[g].on = local[g].on
        BY <1>1, <1>4, <2>2
      <3>2. CASE local[g].op = "create"
        <4>1. /\ expense[local[g].expense].on = None
              /\ \A k \in Handlers \ {g} : Claims(k) => local[k].expense # local[g].expense
          BY <1>0, <3>1, <3>2 DEF Claimants
        <4>2. \A k \in Handlers \ {g, h} : Claims(k)' => local'[k].expense # local'[g].expense
          BY <1>1, <3>1, <4>1
        <4>3. Claims(h)' => local'[h].expense # local'[g].expense
          BY <1>2, <1>3, <3>1, <4>1
        <4>4. QED
          BY <1>0, <3>1, <3>2, <4>1, <4>2, <4>3
      <3>3. CASE local[g].op # "create"
        BY <1>0, <3>1, <3>3 DEF Claimants
      <3>4. QED
        BY <3>2, <3>3
    <2>3. QED
      BY <2>1, <2>2
  <1>5. QED
    BY <1>4 DEF Claimants

LEMMA StartTotals ==
  ASSUME InventoryInv, NEW h \in Handlers, Begins(h), Reading(h, pc'[h], local'[h])
  PROVE  Totals'
  <1>0. /\ HandlerTypes /\ Totals /\ InFlight' = InFlight \cup {h} /\ h \notin InFlight
        /\ Live' = Live /\ UNCHANGED <<vehicle, expense>>
        /\ \A f \in Facts : doubt[f] \subseteq doubt'[f]
        /\ pc'[h] \notin {"total", "commit"}
    BY StartKnows DEF InventoryInv, Begins, Reading, StartAwaits, Creates, EditAwaits
  <1>1. ASSUME NEW g \in InFlight', pc'[g] = "total", local'[g].alone
        PROVE  local'[g].total = Invested(vehicle'[local'[g].on], expense', local'[g].on)
    <2>1. g \in InFlight /\ pc[g] = "total" /\ local[g].alone /\ local'[g].on = local[g].on
      BY <1>0, <1>1, OthersGoOn
    <2>2. local'[g].total = local[g].total
      BY <1>0, <2>1, OthersGoOn DEF Fields
    <2>3. QED
      BY <1>0, <2>1, <2>2 DEF Totals
  <1>2. ASSUME NEW g \in InFlight', pc'[g] = "commit", local'[g].alone
        PROVE  LET r == local'[g] IN
               r.total = Invested(vehicle'[r.on], [expense' EXCEPT ![r.expense] = Written(local[g])'], r.on)
    <2>1. g \in InFlight /\ pc[g] = "commit" /\ local[g].alone /\ local'[g].on = local[g].on
      BY <1>0, <1>2, OthersGoOn
    <2>2. {"total", "expense", "op", "cost"} \subseteq Fields(pc[g]) \ {"alone"}
      BY <2>1 DEF Fields, ExpenseAwaits
    <2>3. /\ local'[g].total = local[g].total /\ local'[g].expense = local[g].expense
          /\ local'[g].op = local[g].op /\ local'[g].cost = local[g].cost
      BY <1>0, <2>1, <2>2, OthersGoOn
    <2>4. Written(local[g])' = Written(local[g])
      BY <1>0, <2>1, <2>3 DEF Written
    <2>5. QED
      BY <1>0, <2>1, <2>3, <2>4 DEF Totals
  <1>3. ASSUME NEW v \in Live', v \notin doubt'["total"],
               \A g \in InFlight' : local'[g].on = v => pc'[g] \in Apart
        PROVE  vehicle'[v].total = Invested(vehicle'[v], expense', v)
    <2>1. v \in Live \ doubt["total"]
      BY <1>0, <1>3 DEF Facts
    <2>2. \A g \in InFlight : local[g].on = v => pc[g] \in Apart
      BY <1>0, <1>3, OthersGoOn
    <2>3. QED
      BY <1>0, <2>1, <2>2 DEF Totals
  <1>4. QED
    BY <1>1, <1>2, <1>3 DEF Totals

LEMMA StartSales ==
  ASSUME InventoryInv, NEW h \in Handlers, Begins(h), Reading(h, pc'[h], local'[h])
  PROVE  Sales'
  <1>0. /\ HandlerTypes /\ Sales /\ InFlight' = InFlight \cup {h} /\ h \notin InFlight
        /\ Live' = Live /\ UNCHANGED <<vehicle, expense>>
        /\ \A f \in Facts : doubt[f] \subseteq doubt'[f]
        /\ pc'[h] \notin {"deal", "jacket"} /\ pc'[h] \notin Recalcs
    BY StartKnows DEF InventoryInv, Begins, Reading, StartAwaits, Creates, EditAwaits, Recalcs
  <1>1. ASSUME NEW g \in InFlight, NEW f \in Facts, Knows(g, f)'
        PROVE  Knows(g, f)
    BY <1>0, <1>1, OthersGoOn DEF Knows
  <1>2. ASSUME NEW g \in InFlight
        PROVE  Repricing(g)' <=> Repricing(g)
    <2>1. pc'[g] = pc[g]
      BY <1>0, OthersGoOn
    <2>2. pc[g] \in {"deal", "jacket"} => "patch" \in Fields(pc[g]) \ {"alone"}
      BY DEF Fields, Updates
    <2>3. pc[g] \in {"deal", "jacket"} => local'[g].patch = local[g].patch
      BY <1>0, <2>2, OthersGoOn
    <2>4. QED
      BY <2>1, <2>3 DEF Repricing
  <1>3. ASSUME NEW v \in Live', v \notin doubt'["date"]
        PROVE  DateAgrees(vehicle'[v])
    BY <1>0, <1>3 DEF Sales, Facts
  <1>4. ASSUME NEW v \in Live', v \notin doubt'["price"],
               \A g \in InFlight' : local'[g].on = v => ~Repricing(g)'
        PROVE  PriceAgrees(vehicle'[v])
    <2>1. \A g \in InFlight : local[g].on = v => ~Repricing(g)
      BY <1>0, <1>2, <1>4, OthersGoOn
    <2>2. QED
      BY <1>0, <1>4, <2>1 DEF Sales, Facts
  <1>5. ASSUME NEW g \in InFlight', pc'[g] \in {"status", "wholesaleStatus"}
        PROVE  /\ Knows(g, "date")' => local'[g].soldAt = vehicle'[local'[g].on].soldAt
               /\ Knows(g, "price")' => local'[g].old = vehicle'[local'[g].on].price
    <2>1. CASE g = h
      BY <1>0, <1>5, <2>1 DEF Reading
    <2>2. CASE g # h
      <3>1. g \in InFlight /\ pc'[g] = pc[g] /\ local'[g].on = local[g].on
        BY <1>0, <2>2, OthersGoOn
      <3>2. {"soldAt", "old"} \subseteq Fields(pc[g]) \ {"alone"}
        BY <1>5, <3>1 DEF Fields, EditAwaits
      <3>3. local'[g].soldAt = local[g].soldAt /\ local'[g].old = local[g].old
        BY <1>0, <3>1, <3>2, OthersGoOn
      <3>4. QED
        BY <1>0, <1>1, <1>5, <3>1, <3>3 DEF Sales, Facts
    <2>3. QED
      BY <2>1, <2>2
  <1>6. ASSUME NEW g \in InFlight', Repricing(g)', Knows(g, "price")'
        PROVE  /\ vehicle'[local'[g].on].price = local'[g].patch.price
               /\ pc'[g] = "jacket" => vehicle'[local'[g].on].deal = local'[g].patch.price
    <2>1. g \in InFlight
      BY <1>0, <1>6 DEF Repricing
    <2>2. /\ Repricing(g) /\ Knows(g, "price") /\ pc'[g] = pc[g] /\ local'[g].on = local[g].on
      BY <1>0, <1>1, <1>2, <1>6, <2>1, OthersGoOn DEF Facts
    <2>3. "patch" \in Fields(pc[g]) \ {"alone"}
      BY <2>2 DEF Repricing, Fields, Updates
    <2>4. local'[g].patch = local[g].patch
      BY <1>0, <2>1, <2>3, OthersGoOn
    <2>5. QED
      BY <1>0, <2>1, <2>2, <2>4 DEF Sales
  <1>7. ASSUME NEW g \in InFlight', pc'[g] \in Recalcs, "price" \in local'[g].settles, local'[g].alone
        PROVE  PriceAgrees(vehicle'[local'[g].on])
    <2>1. g \in InFlight
      BY <1>0, <1>7
    <2>2. pc[g] \in Recalcs /\ local'[g].on = local[g].on /\ local[g].alone
      BY <1>0, <1>7, <2>1, OthersGoOn
    <2>3. "settles" \in Fields(pc[g]) \ {"alone"}
      BY <2>2 DEF Fields
    <2>4. local'[g].settles = local[g].settles
      BY <1>0, <2>1, <2>3, OthersGoOn
    <2>5. QED
      BY <1>0, <1>7, <2>1, <2>2, <2>4 DEF Sales
  <1>8. QED
    BY <1>3, <1>4, <1>5, <1>6, <1>7 DEF Sales

LEMMA StartUndos ==
  ASSUME InventoryInv, NEW h \in Handlers, Begins(h), Reading(h, pc'[h], local'[h])
  PROVE  Undos'
  <1>0. /\ HandlerTypes /\ Undos /\ InFlight' = InFlight \cup {h} /\ h \notin InFlight
        /\ UNCHANGED <<undo, applied>> /\ pc'[h] # "clear_delete"
        /\ \A f \in Facts : doubt[f] \subseteq doubt'[f]
    BY StartKnows DEF InventoryInv, Begins, Reading, StartAwaits, Creates, EditAwaits
  <1>1. SUFFICES ASSUME Floor \notin doubt'["undo"]
                 PROVE  /\ undo' # None => undo'.at = applied' \/ \E g \in Handlers : pc'[g] \in {"clear", "clear_delete"}
                        /\ \A g \in Handlers : pc'[g] = "save" => local'[g].at = applied'
                        /\ \A g \in Handlers : pc'[g] = "clear_delete" => undo' = None \/ undo'.id = local'[g].id
    BY DEF Undos
  <1>2. Floor \notin doubt["undo"]
    BY <1>0, <1>1 DEF Facts
  <1>3. undo # None => undo.at = applied \/ \E g \in Handlers : pc'[g] \in {"clear", "clear_delete"}
    <2>1. ASSUME NEW g \in Handlers, pc[g] \in {"clear", "clear_delete"}
          PROVE  pc'[g] = pc[g]
      BY <1>0, <2>1, OthersGoOn DEF InFlight
    <2>2. QED
      BY <1>0, <1>2, <2>1 DEF Undos
  <1>4. ASSUME NEW g \in Handlers, pc'[g] = "save"
        PROVE  local'[g].at = applied'
    <2>1. CASE g = h
      BY <1>0, <1>4, <2>1 DEF Reading
    <2>2. CASE g # h
      <3>1. g \in InFlight /\ pc[g] = "save"
        BY <1>0, <1>4, <2>2, OthersGoOn DEF InFlight
      <3>2. local'[g].at = local[g].at
        BY <1>0, <3>1, OthersGoOn DEF Fields
      <3>3. QED
        BY <1>0, <1>2, <3>1, <3>2 DEF Undos
    <2>3. QED
      BY <2>1, <2>2
  <1>5. ASSUME NEW g \in Handlers, pc'[g] = "clear_delete"
        PROVE  undo' = None \/ undo'.id = local'[g].id
    <2>1. g \in InFlight /\ pc[g] = "clear_delete"
      BY <1>0, <1>5, OthersGoOn DEF InFlight
    <2>2. local'[g].id = local[g].id
      BY <1>0, <2>1, OthersGoOn DEF Fields
    <2>3. QED
      BY <1>0, <1>2, <2>1, <2>2 DEF Undos
  <1>6. QED
    BY <1>0, <1>3, <1>4, <1>5

LEMMA StartInv ==
  ASSUME InventoryInv, NEW h \in Handlers, Starts(h)
  PROVE  InventoryInv'
  <1>1. InventoryTypes
    BY DEF InventoryInv
  <1>2. Begins(h) /\ Reading(h, pc'[h], local'[h])
    BY <1>1, StartStep
  <1>3. HandlerTypes' /\ DoubtTypes' /\ UNCHANGED <<vehicle, expense, plan, undo, applied>>
    BY <1>2, StartKnows DEF Begins
  <1>4. RowTypes' /\ PlanTypes' /\ VinsUnique'
    BY <1>1, <1>3 DEF InventoryTypes, RowTypes, PlanTypes, InventoryInv, VinsUnique, Live
  <1>5. Overlaps' /\ Creations' /\ Claimants' /\ Totals' /\ Sales' /\ Undos'
    BY <1>2, StartOverlaps, StartCreations, StartClaimants, StartTotals, StartSales, StartUndos
  <1>6. QED
    BY <1>3, <1>4, <1>5 DEF InventoryInv, InventoryTypes

-----------------------------------------------------------------------------
(* The restore of the flooring fees, which works on vehicles of others.    *)

\* The fees of the vehicles in touched are written; the request h answers, and
\* whoever works on one of them has not worked alone.
Restored(h, touched) ==
  /\ touched \subseteq Vehicles /\ h \in InFlight /\ local[h].on = Floor
  /\ HandlerTypes' /\ DoubtTypes' /\ RowTypes' /\ expense' = expense
  /\ InFlight' = InFlight \ {h}
  /\ \A g \in InFlight \ {h} : Same(local'[g], local[g]) /\ pc'[g] = pc[g]
  /\ \A g \in InFlight \ {h} : local'[g].alone <=> local[g].alone /\ local[g].on \notin touched
  /\ \A v \in Vehicles : \A f \in DOMAIN Absent \ {"flooring"} : vehicle'[v][f] = vehicle[v][f]
  /\ \A v \in Vehicles \ touched : vehicle'[v] = vehicle[v]
  /\ \A f \in Facts : doubt[f] \subseteq doubt'[f]
  /\ touched \subseteq doubt'["total"]

LEMMA RestoreVehiclesStep ==
  ASSUME InventoryInv, NEW h \in Handlers, RestoreVehicles(h)
  PROVE  /\ \E touched : Restored(h, touched)
         /\ PlanTypes' /\ Undos'
  <1> DEFINE r == local[h]
             gone == undo = None \/ undo.id # r.id
             touched == IF gone THEN {} ELSE r.live \cap DOMAIN r.flooring
             Jostled(g) == [local[g] EXCEPT !.alone = FALSE]
             Paid(v) == [vehicle[v] EXCEPT !.flooring = r.flooring[v]]
  <1>0. /\ pc[h] = "restore" /\ pc' = [pc EXCEPT ![h] = "idle"]
        /\ vehicle' = [v \in Vehicles |-> IF v \in touched THEN Paid(v) ELSE vehicle[v]]
        /\ IF gone THEN UNCHANGED undo /\ Doubt({"undo"}, {Floor})
           ELSE undo' = None /\ Doubt({"total"}, touched)
        /\ local' = [g \in Handlers |-> IF g = h THEN Nothing
                       ELSE IF local[g].on \in touched THEN Jostled(g) ELSE local[g]]
        /\ UNCHANGED <<expense, plan, applied, begun>>
    BY DEF RestoreVehicles
  <1>1. /\ h \in InFlight /\ HandlerTypes /\ PlanTypes /\ DoubtTypes /\ Carried("restore", r)
        /\ r.on = Floor /\ RowTypes
        /\ Floor \notin doubt["undo"] => \A g \in Handlers \ {h} : pc[g] \notin FloorAwaits
    BY <1>0, AtFloor DEF FloorAwaits, Restores, InventoryInv, InventoryTypes
  <1>2. IsSnapshot(r.flooring)
    BY <1>1 DEF Carried, Restores
  <1>3. touched \subseteq Vehicles /\ touched \subseteq DOMAIN r.flooring /\ (gone => touched = {})
    BY <1>2 DEF IsSnapshot
  <1>4. /\ DoubtTypes' /\ \A f \in Facts : doubt[f] \subseteq doubt'[f]
        /\ touched \subseteq doubt'["total"]
        /\ gone => undo' = undo /\ Floor \in doubt'["undo"]
        /\ ~gone => undo' = None
    <2>1. CASE gone
      BY <1>0, <1>1, <1>3, <2>1, DoubtStep DEF Facts, Settles
    <2>2. CASE ~gone
      BY <1>0, <1>1, <1>3, <2>2, DoubtStep DEF Facts, Settles
    <2>3. QED
      BY <2>1, <2>2
  <1> HIDE DEF gone, touched
  <1>5. ASSUME NEW v \in touched
        PROVE  /\ Paid(v) \in VehicleRow
               /\ \A f \in DOMAIN Absent \ {"flooring"} : Paid(v)[f] = vehicle[v][f]
    <2>1. vehicle[v] \in VehicleRow /\ r.flooring[v] \in Nat
      BY <1>1, <1>2, <1>3, <1>5 DEF RowTypes, IsSnapshot
    <2>2. QED
      BY <2>1 DEF VehicleRow, Absent
  <1>6. /\ \A v \in touched : vehicle'[v] = Paid(v)
        /\ \A v \in Vehicles \ touched : vehicle'[v] = vehicle[v]
        /\ DOMAIN vehicle' = Vehicles
    BY <1>0, <1>3
  <1> HIDE DEF Paid
  <1>7. /\ RowTypes'
        /\ \A v \in Vehicles : \A f \in DOMAIN Absent \ {"flooring"} : vehicle'[v][f] = vehicle[v][f]
    <2>1. \A v \in Vehicles : vehicle'[v] \in VehicleRow
      BY <1>1, <1>5, <1>6 DEF RowTypes
    <2>2. vehicle' = [v \in Vehicles |-> vehicle'[v]]
      BY <1>0
    <2>3. RowTypes'
      BY <1>0, <1>1, <2>1, <2>2 DEF RowTypes
    <2>4. QED
      BY <1>5, <1>6, <2>3
  <1>8. ASSUME NEW g \in InFlight \ {h}
        PROVE  /\ Same(local'[g], local[g]) /\ pc'[g] = pc[g] /\ g \in InFlight'
               /\ local'[g].alone <=> local[g].alone /\ local[g].on \notin touched
    <2>1. /\ g \in Handlers /\ Carried(pc[g], local[g]) /\ "alone" \in DOMAIN local[g]
          /\ local[g].alone \in BOOLEAN /\ pc[g] # "idle"
      BY <1>1, InFlightTypes DEF Carried, Fields
    <2>2. pc'[g] = pc[g] /\ g \in InFlight'
      BY <1>0, <1>1, <2>1 DEF InFlight, HandlerTypes
    <2>3. Same(Jostled(g), local[g]) /\ ~Jostled(g).alone /\ Same(local[g], local[g])
      BY <2>1 DEF Same
    <2>4. local'[g] = IF local[g].on \in touched THEN Jostled(g) ELSE local[g]
      BY <1>0, <2>1
    <2> HIDE DEF Jostled
    <2>5. CASE local[g].on \in touched
      BY <2>2, <2>3, <2>4, <2>5
    <2>6. CASE local[g].on \notin touched
      <3>1. local'[g] = local[g]
        BY <2>4, <2>6
      <3>2. QED
        BY <2>2, <2>3, <2>6, <3>1
    <2>7. QED
      BY <2>5, <2>6
  <1>9. HandlerTypes'
    <2>1. pc' \in [Handlers -> VehicleAwaits \cup FloorAwaits \cup {"idle"}] /\ pc'[h] = "idle"
      BY <1>0, <1>1 DEF HandlerTypes
    <2>2. DOMAIN local' = Handlers /\ begun' \in 0..MaxRequests
      BY <1>0, <1>1 DEF HandlerTypes
    <2>3. ASSUME NEW g \in Handlers
          PROVE  /\ IF pc'[g] = "idle" THEN local'[g] = Nothing ELSE Carried(pc'[g], local'[g])
                 /\ pc'[g] = "save" => local'[g].at <= applied'
      <3>1. CASE g = h
        BY <1>0, <2>1, <3>1
      <3>2. CASE g # h /\ pc[g] = "idle"
        <4>1. pc'[g] = "idle" /\ local[g] = Nothing
          BY <1>0, <1>1, <3>2 DEF HandlerTypes
        <4>2. local[g].on \notin touched
          BY <1>3, <4>1, InventoryAssumption DEF Nothing
        <4>3. QED
          BY <1>0, <3>2, <4>1, <4>2
      <3>3. CASE g # h /\ pc[g] # "idle"
        <4>1. g \in InFlight /\ pc'[g] = pc[g] /\ Same(local'[g], local[g]) /\ Carried(pc[g], local[g])
          BY <1>1, <1>8, <3>3 DEF InFlight, HandlerTypes
        <4>2. Carried(pc'[g], local'[g])
          BY <4>1, SameCarried
        <4>3. pc[g] = "save" => local'[g].at = local[g].at
          BY <4>1, SameCarried DEF Fields
        <4>4. QED
          BY <1>0, <1>1, <3>3, <4>1, <4>2, <4>3 DEF HandlerTypes
      <3>4. QED
        BY <3>1, <3>2, <3>3
    <2>4. QED
      BY <2>1, <2>2, <2>3 DEF HandlerTypes
  <1>10. InFlight' = InFlight \ {h}
    <2>1. h \notin InFlight' /\ \A g \in InFlight' : g \in InFlight
      BY <1>0, <1>1 DEF InFlight, HandlerTypes
    <2>2. QED
      BY <1>8, <2>1
  <1>11. Restored(h, touched)
    BY <1>0, <1>1, <1>3, <1>4, <1>6, <1>7, <1>8, <1>9, <1>10 DEF Restored
  <1>12. PlanTypes'
    BY <1>0, <1>1, <1>4 DEF PlanTypes
  <1>13. Undos'
    <2>1. CASE gone
      BY <1>4, <2>1 DEF Undos
    <2>2. CASE ~gone
      <3>1. SUFFICES ASSUME Floor \notin doubt'["undo"], NEW g \in Handlers, pc'[g] \in {"save", "clear_delete"}
                     PROVE  FALSE
        BY <1>4, <2>2 DEF Undos
      <3>2. Floor \notin doubt["undo"]
        BY <1>4, <3>1 DEF Facts
      <3>3. g # h /\ pc[g] = pc'[g]
        BY <1>0, <1>1, <3>1 DEF HandlerTypes
      <3>4. QED
        BY <1>1, <3>1, <3>2, <3>3 DEF FloorAwaits
    <2>3. QED
      BY <2>1, <2>2
  <1>14. QED
    BY <1>11, <1>12, <1>13

\* What the others carry is what they carried.
LEMMA OthersKeep ==
  ASSUME HandlerTypes, NEW h, NEW touched, Restored(h, touched), NEW g \in InFlight'
  PROVE  /\ g \in InFlight \ {h} /\ pc'[g] = pc[g] /\ Carried(pc[g], local[g])
         /\ \A f \in Fields(pc[g]) \ {"alone"} : local'[g][f] = local[g][f]
         /\ local'[g].on = local[g].on
         /\ local'[g].alone <=> local[g].alone /\ local[g].on \notin touched
         /\ \A f \in Facts : local'[g].alone \/ local[g].on \notin doubt'[f] =>
                               local[g].alone \/ local[g].on \notin doubt[f]
         /\ pc[g] \in VehicleAwaits => local[g].on \in Vehicles
  <1>1. g \in InFlight \ {h} /\ pc'[g] = pc[g] /\ Same(local'[g], local[g])
    BY DEF Restored
  <1>2. Carried(pc[g], local[g]) /\ (pc[g] \in VehicleAwaits => local[g].on \in Vehicles)
    BY <1>1, InFlightTypes
  <1>3. \A f \in Fields(pc[g]) \ {"alone"} : local'[g][f] = local[g][f]
    BY <1>1, <1>2, SameCarried
  <1>4. local'[g].on = local[g].on
    BY <1>3 DEF Fields
  <1>5. /\ local'[g].alone <=> local[g].alone /\ local[g].on \notin touched
        /\ \A f \in Facts : local[g].on \notin doubt'[f] => local[g].on \notin doubt[f]
    BY <1>1 DEF Restored
  <1>6. QED
    BY <1>1, <1>2, <1>3, <1>4, <1>5

LEMMA RestoredRows ==
  ASSUME NEW h, NEW touched, Restored(h, touched)
  PROVE  /\ Live' = Live
         /\ \A v \in Vehicles : LET row == vehicle'[v]  old == vehicle[v] IN
              /\ row.row = old.row /\ row.vin = old.vin /\ row.status = old.status
              /\ row.soldAt = old.soldAt /\ row.price = old.price /\ row.deal = old.deal
              /\ row.jacket = old.jacket
  <1>1. \A v \in Vehicles : LET row == vehicle'[v]  old == vehicle[v] IN
              /\ row.row = old.row /\ row.vin = old.vin /\ row.status = old.status
              /\ row.soldAt = old.soldAt /\ row.price = old.price /\ row.deal = old.deal
              /\ row.jacket = old.jacket
    BY DEF Restored, Absent
  <1>2. QED
    BY <1>1 DEF Live

LEMMA RestoredOverlaps ==
  ASSUME InventoryInv, NEW h, NEW touched, Restored(h, touched)
  PROVE  Overlaps'
  <1>0. /\ HandlerTypes /\ Overlaps
        /\ \A f \in Facts : doubt[f] \subseteq doubt'[f]
        /\ touched \subseteq doubt'["total"]
    BY DEF InventoryInv, InventoryTypes, Restored
  <1>1. ASSUME NEW g \in InFlight', NEW k \in InFlight', g # k, local'[g].on = local'[k].on
        PROVE  ~local'[k].alone /\ \A f \in Facts : local'[k].on \in doubt'[f]
    <2>1. g \in InFlight /\ k \in InFlight /\ local[g].on = local[k].on /\ local'[k].on = local[k].on
      BY <1>0, <1>1, OthersKeep
    <2>2. ~local[k].alone /\ \A f \in Facts : local[k].on \in doubt[f]
      BY <1>0, <1>1, <2>1 DEF Overlaps
    <2>3. QED
      BY <1>0, <2>1, <2>2, OthersKeep
  <1>2. ASSUME NEW g \in InFlight', ~local'[g].alone
        PROVE  local'[g].on \in doubt'["total"]
    <2>1. g \in InFlight /\ local'[g].on = local[g].on /\ (~local[g].alone \/ local[g].on \in touched)
      BY <1>0, <1>2, OthersKeep
    <2>2. QED
      BY <1>0, <2>1 DEF Overlaps, Facts
  <1>3. QED
    BY <1>1, <1>2 DEF Overlaps

LEMMA RestoredCreations ==
  ASSUME InventoryInv, NEW h, NEW touched, Restored(h, touched)
  PROVE  Creations' /\ VinsUnique' /\ Claimants'
  <1>0. /\ HandlerTypes /\ RowTypes /\ Creations /\ VinsUnique /\ Claimants /\ expense' = expense
        /\ Live' = Live
        /\ \A v \in Vehicles : vehicle'[v].row = vehicle[v].row /\ vehicle'[v].vin = vehicle[v].vin
    BY RestoredRows DEF InventoryInv, InventoryTypes, Restored
  <1>1. ASSUME NEW g \in InFlight', pc'[g] \in Creates
        PROVE  /\ vehicle'[local'[g].on].row = "none"
               /\ \A k \in InFlight' : local'[k].on = local'[g].on => k = g
    <2>1. /\ g \in InFlight /\ pc[g] \in Creates /\ local'[g].on = local[g].on
          /\ local[g].on \in Vehicles
      BY <1>0, <1>1, OthersKeep DEF VehicleAwaits
    <2>2. \A k \in InFlight' : k \in InFlight /\ local'[k].on = local[k].on
      BY <1>0, OthersKeep
    <2>3. QED
      BY <1>0, <2>1, <2>2 DEF Creations
  <1>2. ASSUME NEW g \in InFlight', pc'[g] \in VehicleAwaits \ Creates
        PROVE  vehicle'[local'[g].on].row # "none"
    <2>1. /\ g \in InFlight /\ pc[g] \in VehicleAwaits \ Creates /\ local'[g].on = local[g].on
          /\ local[g].on \in Vehicles
      BY <1>0, <1>2, OthersKeep
    <2>2. QED
      BY <1>0, <2>1 DEF Creations
  <1>3. ASSUME NEW e \in Expenses, expense'[e].on # None
        PROVE  vehicle'[expense'[e].on].row # "none"
    BY <1>0, <1>3 DEF Creations, RowTypes, ExpenseRow
  <1>4. VinsUnique'
    BY <1>0 DEF VinsUnique, Live
  <1>5. ASSUME NEW g \in Handlers, Claims(g)'
        PROVE  /\ Claims(g) /\ local'[g].expense = local[g].expense /\ local'[g].op = local[g].op
               /\ local'[g].on = local[g].on
    <2>1. g \in InFlight'
      BY <1>5 DEF Claims, ExpenseAwaits, InFlight
    <2>2. pc[g] \in ExpenseAwaits /\ local'[g].on = local[g].on
      BY <1>0, <1>5, <2>1, OthersKeep DEF Claims
    <2>3. {"expense", "op"} \subseteq Fields(pc[g]) \ {"alone"}
      BY <2>2 DEF Fields
    <2>4. QED
      BY <1>0, <2>1, <2>2, <2>3, OthersKeep DEF Claims
  <1>6. Claimants'
    BY <1>0, <1>5 DEF Claimants
  <1>7. QED
    BY <1>0, <1>1, <1>2, <1>3, <1>4, <1>6 DEF Creations

LEMMA RestoredTotals ==
  ASSUME InventoryInv, NEW h, NEW touched, Restored(h, touched)
  PROVE  Totals'
  <1>0. /\ HandlerTypes /\ Totals /\ expense' = expense /\ Live' = Live
        /\ touched \subseteq doubt'["total"] /\ \A f \in Facts : doubt[f] \subseteq doubt'[f]
        /\ \A v \in Vehicles \ touched : vehicle'[v] = vehicle[v]
        /\ InFlight' = InFlight \ {h} /\ local[h].on = Floor /\ Floor \notin Vehicles
    BY RestoredRows, InventoryAssumption DEF InventoryInv, InventoryTypes, Restored
  <1>1. ASSUME NEW g \in InFlight', pc'[g] = "total", local'[g].alone
        PROVE  local'[g].total = Invested(vehicle'[local'[g].on], expense', local'[g].on)
    <2>1. /\ g \in InFlight /\ pc[g] = "total" /\ local[g].alone /\ local'[g].on = local[g].on
          /\ local[g].on \in Vehicles \ touched
      BY <1>0, <1>1, OthersKeep DEF VehicleAwaits, Recalcs
    <2>2. local'[g].total = local[g].total
      BY <1>0, <2>1, OthersKeep DEF Fields
    <2>3. QED
      BY <1>0, <2>1, <2>2 DEF Totals
  <1>2. ASSUME NEW g \in InFlight', pc'[g] = "commit", local'[g].alone
        PROVE  LET r == local'[g] IN
               r.total = Invested(vehicle'[r.on], [expense' EXCEPT ![r.expense] = Written(local[g])'], r.on)
    <2>1. /\ g \in InFlight /\ pc[g] = "commit" /\ local[g].alone /\ local'[g].on = local[g].on
          /\ local[g].on \in Vehicles \ touched
      BY <1>0, <1>2, OthersKeep DEF VehicleAwaits, ExpenseAwaits
    <2>2. {"total", "expense", "op", "cost"} \subseteq Fields(pc[g]) \ {"alone"}
      BY <2>1 DEF Fields, ExpenseAwaits
    <2>3. /\ local'[g].total = local[g].total /\ local'[g].expense = local[g].expense
          /\ local'[g].op = local[g].op /\ local'[g].cost = local[g].cost
      BY <1>0, <2>1, <2>2, OthersKeep
    <2>4. Written(local[g])' = Written(local[g])
      BY <1>0, <2>1, <2>3 DEF Written
    <2>5. QED
      BY <1>0, <2>1, <2>3, <2>4 DEF Totals
  <1>3. ASSUME NEW v \in Live', v \notin doubt'["total"],
               \A g \in InFlight' : local'[g].on = v => pc'[g] \in Apart
        PROVE  vehicle'[v].total = Invested(vehicle'[v], expense', v)
    <2>1. v \in Live \ doubt["total"] /\ v \in Vehicles \ touched
      BY <1>0, <1>3 DEF Facts, Live
    <2>2. \A g \in InFlight : local[g].on = v => pc[g] \in Apart
      BY <1>0, <1>3, <2>1, OthersKeep
    <2>3. QED
      BY <1>0, <2>1, <2>2 DEF Totals
  <1>4. QED
    BY <1>1, <1>2, <1>3 DEF Totals

LEMMA RestoredSales ==
  ASSUME InventoryInv, NEW h, NEW touched, Restored(h, touched)
  PROVE  Sales'
  <1>0. /\ HandlerTypes /\ Sales /\ Live' = Live
        /\ \A f \in Facts : doubt[f] \subseteq doubt'[f]
        /\ InFlight' = InFlight \ {h} /\ local[h].on = Floor /\ Floor \notin Vehicles
        /\ Live \subseteq Vehicles
    BY RestoredRows, InventoryAssumption DEF InventoryInv, InventoryTypes, Restored, Live
  <1>1. ASSUME NEW v \in Vehicles
        PROVE  /\ DateAgrees(vehicle'[v]) <=> DateAgrees(vehicle[v])
               /\ PriceAgrees(vehicle'[v]) <=> PriceAgrees(vehicle[v])
               /\ vehicle'[v].soldAt = vehicle[v].soldAt /\ vehicle'[v].price = vehicle[v].price
               /\ vehicle'[v].deal = vehicle[v].deal
    BY RestoredRows DEF DateAgrees, PriceAgrees
  <1>2. ASSUME NEW g \in InFlight', NEW f \in Facts, Knows(g, f)'
        PROVE  Knows(g, f)
    BY <1>0, <1>2, OthersKeep DEF Knows
  <1>3. ASSUME NEW g \in InFlight'
        PROVE  Repricing(g)' <=> Repricing(g)
    <2>1. pc'[g] = pc[g]
      BY <1>0, OthersKeep
    <2>2. pc[g] \in {"deal", "jacket"} => "patch" \in Fields(pc[g]) \ {"alone"}
      BY DEF Fields, Updates
    <2>3. pc[g] \in {"deal", "jacket"} => local'[g].patch = local[g].patch
      BY <1>0, <2>2, OthersKeep
    <2>4. QED
      BY <2>1, <2>3 DEF Repricing
  <1>4. ASSUME NEW v \in Live', v \notin doubt'["date"]
        PROVE  DateAgrees(vehicle'[v])
    BY <1>0, <1>1, <1>4 DEF Sales, Facts
  <1>5. ASSUME NEW v \in Live', v \notin doubt'["price"],
               \A g \in InFlight' : local'[g].on = v => ~Repricing(g)'
        PROVE  PriceAgrees(vehicle'[v])
    <2>1. \A g \in InFlight : local[g].on = v => ~Repricing(g)
      BY <1>0, <1>3, <1>5, OthersKeep
    <2>2. QED
      BY <1>0, <1>1, <1>5, <2>1 DEF Sales, Facts
  <1>6. ASSUME NEW g \in InFlight', pc'[g] \in {"status", "wholesaleStatus"}
        PROVE  /\ Knows(g, "date")' => local'[g].soldAt = vehicle'[local'[g].on].soldAt
               /\ Knows(g, "price")' => local'[g].old = vehicle'[local'[g].on].price
    <2>1. /\ g \in InFlight /\ pc'[g] = pc[g] /\ local'[g].on = local[g].on
          /\ local[g].on \in Vehicles
      BY <1>0, <1>6, OthersKeep DEF VehicleAwaits, EditAwaits
    <2>2. {"soldAt", "old"} \subseteq Fields(pc[g]) \ {"alone"}
      BY <1>6, <2>1 DEF Fields, EditAwaits
    <2>3. local'[g].soldAt = local[g].soldAt /\ local'[g].old = local[g].old
      BY <1>0, <2>1, <2>2, OthersKeep
    <2>4. QED
      BY <1>0, <1>1, <1>2, <1>6, <2>1, <2>3 DEF Sales, Facts
  <1>7. ASSUME NEW g \in InFlight', Repricing(g)', Knows(g, "price")'
        PROVE  /\ vehicle'[local'[g].on].price = local'[g].patch.price
               /\ pc'[g] = "jacket" => vehicle'[local'[g].on].deal = local'[g].patch.price
    <2>1. /\ Repricing(g) /\ Knows(g, "price") /\ pc'[g] = pc[g] /\ local'[g].on = local[g].on
          /\ g \in InFlight
      BY <1>0, <1>2, <1>3, <1>7, OthersKeep DEF Facts
    <2>2. "patch" \in Fields(pc[g]) \ {"alone"} /\ pc[g] \in VehicleAwaits
      BY <2>1 DEF Repricing, Fields, Updates, VehicleAwaits
    <2>3. local'[g].patch = local[g].patch /\ local[g].on \in Vehicles
      BY <1>0, <2>1, <2>2, OthersKeep
    <2>4. QED
      BY <1>0, <1>1, <2>1, <2>3 DEF Sales
  <1>8. ASSUME NEW g \in InFlight', pc'[g] \in Recalcs, "price" \in local'[g].settles, local'[g].alone
        PROVE  PriceAgrees(vehicle'[local'[g].on])
    <2>1. /\ pc[g] \in Recalcs /\ local'[g].on = local[g].on /\ local[g].alone /\ g \in InFlight
          /\ local[g].on \in Vehicles
      BY <1>0, <1>8, OthersKeep DEF VehicleAwaits
    <2>2. "settles" \in Fields(pc[g]) \ {"alone"}
      BY <2>1 DEF Fields
    <2>3. local'[g].settles = local[g].settles
      BY <1>0, <2>2, OthersKeep
    <2>4. QED
      BY <1>0, <1>1, <1>8, <2>1, <2>3 DEF Sales
  <1>9. QED
    BY <1>4, <1>5, <1>6, <1>7, <1>8 DEF Sales

LEMMA RestoreVehiclesInv ==
  ASSUME InventoryInv, NEW h \in Handlers, RestoreVehicles(h)
  PROVE  InventoryInv'
  <1>1. PICK touched : Restored(h, touched)
    BY RestoreVehiclesStep
  <1>2. PlanTypes' /\ Undos'
    BY RestoreVehiclesStep
  <1>3. Overlaps' /\ Creations' /\ VinsUnique' /\ Claimants' /\ Totals' /\ Sales'
    BY <1>1, RestoredOverlaps, RestoredCreations, RestoredTotals, RestoredSales
  <1>4. QED
    BY <1>1, <1>2, <1>3 DEF InventoryInv, InventoryTypes, Restored

-----------------------------------------------------------------------------
(* The invariant.                                                          *)

\* A vehicle with one expense of one dollar.
LEMMA OneSpent ==
  ASSUME NEW table, NEW v, NEW e \in Expenses, table[e].on = v, table[e].live, table[e].cost = 1,
         \A d \in Expenses \ {e} : table[d].on # v
  PROVE  Spent(table, v) = 1
  <1>1. Counted(table, v) = {e}
    BY DEF Counted
  <1>2. {e} \X (1..1) = {<<e, 1>>}
    OBVIOUS
  <1>3. UNION {{d} \X (1..table[d].cost) : d \in Counted(table, v)} = {<<e, 1>>}
    BY <1>1, <1>2
  <1>4. Cardinality({<<e, 1>>}) = 1
    BY FS_Singleton
  <1>5. QED
    BY <1>3, <1>4 DEF Spent

LEMMA InventoryStart ==
  ASSUME InventoryInit
  PROVE  InventoryInv
  <1>1. /\ \A h \in Handlers : pc[h] = "idle" /\ local[h] = Nothing
        /\ InFlight = {} /\ plan \in Plan /\ undo = None /\ applied = 0
        /\ doubt = [f \in Facts |-> {}]
    BY DEF InventoryInit, RequestsInit, InFlight, Plan
  <1>2. HandlerTypes /\ PlanTypes /\ DoubtTypes
    BY <1>1, RequestsAssumption DEF InventoryInit, RequestsInit, HandlerTypes, PlanTypes, DoubtTypes
  <1>3. Overlaps /\ Claimants /\ Undos
    BY <1>1 DEF Overlaps, Claimants, Claims, ExpenseAwaits, Undos
  <1>4. /\ RowTypes /\ VinsUnique
        /\ \A e \in Expenses : expense[e].on # None => vehicle[expense[e].on].row # "none"
        /\ \A v \in Live : /\ DateAgrees(vehicle[v]) /\ PriceAgrees(vehicle[v])
                           /\ vehicle[v].total = Invested(vehicle[v], expense, v)
    <2>0. Absent \in VehicleRow /\ Unused \in ExpenseRow /\ Absent.row = "none" /\ Unused.on = None
      BY DEF Absent, VehicleRow, Statuses, Unused, ExpenseRow
    <2>1. CASE vehicle = [v \in Vehicles |-> Absent] /\ expense = [e \in Expenses |-> Unused]
      BY <2>0, <2>1 DEF RowTypes, VinsUnique, Live
    <2>2. ASSUME NEW v \in Vehicles, NEW e \in Expenses, NEW vin \in Vins,
                 LET stock == [InStock(vin, 1) EXCEPT !.total = 2] IN
                 /\ \E row \in {stock} \cup {SoldFor(p, stock) : p \in Prices} :
                      vehicle = [u \in Vehicles |-> IF u = v THEN row ELSE Absent]
                 /\ expense = [d \in Expenses |->
                      IF d = e THEN [on |-> v, cost |-> 1, live |-> TRUE] ELSE Unused]
          PROVE  /\ RowTypes /\ VinsUnique
                 /\ \A d \in Expenses : expense[d].on # None => vehicle[expense[d].on].row # "none"
                 /\ \A u \in Live : /\ DateAgrees(vehicle[u]) /\ PriceAgrees(vehicle[u])
                                    /\ vehicle[u].total = Invested(vehicle[u], expense, u)
      <3> DEFINE stock == [InStock(vin, 1) EXCEPT !.total = 2]
                 bill == [on |-> v, cost |-> 1, live |-> TRUE]
      <3>1. /\ stock \in VehicleRow /\ stock.row = "live" /\ stock.cost = 1 /\ stock.flooring = 0
            /\ stock.total = 2 /\ stock.status = "in_stock" /\ stock.soldAt = FALSE
            /\ stock.deal = None
        BY DEF InStock, Absent, VehicleRow, Statuses
      <3> HIDE DEF stock
      <3>2. PICK row : /\ row = stock \/ \E p \in Prices : row = SoldFor(p, stock)
                       /\ vehicle = [u \in Vehicles |-> IF u = v THEN row ELSE Absent]
        BY <2>2 DEF stock
      <3>3. /\ row \in VehicleRow /\ row.row = "live" /\ row.cost = 1 /\ row.flooring = 0 /\ row.total = 2
            /\ DateAgrees(row) /\ PriceAgrees(row)
        <4>1. CASE row = stock
          BY <3>1, <4>1 DEF DateAgrees, PriceAgrees, ExitStatuses
        <4>2. ASSUME NEW p \in Prices, row = SoldFor(p, stock)
              PROVE  /\ row \in VehicleRow /\ row.row = "live" /\ row.cost = 1 /\ row.flooring = 0
                     /\ row.total = 2 /\ DateAgrees(row) /\ PriceAgrees(row)
          <5>1. /\ row \in VehicleRow /\ row.row = stock.row /\ row.cost = stock.cost
                /\ row.flooring = stock.flooring /\ row.total = stock.total
                /\ row.status = "sold" /\ row.soldAt = TRUE /\ row.price = p
                /\ row.deal = p /\ row.jacket = p
            BY <3>1, <4>2 DEF SoldFor, VehicleRow, Statuses
          <5>2. QED
            BY <3>1, <5>1 DEF DateAgrees, PriceAgrees, ExitStatuses
        <4>3. QED
          BY <3>2, <4>1, <4>2
      <3>4. /\ bill \in ExpenseRow /\ bill.on = v /\ bill.live /\ bill.cost = 1
            /\ expense = [d \in Expenses |-> IF d = e THEN bill ELSE Unused]
        BY <2>2 DEF ExpenseRow
      <3> HIDE DEF bill
      <3>5. RowTypes
        BY <2>0, <3>2, <3>3, <3>4 DEF RowTypes
      <3>6. Live = {v}
        BY <2>0, <3>2, <3>3 DEF Live
      <3>7. v # None
        BY InventoryAssumption
      <3>8. Spent(expense, v) = 1
        <4>1. \A d \in Expenses \ {e} : expense[d].on # v
          BY <2>0, <3>4, <3>7
        <4>2. expense[e].on = v /\ expense[e].live /\ expense[e].cost = 1
          BY <3>4
        <4>3. QED
          BY <4>1, <4>2, OneSpent
      <3>9. vehicle[v].total = Invested(vehicle[v], expense, v)
        BY <3>2, <3>3, <3>8 DEF Invested
      <3>10. \A d \in Expenses : expense[d].on # None => vehicle[expense[d].on].row # "none"
        BY <2>0, <3>2, <3>3, <3>4
      <3>11. QED
        BY <3>2, <3>3, <3>5, <3>6, <3>9, <3>10 DEF VinsUnique
    <2>3. QED
      BY <2>1, <2>2 DEF InventoryInit
  <1>5. Creations /\ Totals /\ Sales
    BY <1>1, <1>4 DEF Creations, Totals, Sales
  <1>6. QED
    BY <1>2, <1>3, <1>4, <1>5 DEF InventoryInv, InventoryTypes

LEMMA ExpireStep ==
  ASSUME InventoryInv, Expire
  PROVE  InventoryInv'
  <1>0. /\ undo # None /\ undo' = [undo EXCEPT !.fresh = FALSE]
        /\ UNCHANGED <<vehicle, expense, plan, applied, doubt, pc, local, begun>>
    BY DEF Expire, handlerVars
  <1>1. IsUndo(undo) /\ undo.at <= applied
    BY <1>0 DEF InventoryInv, InventoryTypes, PlanTypes
  <1>2. /\ DOMAIN undo' = DOMAIN undo
        /\ undo'.id = undo.id /\ undo'.at = undo.at /\ undo'.plan = undo.plan
        /\ undo'.flooring = undo.flooring
    BY <1>0, <1>1 DEF IsUndo
  <1>3. IsUndo(undo')
    BY <1>1, <1>2 DEF IsUndo
  <1>4. InventoryTypes'
    BY <1>0, <1>1, <1>2, <1>3 DEF InventoryInv, InventoryTypes, RowTypes, PlanTypes, HandlerTypes, DoubtTypes
  <1>5. Overlaps' /\ Creations' /\ VinsUnique' /\ Claimants' /\ Totals' /\ Sales'
    BY <1>0 DEF InventoryInv, Overlaps, Creations, VinsUnique, Claimants, Claims, Totals, Sales,
       InFlight, Live, Written, Knows, Repricing
  <1>6. Undos'
    BY <1>0, <1>2 DEF InventoryInv, Undos
  <1>7. QED
    BY <1>4, <1>5, <1>6 DEF InventoryInv

LEMMA InventoryStep ==
  ASSUME InventoryInv, [InventoryNext]_inventoryVars
  PROVE  InventoryInv'
  <1>1. CASE UNCHANGED inventoryVars
    <2>1. UNCHANGED <<vehicle, expense, plan, undo, applied, doubt, pc, local, begun>>
      BY <1>1 DEF inventoryVars, inventory, handlerVars
    <2>2. InventoryTypes'
      BY <2>1 DEF InventoryInv, InventoryTypes, RowTypes, PlanTypes, HandlerTypes, DoubtTypes
    <2>3. Overlaps' /\ Creations' /\ VinsUnique' /\ Claimants' /\ Totals' /\ Sales' /\ Undos'
      BY <2>1 DEF InventoryInv, Overlaps, Creations, VinsUnique, Claimants, Claims, Totals, Sales,
         InFlight, Live, Written, Knows, Repricing, Undos
    <2>4. QED
      BY <2>2, <2>3 DEF InventoryInv
  <1>2. CASE Expire
    BY <1>2, ExpireStep
  <1>3. ASSUME NEW h \in Handlers, Starts(h)
        PROVE  InventoryInv'
    BY <1>3, StartInv
  <1>4. ASSUME NEW h \in Handlers, VehicleSteps(h)
        PROVE  InventoryInv'
    BY <1>4, VehicleStepInv
  <1>5. ASSUME NEW h \in Handlers, FloorSteps(h)
        PROVE  InventoryInv'
    BY <1>5, FloorStepInv
  <1>6. ASSUME NEW h \in Handlers, RestoreVehicles(h)
        PROVE  InventoryInv'
    BY <1>6, RestoreVehiclesInv
  <1>7. ASSUME NEW h \in Handlers, Fail(h)
        PROVE  VehicleSteps(h) \/ FloorSteps(h)
    <2>1. pc[h] \in VehicleAwaits \/ pc[h] \in FloorAwaits
      BY <1>7 DEF Fail, InventoryInv, InventoryTypes, HandlerTypes
    <2>2. QED
      BY <1>7, <2>1 DEF VehicleSteps, FloorSteps
  <1>8. ASSUME NEW h \in Handlers,
               \/ CreateCheck(h) \/ CreateRow(h) \/ WholesaleCreate(h)
               \/ UpdateCheck(h) \/ UpdateRow(h) \/ UpdateDeal(h) \/ UpdateJacket(h)
               \/ RecalcRead(h) \/ RecalcWrite(h)
               \/ EditRead(h) \/ DeleteVehicle(h) \/ ChangeStatus(h)
               \/ WholesaleEdit(h) \/ WholesaleStatus(h) \/ RecordSale(h)
               \/ ExpenseRead(h) \/ ExpenseSum(h) \/ ExpenseCommit(h)
               \/ PlanRequest(h) \/ PlanWrite(h)
               \/ ClearRequest(h) \/ ClearFind(h) \/ ClearDelete(h)
               \/ SaveCapture(h) \/ SaveUndo(h)
               \/ FindUndo(h) \/ DeleteExpired(h) \/ RestorePlan(h) \/ RestoreVehicles(h)
               \/ Fail(h)
        PROVE  Starts(h) \/ VehicleSteps(h) \/ FloorSteps(h) \/ RestoreVehicles(h)
    BY <1>7, <1>8 DEF Starts, VehicleSteps, FloorSteps
  <1>9. QED
    BY <1>1, <1>2, <1>3, <1>4, <1>5, <1>6, <1>8 DEF InventoryNext

\* The inductive invariant: every step of every handler keeps it.
THEOREM InventoryInvariant == InventorySpec => []InventoryInv
  <1>1. InventoryInit => InventoryInv
    BY InventoryStart
  <1>2. InventoryInv /\ [InventoryNext]_inventoryVars => InventoryInv'
    BY InventoryStep
  <1>3. QED
    BY <1>1, <1>2, PTL DEF InventorySpec

\* Rows, the floor plan, its snapshot and the handlers' positions keep their types
\* (schema.prisma's columns, and what each handler carries across its awaits).
THEOREM InventoryTyped == InventorySpec => []InventoryTypeOK
  <1>1. InventoryInv => InventoryTypeOK
    <2>1. SUFFICES ASSUME InventoryInv PROVE InventoryTypeOK
      OBVIOUS
    <2>2. RowTypes /\ PlanTypes /\ HandlerTypes /\ DoubtTypes
      BY <2>1 DEF InventoryInv, InventoryTypes
    <2>3. RequestsTypeOK(VehicleAwaits \cup FloorAwaits)
      BY <2>2 DEF RequestsTypeOK, HandlerTypes
    <2>4. \A h \in InFlight :
            IF pc[h] \in VehicleAwaits THEN local[h].on \in Vehicles ELSE local[h].on = Floor
      BY <2>2, InFlightTypes
    <2>5. undo # None => undo.id \in Nat /\ undo.at \in 0..applied /\ undo.plan \in Plan
      BY <2>2 DEF PlanTypes, IsUndo
    <2>6. QED
      BY <2>2, <2>3, <2>4, <2>5 DEF InventoryTypeOK, RowTypes, VehicleRow, ExpenseRow, PlanTypes, DoubtTypes
  <1>2. QED
    BY <1>1, InventoryInvariant, PTL

\* Two live vehicles never carry one VIN, however many requests create, rename
\* and delete vehicles at once (createVehicle and updateVehicle look first and
\* write later; the partial unique index has the last word).
THEOREM LiveVinsUnique == InventorySpec => []VinsUnique
  <1>1. InventoryInv => VinsUnique
    BY DEF InventoryInv
  <1>2. QED
    BY <1>1, InventoryInvariant, PTL

\* totalInvested of a vehicle nobody works on is the sum of its costs and of its
\* live expenses, unless an overlap, a failure, the wholesale edit or a flooring
\* restore has put it in doubt (recalculateTotalInvested and its callers).
THEOREM SettledTotalsAreSums == InventorySpec => []TotalsExplained
  <1>1. InventoryInv => TotalsExplained
    <2>1. SUFFICES ASSUME InventoryInv, NEW v \in Settled("total")
                   PROVE  vehicle[v].total = Invested(vehicle[v], expense, v)
      BY DEF TotalsExplained
    <2>2. v \in Live \ doubt["total"] /\ \A h \in InFlight : local[h].on # v
      BY <2>1 DEF Settled, Quiet
    <2>3. QED
      BY <2>1, <2>2 DEF InventoryInv, Totals
  <1>2. QED
    BY <1>1, InventoryInvariant, PTL

\* What the records of a vehicle nobody works on say of its sale agrees: its
\* status with its sale date, and its price with its deal's and its jacket's
\* (changeVehicleStatus, updateVehicle and the wholesale page).
THEOREM SettledSalesAgree == InventorySpec => []SalesAgree
  <1>1. InventoryInv => SalesAgree
    <2>1. SUFFICES ASSUME InventoryInv PROVE SalesAgree
      OBVIOUS
    <2>2. ASSUME NEW v \in Settled("date")
          PROVE  (vehicle[v].status \in ExitStatuses) = vehicle[v].soldAt
      <3>1. v \in Live \ doubt["date"]
        BY DEF Settled
      <3>2. DateAgrees(vehicle[v])
        BY <2>1, <3>1 DEF InventoryInv, Sales
      <3>3. vehicle[v].soldAt \in BOOLEAN
        BY <2>1, <3>1 DEF InventoryInv, InventoryTypes, RowTypes, VehicleRow, Live
      <3>4. vehicle[v].status \in ExitStatuses <=> vehicle[v].soldAt
        BY <3>2 DEF DateAgrees
      <3>5. QED
        BY <3>3, <3>4
    <2>3. ASSUME NEW v \in Settled("price")
          PROVE  PriceAgrees(vehicle[v])
      <3>1. v \in Live \ doubt["price"] /\ \A h \in InFlight : local[h].on # v
        BY DEF Settled, Quiet
      <3>2. QED
        BY <2>1, <3>1 DEF InventoryInv, Sales
    <2>4. QED
      BY <2>2, <2>3 DEF SalesAgree, PriceAgrees
  <1>2. QED
    BY <1>1, InventoryInvariant, PTL

\* An undo on offer was saved after the plan was last applied, unless an overlap
\* or a failure has put the floor plan in doubt (flooring.service.js clears the
\* undo only after it has applied the plan).
THEOREM UndoIsOfThisPlan == InventorySpec => []UndoPostdatesPlan
  <1>1. InventoryInv => UndoPostdatesPlan
    <2>1. SUFFICES ASSUME InventoryInv, undo # None, Quiet(Floor), Floor \notin doubt["undo"]
                   PROVE  undo.at = applied
      BY DEF UndoPostdatesPlan
    <2>2. HandlerTypes
      BY <2>1 DEF InventoryInv, InventoryTypes
    <2>3. ASSUME NEW h \in Handlers, pc[h] \in {"clear", "clear_delete"}
          PROVE  FALSE
      <3>1. h \in InFlight /\ pc[h] \in FloorAwaits
        BY <2>3 DEF InFlight, FloorAwaits
      <3>2. local[h].on = Floor
        BY <2>2, <3>1, InFlightTypes
      <3>3. QED
        BY <2>1, <3>1, <3>2 DEF Quiet
    <2>4. QED
      BY <2>1, <2>3 DEF InventoryInv, Undos
  <1>2. QED
    BY <1>1, InventoryInvariant, PTL
=============================================================================
