-------------------------- MODULE DealDesk_proofs ---------------------------
(***************************************************************************)
(* Proofs about DealDesk for any number of vehicles and requests, any mix  *)
(* of operations and any number of them in flight: first with every race,  *)
(* then for a desk that serves its requests one at a time.                 *)
(***************************************************************************)
EXTENDS DealDesk, FiniteSetTheorems, TLAPS

VehicleOps == {"sell", "import", "draft", "loss", "set_status", "delete"}
Pcs == Awaits \cup Answered \cup {"idle"}

\* What a request carries, by the operation it serves.
CarriedOK == \A r \in Requests :
  /\ local[r].op \in VehicleOps => local[r].vehicle \in Vehicles
  /\ local[r].op \in ReviewOps \cup {"set_commission"} => local[r].jacket \in Requests
  /\ local[r].op \in {"loss", "set_status"} => local[r].to \in Exit \cup Active
  /\ local[r].op = "set_commission" => local[r].to \in CommissionStatus

\* The awaits of each operation.
PcOK == \A r \in Requests :
  /\ pc[r] = "idle" => local[r] = NoLocals
  /\ pc[r] \in {"sell_check", "vehicle", "commission"} => local[r].op = "sell"
  /\ pc[r] \in {"deal", "count", "jacket"} => local[r].op \in {"sell", "import"}
  /\ pc[r] \in {"draft_check", "draft_count", "draft_commit"} => local[r].op = "draft"
  /\ pc[r] \in ReviewOps \cup {"loss", "set_status", "delete", "set_commission", "archive_rep"}
       => local[r].op = pc[r]
  /\ pc[r] \in {"approve_commit", "reject_commit"} => local[r].op \in {"approve", "reject"}

TypeInv == TypeOK /\ CarriedOK /\ PcOK

-----------------------------------------------------------------------------
(* The steps the actions are built from.                                   *)

LEMMA NoLocalsType == NoLocals \in Locals
  BY DEF NoLocals, Locals, VehicleStatus

\* A request that begins carries what its operation needs.
LEMMA BeginStep ==
  ASSUME TypeInv, NEW r \in Requests, NEW op \in AllOps, NEW await \in Awaits,
         NEW c \in Locals, c.op = op,
         op \in VehicleOps => c.vehicle \in Vehicles,
         op \in ReviewOps \cup {"set_commission"} => c.jacket \in Requests,
         op \in {"loss", "set_status"} => c.to \in Exit \cup Active,
         op = "set_commission" => c.to \in CommissionStatus,
         \/ op \in ReviewOps \cup {"loss", "set_status", "delete", "set_commission",
                                   "archive_rep"} /\ await = op
         \/ op = "sell" /\ await = "sell_check"
         \/ op = "import" /\ await = "deal"
         \/ op = "draft" /\ await = "draft_check",
         pc' = [pc EXCEPT ![r] = await],
         local' = [local EXCEPT ![r] = c]
  PROVE  /\ pc' \in [Requests -> Pcs]
         /\ local' \in [Requests -> Locals]
         /\ CarriedOK' /\ PcOK'
  BY DEF TypeInv, TypeOK, CarriedOK, PcOK, Pcs, Awaits, ReviewOps

\* A request that goes on keeps what it carries and moves along its operation's path.
LEMMA ProceedStep ==
  ASSUME TypeInv, NEW r \in Requests, NEW await \in Pcs \ {"idle"},
         pc' = [pc EXCEPT ![r] = await],
         local' \in [Requests -> Locals],
         \A q \in Requests : /\ local'[q].op = local[q].op
                             /\ local'[q].vehicle = local[q].vehicle
                             /\ local'[q].jacket = local[q].jacket
                             /\ local'[q].to = local[q].to
                             /\ q # r => local'[q] = local[q],
         await \in {"sell_check", "vehicle", "commission"} => local[r].op = "sell",
         await \in {"deal", "count", "jacket"} => local[r].op \in {"sell", "import"},
         await \in {"draft_check", "draft_count", "draft_commit"} => local[r].op = "draft",
         await \in ReviewOps \cup {"loss", "set_status", "delete", "set_commission",
                                   "archive_rep"} => local[r].op = await,
         await \in {"approve_commit", "reject_commit"} => local[r].op \in {"approve", "reject"}
  PROVE  /\ pc' \in [Requests -> Pcs]
         /\ CarriedOK' /\ PcOK'
  BY DEF TypeInv, TypeOK, CarriedOK, PcOK, Pcs

LEMMA SetStatusType ==
  ASSUME TypeOK, NEW v, NEW s \in VehicleStatus, NEW gone \in BOOLEAN, SetStatus(v, s, gone)
  PROVE  vehicle' \in [Vehicles -> VehicleRow]
  BY DEF TypeOK, SetStatus, VehicleRow

-----------------------------------------------------------------------------
(* Type correctness.                                                       *)

LEMMA ArriveType ==
  ASSUME TypeInv, NEW r \in Requests, Arrive(r)
  PROVE  TypeInv'
<1> USE DEF TypeInv
<1> SUFFICES TypeOK' /\ CarriedOK' /\ PcOK'
  OBVIOUS
<1> USE NoLocalsType DEF Begin, tables, AllOps, Awaits, VehicleOps, ReviewOps, Accept
<1>1. CASE SellRead(r)
  <2>1. PICK v \in Vehicles, given \in Payloads :
          Begin(r, "sell_check",
                [NoLocals EXCEPT !.op = "sell", !.vehicle = v, !.seen = vehicle[v].status,
                                 !.given = given])
    BY <1>1 DEF SellRead
  <2>2. vehicle[v].status \in VehicleStatus
    BY DEF TypeOK, VehicleRow
  <2> DEFINE c == [NoLocals EXCEPT !.op = "sell", !.vehicle = v, !.seen = vehicle[v].status,
                                   !.given = given]
  <2>3. c \in Locals /\ c.op = "sell" /\ c.vehicle \in Vehicles
    BY <2>2, DealDeskAssumption DEF Locals, NoLocals
  <2> HIDE DEF c
  <2>4. pc' \in [Requests -> Pcs] /\ local' \in [Requests -> Locals] /\ CarriedOK' /\ PcOK'
    BY <2>1, <2>3, BeginStep DEF c
  <2> QED
    BY <2>1, <2>4 DEF TypeOK, Pcs
<1>2. CASE ImportVehicle(r)
  <2>1. PICK v \in Vehicles, given \in Payloads :
          /\ SetStatus(v, "sold", TRUE)
          /\ pc' = [pc EXCEPT ![r] = "deal"]
          /\ local' = [local EXCEPT ![r] = [NoLocals EXCEPT !.op = "import", !.vehicle = v,
                                                             !.given = given \cup {"remarks"}]]
          /\ UNCHANGED <<deal, jacket, commission, repActive>>
    BY <1>2 DEF ImportVehicle
  <2> DEFINE c == [NoLocals EXCEPT !.op = "import", !.vehicle = v, !.given = given \cup {"remarks"}]
  <2>2. c \in Locals /\ c.op = "import" /\ c.vehicle \in Vehicles
    BY DealDeskAssumption DEF Locals, NoLocals, Optional
  <2> HIDE DEF c
  <2>3. pc' \in [Requests -> Pcs] /\ local' \in [Requests -> Locals] /\ CarriedOK' /\ PcOK'
    BY <2>1, <2>2, BeginStep DEF c
  <2>4. vehicle' \in [Vehicles -> VehicleRow]
    BY <2>1, SetStatusType DEF VehicleStatus
  <2> QED
    BY <2>1, <2>3, <2>4 DEF TypeOK, Pcs
<1>3. CASE DraftRead(r)
  <2>1. PICK v \in Vehicles, given \in Payloads :
          Begin(r, "draft_check",
                [NoLocals EXCEPT !.op = "draft", !.vehicle = v, !.seen = vehicle[v].status,
                                 !.given = given])
    BY <1>3 DEF DraftRead
  <2>2. vehicle[v].status \in VehicleStatus
    BY DEF TypeOK, VehicleRow
  <2> DEFINE c == [NoLocals EXCEPT !.op = "draft", !.vehicle = v, !.seen = vehicle[v].status,
                                   !.given = given]
  <2>3. c \in Locals /\ c.op = "draft" /\ c.vehicle \in Vehicles
    BY <2>2, DealDeskAssumption DEF Locals, NoLocals
  <2> HIDE DEF c
  <2>4. pc' \in [Requests -> Pcs] /\ local' \in [Requests -> Locals] /\ CarriedOK' /\ PcOK'
    BY <2>1, <2>3, BeginStep DEF c
  <2> QED
    BY <2>1, <2>4 DEF TypeOK, Pcs
<1>4. CASE ReviewRead(r)
  <2>1. PICK j \in Requests, op \in ReviewOps :
          Begin(r, op, [NoLocals EXCEPT !.op = op, !.jacket = j])
    BY <1>4 DEF ReviewRead
  <2> DEFINE c == [NoLocals EXCEPT !.op = op, !.jacket = j]
  <2>2. c \in Locals /\ c.op = op /\ c.jacket \in Requests
    BY DEF Locals, NoLocals
  <2> HIDE DEF c
  <2>3. pc' \in [Requests -> Pcs] /\ local' \in [Requests -> Locals] /\ CarriedOK' /\ PcOK'
    BY <2>1, <2>2, BeginStep DEF c
  <2> QED
    BY <2>1, <2>3 DEF TypeOK, Pcs
<1>5. CASE VehicleRead(r)
  <2>1. PICK v \in Vehicles, op \in {"loss", "set_status", "delete"}, s \in Exit \cup Active :
          Begin(r, op, [NoLocals EXCEPT !.op = op, !.vehicle = v, !.to = s])
    BY <1>5 DEF VehicleRead
  <2> DEFINE c == [NoLocals EXCEPT !.op = op, !.vehicle = v, !.to = s]
  <2>2. c \in Locals /\ c.op = op /\ c.vehicle \in Vehicles /\ c.to \in Exit \cup Active
    BY DEF Locals, NoLocals
  <2> HIDE DEF c
  <2>3. pc' \in [Requests -> Pcs] /\ local' \in [Requests -> Locals] /\ CarriedOK' /\ PcOK'
    BY <2>1, <2>2, BeginStep, ZenonT(60) DEF c
  <2> QED
    BY <2>1, <2>3 DEF TypeOK, Pcs
<1>6. CASE CommissionRead(r)
  <2>1. PICK j \in Requests, s \in CommissionStatus :
          Begin(r, "set_commission",
                [NoLocals EXCEPT !.op = "set_commission", !.jacket = j, !.to = s])
    BY <1>6 DEF CommissionRead
  <2> DEFINE c == [NoLocals EXCEPT !.op = "set_commission", !.jacket = j, !.to = s]
  <2>2. c \in Locals /\ c.op = "set_commission" /\ c.jacket \in Requests /\ c.to \in CommissionStatus
    BY DEF Locals, NoLocals
  <2> HIDE DEF c
  <2>3. pc' \in [Requests -> Pcs] /\ local' \in [Requests -> Locals] /\ CarriedOK' /\ PcOK'
    <3>1. /\ "set_commission" \in AllOps /\ "set_commission" \in Awaits
          /\ "set_commission" \notin VehicleOps /\ "set_commission" \notin {"loss", "set_status"}
          /\ "set_commission" \in ReviewOps \cup {"loss", "set_status", "delete", "set_commission",
                                   "archive_rep"}
      OBVIOUS
    <3> HIDE DEF AllOps, Awaits, VehicleOps, ReviewOps
    <3> QED
      BY <2>1, <2>2, <3>1, BeginStep DEF c
  <2> QED
    BY <2>1, <2>3 DEF TypeOK, Pcs
<1>7. CASE ArchiveRead(r)
  <2>1. Begin(r, "archive_rep", [NoLocals EXCEPT !.op = "archive_rep"])
    BY <1>7 DEF ArchiveRead
  <2> DEFINE c == [NoLocals EXCEPT !.op = "archive_rep"]
  <2>2. c \in Locals /\ c.op = "archive_rep"
    BY DEF Locals, NoLocals
  <2> HIDE DEF c
  <2>3. pc' \in [Requests -> Pcs] /\ local' \in [Requests -> Locals] /\ CarriedOK' /\ PcOK'
    BY <2>1, <2>2, BeginStep DEF c
  <2> QED
    BY <2>1, <2>3 DEF TypeOK, Pcs
<1> QED
  BY <1>1, <1>2, <1>3, <1>4, <1>5, <1>6, <1>7 DEF Arrive

\* Carried values have the types of their fields.
LEMMA LocalFields ==
  ASSUME TypeInv, NEW r \in Requests
  PROVE  /\ pc[r] \in Pcs /\ local[r] \in Locals
         /\ local[r].vehicle \in Vehicles \cup {None}
         /\ local[r].jacket \in Requests \cup {None}
         /\ local[r].deal \in Requests \cup {None}
         /\ local[r].seen \in VehicleStatus
         /\ local[r].rep \in Requests \cup {None} /\ local[r].remarks \in Requests \cup {None}
         /\ local[r].number \in Nat
  BY DEF TypeInv, TypeOK, Pcs, Locals

\* What a request writes of what its client gave.
LEMMA GivenType ==
  ASSUME TypeInv, NEW r \in Requests
  PROVE  /\ Rep(r) \in Requests \cup {None}
         /\ Given(r, "remarks", None) \in Requests \cup {None}
         /\ Given(r, "remarks", local[r].remarks) \in Requests \cup {None}
  BY LocalFields DEF Rep, Given

LEMMA NewDealType ==
  ASSUME TypeInv, NEW r \in Requests
  PROVE  NewDeal(r) \in DealRow
  BY GivenType, LocalFields DEF NewDeal, DealRow

LEMMA NewJacketType ==
  ASSUME TypeInv, NEW r \in Requests, NEW d \in Requests \cup {None}, NEW status \in JacketStatus
  PROVE  NewJacket(r, d, status) \in JacketRow
  BY GivenType, LocalFields DEF NewJacket, JacketRow

\* A request that answers, is refused or crashes.
LEMMA EndStep ==
  ASSUME TypeInv, NEW r \in Requests, NEW await \in Answered, Goto(r, await)
  PROVE  /\ pc' \in [Requests -> Pcs] /\ local' \in [Requests -> Locals]
         /\ CarriedOK' /\ PcOK'
<1>1. await \in Pcs \ {"idle"} /\ local' \in [Requests -> Locals]
  BY DEF Answered, Pcs, Goto, TypeInv, TypeOK
<1>2. await \notin {"sell_check", "vehicle", "commission", "deal", "count", "jacket",
                   "draft_check", "draft_count", "draft_commit", "approve_commit",
                   "reject_commit", "loss", "set_status", "delete", "set_commission",
                   "archive_rep"} \cup ReviewOps
  BY DEF Answered, ReviewOps
<1>3. QED
  BY <1>1, <1>2, ProceedStep DEF Goto

\* A request that moves to another await of its operation.
LEMMA MoveStep ==
  ASSUME TypeInv, NEW r \in Requests, NEW from, NEW await,
         pc[r] = from, pc' = [pc EXCEPT ![r] = await],
         local' \in [Requests -> Locals],
         \A q \in Requests : /\ local'[q].op = local[q].op
                             /\ local'[q].vehicle = local[q].vehicle
                             /\ local'[q].jacket = local[q].jacket
                             /\ local'[q].to = local[q].to
                             /\ q # r => local'[q] = local[q],
         \/ from = "sell_check" /\ await = "deal"
         \/ from = "deal" /\ await = "count"
         \/ from = "count" /\ await = "jacket"
         \/ from = "vehicle" /\ await = "commission"
         \/ from = "jacket" /\ await = "vehicle" /\ local[r].op = "sell"
         \/ from = "draft_check" /\ await = "draft_count"
         \/ from = "draft_count" /\ await = "draft_commit"
         \/ from = "approve" /\ await = "approve_commit"
         \/ from = "reject" /\ await = "reject_commit"
  PROVE  /\ pc' \in [Requests -> Pcs]
         /\ CarriedOK' /\ PcOK'
  BY ProceedStep, ZenonT(60) DEF TypeInv, PcOK, Pcs, Awaits, ReviewOps

\* Changing what a request carries, but for its beginning.
LEMMA CarryStep ==
  ASSUME TypeInv, NEW r \in Requests, NEW c \in Locals, local' = [local EXCEPT ![r] = c],
         c.op = local[r].op, c.vehicle = local[r].vehicle, c.jacket = local[r].jacket,
         c.to = local[r].to
  PROVE  /\ local' \in [Requests -> Locals]
         /\ \A q \in Requests : /\ local'[q].op = local[q].op
                                /\ local'[q].vehicle = local[q].vehicle
                                /\ local'[q].jacket = local[q].jacket
                                /\ local'[q].to = local[q].to
                                /\ q # r => local'[q] = local[q]
  BY DEF TypeInv, TypeOK

LEMMA CarryRow ==
  ASSUME TypeInv, NEW r \in Requests, NEW d \in Requests \cup {None},
         NEW p \in Requests \cup {None}, NEW m \in Requests \cup {None},
         local' = [local EXCEPT ![r].deal = d, ![r].rep = p, ![r].remarks = m]
  PROVE  /\ local' \in [Requests -> Locals]
         /\ \A q \in Requests : /\ local'[q].op = local[q].op
                                /\ local'[q].vehicle = local[q].vehicle
                                /\ local'[q].jacket = local[q].jacket
                                /\ local'[q].to = local[q].to
                                /\ q # r => local'[q] = local[q]
<1> DEFINE c == [local[r] EXCEPT !.deal = d, !.rep = p, !.remarks = m]
<1>1. local[r] \in Locals /\ local \in [Requests -> Locals]
  BY DEF TypeInv, TypeOK
<1>2. /\ c \in Locals /\ c.op = local[r].op /\ c.vehicle = local[r].vehicle
      /\ c.jacket = local[r].jacket /\ c.to = local[r].to
  BY <1>1 DEF Locals
<1>3. local' = [local EXCEPT ![r] = c]
  BY <1>1
<1> HIDE DEF c
<1>4. QED
  BY <1>2, <1>3, CarryStep

LEMMA CarryDeal ==
  ASSUME TypeInv, NEW r \in Requests, NEW d \in Requests \cup {None},
         local' = [local EXCEPT ![r].deal = d]
  PROVE  /\ local' \in [Requests -> Locals]
         /\ \A q \in Requests : /\ local'[q].op = local[q].op
                                /\ local'[q].vehicle = local[q].vehicle
                                /\ local'[q].jacket = local[q].jacket
                                /\ local'[q].to = local[q].to
                                /\ q # r => local'[q] = local[q]
<1> DEFINE c == [local[r] EXCEPT !.deal = d]
<1>1. local[r] \in Locals /\ local \in [Requests -> Locals]
  BY DEF TypeInv, TypeOK
<1>2. /\ c \in Locals /\ c.op = local[r].op /\ c.vehicle = local[r].vehicle
      /\ c.jacket = local[r].jacket /\ c.to = local[r].to
  BY <1>1 DEF Locals
<1>3. local' = [local EXCEPT ![r] = c]
  BY <1>1
<1> HIDE DEF c
<1>4. QED
  BY <1>2, <1>3, CarryStep

LEMMA CarryNumber ==
  ASSUME TypeInv, NEW r \in Requests, NEW n \in Nat,
         local' = [local EXCEPT ![r].number = n]
  PROVE  /\ local' \in [Requests -> Locals]
         /\ \A q \in Requests : /\ local'[q].op = local[q].op
                                /\ local'[q].vehicle = local[q].vehicle
                                /\ local'[q].jacket = local[q].jacket
                                /\ local'[q].to = local[q].to
                                /\ q # r => local'[q] = local[q]
<1> DEFINE c == [local[r] EXCEPT !.number = n]
<1>1. local[r] \in Locals /\ local \in [Requests -> Locals]
  BY DEF TypeInv, TypeOK
<1>2. /\ c \in Locals /\ c.op = local[r].op /\ c.vehicle = local[r].vehicle
      /\ c.jacket = local[r].jacket /\ c.to = local[r].to
  BY <1>1 DEF Locals
<1>3. local' = [local EXCEPT ![r] = c]
  BY <1>1
<1> HIDE DEF c
<1>4. QED
  BY <1>2, <1>3, CarryStep

LEMMA CarrySeen ==
  ASSUME TypeInv, NEW r \in Requests, NEW s \in VehicleStatus,
         local' = [local EXCEPT ![r].seen = s]
  PROVE  /\ local' \in [Requests -> Locals]
         /\ \A q \in Requests : /\ local'[q].op = local[q].op
                                /\ local'[q].vehicle = local[q].vehicle
                                /\ local'[q].jacket = local[q].jacket
                                /\ local'[q].to = local[q].to
                                /\ q # r => local'[q] = local[q]
<1> DEFINE c == [local[r] EXCEPT !.seen = s]
<1>1. local[r] \in Locals /\ local \in [Requests -> Locals]
  BY DEF TypeInv, TypeOK
<1>2. /\ c \in Locals /\ c.op = local[r].op /\ c.vehicle = local[r].vehicle
      /\ c.jacket = local[r].jacket /\ c.to = local[r].to
  BY <1>1 DEF Locals
<1>3. local' = [local EXCEPT ![r] = c]
  BY <1>1
<1> HIDE DEF c
<1>4. QED
  BY <1>2, <1>3, CarryStep

LEMMA JacketNumberType == NextJacketNumber \in Nat
<1>1. IsFiniteSet({j \in Requests : Born(j)})
  BY DealDeskAssumption, FS_Subset
<1>2. Cardinality({j \in Requests : Born(j)}) \in Nat
  BY <1>1, FS_CardinalityType
<1>3. QED
  BY <1>2 DEF NextJacketNumber

\* A jacket that a review request works on exists.
ReviewedBorn == \A r \in Requests :
  local[r].op \in ReviewOps => jacket[local[r].jacket].vehicle \in Vehicles

LEMMA SaleProceedType ==
  ASSUME TypeInv, NEW r \in Requests,
         \/ SellCheck(r) \/ CreateDeal(r) \/ UpdateDeal(r) \/ CountJackets(r)
         \/ FileJacket(r) \/ SellVehicle(r) \/ SellCommission(r)
  PROVE  TypeInv'
<1> USE DealDeskAssumption DEF TypeInv
<1> SUFFICES TypeOK' /\ CarriedOK' /\ PcOK'
  OBVIOUS
<1>r. CASE Refuse(r)
  <2>1. pc' \in [Requests -> Pcs] /\ local' \in [Requests -> Locals] /\ CarriedOK' /\ PcOK'
    BY <1>r, EndStep DEF Refuse, Answered
  <2> QED
    BY <1>r, <2>1 DEF Refuse, tables, TypeOK, Pcs
<1>1. CASE SellCheck(r) /\ ~Refuse(r)
  <2>1. \/ local' = local
        \/ \E d \in Requests : local' = [local EXCEPT ![r].deal = d, ![r].rep = deal[d].rep,
                                                       ![r].remarks = deal[d].remarks]
    BY <1>1 DEF SellCheck, DealsOf
  <2>2. pc[r] = "sell_check" /\ pc' = [pc EXCEPT ![r] = "deal"] /\ UNCHANGED tables
    BY <1>1 DEF SellCheck
  <2>3. pc' \in [Requests -> Pcs] /\ local' \in [Requests -> Locals] /\ CarriedOK' /\ PcOK'
    <3>1. CASE local' = local
      BY <2>2, <3>1, MoveStep DEF TypeOK
    <3>2. ASSUME NEW d \in Requests,
                 local' = [local EXCEPT ![r].deal = d, ![r].rep = deal[d].rep,
                                        ![r].remarks = deal[d].remarks]
          PROVE  pc' \in [Requests -> Pcs] /\ local' \in [Requests -> Locals] /\ CarriedOK' /\ PcOK'
      <4>1. deal[d].rep \in Requests \cup {None} /\ deal[d].remarks \in Requests \cup {None}
        BY DEF TypeOK, DealRow
      <4>2. /\ local' \in [Requests -> Locals]
            /\ \A q \in Requests : /\ local'[q].op = local[q].op
                                   /\ local'[q].vehicle = local[q].vehicle
                                   /\ local'[q].jacket = local[q].jacket
                                   /\ local'[q].to = local[q].to
                                   /\ q # r => local'[q] = local[q]
        BY <3>2, <4>1, CarryRow
      <4>3. QED
        BY <2>2, <4>2, MoveStep
    <3>3. QED
      BY <2>1, <3>1, <3>2
  <2> QED
    BY <2>2, <2>3 DEF tables, TypeOK, Pcs
<1>2. CASE CreateDeal(r) /\ ~Refuse(r)
  <2>1. /\ pc[r] = "deal" /\ pc' = [pc EXCEPT ![r] = "count"]
        /\ local' = [local EXCEPT ![r].deal = r]
        /\ deal' = [deal EXCEPT ![r] = NewDeal(r)]
        /\ UNCHANGED <<vehicle, jacket, commission, repActive>>
    BY <1>2 DEF CreateDeal
  <2>2. pc' \in [Requests -> Pcs] /\ local' \in [Requests -> Locals] /\ CarriedOK' /\ PcOK'
    BY <2>1, CarryDeal, MoveStep
  <2>3. deal' \in [Requests -> DealRow]
    BY <2>1, NewDealType DEF TypeOK
  <2> QED
    BY <2>1, <2>2, <2>3 DEF TypeOK, Pcs
<1>3. CASE UpdateDeal(r)
  <2>1. /\ pc[r] = "deal" /\ pc' = [pc EXCEPT ![r] = "count"] /\ UNCHANGED local
        /\ deal' = [deal EXCEPT ![local[r].deal] = [@ EXCEPT !.terms = r, !.rep = Rep(r),
                                           !.remarks = Given(r, "remarks", local[r].remarks)]]
        /\ UNCHANGED <<vehicle, jacket, commission, repActive>>
    BY <1>3 DEF UpdateDeal, Goto
  <2>2. pc' \in [Requests -> Pcs] /\ local' \in [Requests -> Locals] /\ CarriedOK' /\ PcOK'
    BY <2>1, MoveStep DEF TypeOK
  <2>3. deal' \in [Requests -> DealRow]
    BY <2>1, GivenType DEF TypeOK, DealRow
  <2> QED
    BY <2>1, <2>2, <2>3 DEF TypeOK, Pcs
<1>4. CASE CountJackets(r)
  <2>1. /\ \/ pc[r] = "count" /\ pc' = [pc EXCEPT ![r] = "jacket"]
           \/ pc[r] = "draft_count" /\ pc' = [pc EXCEPT ![r] = "draft_commit"]
        /\ local' = [local EXCEPT ![r].number = NextJacketNumber]
        /\ UNCHANGED tables
    BY <1>4 DEF CountJackets
  <2>2. pc' \in [Requests -> Pcs] /\ local' \in [Requests -> Locals] /\ CarriedOK' /\ PcOK'
    <3>1. NextJacketNumber \in Nat
      BY JacketNumberType
    <3>2. /\ local' \in [Requests -> Locals]
          /\ \A q \in Requests : /\ local'[q].op = local[q].op
                                 /\ local'[q].vehicle = local[q].vehicle
                                 /\ local'[q].jacket = local[q].jacket
                                 /\ local'[q].to = local[q].to
                                 /\ q # r => local'[q] = local[q]
      BY <2>1, <3>1, CarryNumber
    <3> QED
      BY <2>1, <3>2, MoveStep
  <2> QED
    BY <2>1, <2>2 DEF tables, TypeOK, Pcs
<1>5. CASE FileJacket(r) /\ ~Refuse(r)
  <2>1. /\ pc[r] = "jacket"
        /\ jacket' = [jacket EXCEPT ![r] = NewJacket(r, local[r].deal, "approved")]
        /\ Goto(r, IF local[r].op = "sell" THEN "vehicle" ELSE "ok")
        /\ UNCHANGED <<vehicle, deal, commission, repActive>>
    BY <1>5 DEF FileJacket
  <2>2. pc' \in [Requests -> Pcs] /\ local' \in [Requests -> Locals] /\ CarriedOK' /\ PcOK'
    <3>1. CASE local[r].op = "sell"
      BY <2>1, <3>1, MoveStep DEF Goto, TypeOK
    <3>2. CASE local[r].op # "sell"
      BY <2>1, <3>2, EndStep DEF Answered
    <3> QED
      BY <3>1, <3>2
  <2>3. jacket' \in [Requests -> JacketRow]
    BY <2>1, NewJacketType, LocalFields DEF TypeOK, JacketStatus, Final
  <2> QED
    BY <2>1, <2>2, <2>3 DEF TypeOK, Pcs
<1>6. CASE SellVehicle(r)
  <2>1. /\ pc[r] = "vehicle" /\ Goto(r, "commission")
        /\ SetStatus(local[r].vehicle, "sold", TRUE)
        /\ UNCHANGED <<deal, jacket, commission, repActive>>
    BY <1>6 DEF SellVehicle
  <2>2. pc' \in [Requests -> Pcs] /\ local' \in [Requests -> Locals] /\ CarriedOK' /\ PcOK'
    BY <2>1, MoveStep DEF Goto, TypeOK
  <2>3. vehicle' \in [Vehicles -> VehicleRow]
    BY <2>1, SetStatusType DEF VehicleStatus
  <2> QED
    BY <2>1, <2>2, <2>3 DEF TypeOK, Pcs
<1>7. CASE SellCommission(r)
  <2>1. /\ Goto(r, "ok")
        /\ commission' \in {commission, [commission EXCEPT ![r].status = "approved"]}
        /\ UNCHANGED <<vehicle, deal, jacket, repActive>>
    BY <1>7 DEF SellCommission, Answer
  <2>2. pc' \in [Requests -> Pcs] /\ local' \in [Requests -> Locals] /\ CarriedOK' /\ PcOK'
    BY <2>1, EndStep DEF Answered
  <2>3. commission' \in [Requests -> CommissionRow]
    BY <2>1 DEF TypeOK, CommissionRow, CommissionStatus
  <2> QED
    BY <2>1, <2>2, <2>3 DEF TypeOK, Pcs
<1> QED
  BY <1>r, <1>1, <1>2, <1>3, <1>4, <1>5, <1>6, <1>7

LEMMA DeskProceedType ==
  ASSUME TypeInv, ReviewedBorn, NEW r \in Requests,
         \/ DraftCheck(r) \/ DraftCommit(r)
         \/ MoveJacket(r) \/ ReviewOpen(r) \/ ApproveCommit(r) \/ RejectCommit(r)
         \/ VehicleWrite(r) \/ DeleteVehicle(r) \/ CommissionWrite(r) \/ ArchiveRep(r)
         \/ Crash(r)
  PROVE  TypeInv'
<1> USE DealDeskAssumption DEF TypeInv
<1> SUFFICES TypeOK' /\ CarriedOK' /\ PcOK'
  OBVIOUS
<1>r. CASE Refuse(r) \/ Crash(r)
  <2>1. pc' \in [Requests -> Pcs] /\ local' \in [Requests -> Locals] /\ CarriedOK' /\ PcOK'
    BY <1>r, EndStep DEF Refuse, Crash, Answered
  <2> QED
    BY <1>r, <2>1 DEF Refuse, Crash, tables, TypeOK, Pcs
<1>a. ASSUME Answer(r)
      PROVE  pc' \in [Requests -> Pcs] /\ local' \in [Requests -> Locals] /\ CarriedOK' /\ PcOK'
  BY <1>a, EndStep DEF Answer, Answered
<1>1. CASE DraftCheck(r) /\ ~Refuse(r)
  <2>1. pc[r] = "draft_check" /\ Goto(r, "draft_count") /\ UNCHANGED tables
    BY <1>1 DEF DraftCheck
  <2>2. pc' \in [Requests -> Pcs] /\ local' \in [Requests -> Locals] /\ CarriedOK' /\ PcOK'
    BY <2>1, MoveStep DEF Goto, TypeOK
  <2> QED
    BY <2>1, <2>2 DEF tables, TypeOK, Pcs
<1>2. CASE DraftCommit(r)
  <2>1. jacket' \in [Requests -> JacketRow]
    BY <1>2, NewJacketType DEF DraftCommit, TypeOK, JacketStatus, Final
  <2>2. vehicle' \in [Vehicles -> VehicleRow]
    BY <1>2 DEF DraftCommit, TypeOK, VehicleRow, VehicleStatus
  <2>3. UNCHANGED <<deal, commission, repActive>> /\ Answer(r)
    BY <1>2 DEF DraftCommit
  <2> QED
    BY <1>a, <2>1, <2>2, <2>3 DEF TypeOK, Pcs
<1>3. CASE MoveJacket(r)
  <2>1. MovedTo[pc[r]] \in JacketStatus
    BY <1>3 DEF MoveJacket, MovedTo, JacketStatus
  <2>2. jacket' \in [Requests -> JacketRow]
    BY <1>3, <2>1, ZenonT(60) DEF MoveJacket, TypeOK, JacketRow
  <2>3. UNCHANGED <<vehicle, deal, commission, repActive>> /\ Answer(r)
    BY <1>3 DEF MoveJacket
  <2> QED
    BY <1>a, <2>2, <2>3 DEF TypeOK, Pcs
<1>4. CASE ReviewOpen(r)
  <2>1. /\ \/ pc[r] = "approve" /\ pc' = [pc EXCEPT ![r] = "approve_commit"]
           \/ pc[r] = "reject" /\ pc' = [pc EXCEPT ![r] = "reject_commit"]
        /\ local' = [local EXCEPT ![r].seen = vehicle[jacket[local[r].jacket].vehicle].status]
        /\ UNCHANGED tables
    BY <1>4 DEF ReviewOpen
  <2>2. jacket[local[r].jacket].vehicle \in Vehicles
    BY <2>1 DEF ReviewedBorn, PcOK, ReviewOps
  <2>3. vehicle[jacket[local[r].jacket].vehicle].status \in VehicleStatus
    BY <2>2 DEF TypeOK, VehicleRow
  <2>4. pc' \in [Requests -> Pcs] /\ local' \in [Requests -> Locals] /\ CarriedOK' /\ PcOK'
    <3>1. /\ local' \in [Requests -> Locals]
          /\ \A q \in Requests : /\ local'[q].op = local[q].op
                                 /\ local'[q].vehicle = local[q].vehicle
                                 /\ local'[q].jacket = local[q].jacket
                                 /\ local'[q].to = local[q].to
                                 /\ q # r => local'[q] = local[q]
      BY <2>1, <2>3, CarrySeen
    <3> QED
      BY <2>1, <3>1, MoveStep, SMTT(60)
  <2> QED
    BY <2>1, <2>4 DEF tables, TypeOK, Pcs
<1>5. CASE ApproveCommit(r) /\ ~Refuse(r)
  <2> DEFINE j == local[r].jacket
  <2>0. "approved" \in JacketStatus
    BY DEF JacketStatus, Final
  <2>1. /\ jacket' = [jacket EXCEPT ![j].status = "approved"]
        /\ SetStatus(jacket[j].vehicle, "sold", TRUE) \/ UNCHANGED vehicle
        /\ commission' \in {commission, [commission EXCEPT ![j].status = "approved"]}
        /\ Answer(r) /\ UNCHANGED <<deal, repActive>>
    BY <1>5 DEF ApproveCommit
  <2>2. vehicle' \in [Vehicles -> VehicleRow]
    BY <2>1, SetStatusType DEF VehicleStatus, TypeOK
  <2>3. jacket' \in [Requests -> JacketRow]
    <3>1. jacket' = [jacket EXCEPT ![j].status = "approved"]
      BY <2>1
    <3>2. jacket \in [Requests -> JacketRow]
      BY DEF TypeOK
    <3> HIDE DEF j, TypeInv
    <3> QED
      BY <2>0, <3>1, <3>2 DEF JacketRow
  <2>4. commission' \in [Requests -> CommissionRow]
    BY <2>1 DEF TypeOK, CommissionRow, CommissionStatus
  <2> QED
    BY <1>a, <2>1, <2>2, <2>3, <2>4 DEF TypeOK, Pcs
<1>6. CASE RejectCommit(r)
  <2> DEFINE j == local[r].jacket
  <2>0. "rejected" \in JacketStatus
    BY DEF JacketStatus, Final
  <2>1. /\ jacket' = [jacket EXCEPT ![j].status = "rejected"]
        /\ vehicle' \in {vehicle, [vehicle EXCEPT ![jacket[j].vehicle].status = "in_stock"]}
        /\ commission' \in {commission, [commission EXCEPT ![j].status = "rejected"]}
        /\ Answer(r) /\ UNCHANGED <<deal, repActive>>
    BY <1>6 DEF RejectCommit
  <2>2. vehicle' \in [Vehicles -> VehicleRow]
    BY <2>1 DEF VehicleStatus, VehicleRow, TypeOK
  <2>3. jacket' \in [Requests -> JacketRow]
    <3>1. jacket' = [jacket EXCEPT ![j].status = "rejected"]
      BY <2>1
    <3>2. jacket \in [Requests -> JacketRow]
      BY DEF TypeOK
    <3> HIDE DEF j, TypeInv
    <3> QED
      BY <2>0, <3>1, <3>2 DEF JacketRow
  <2>4. commission' \in [Requests -> CommissionRow]
    BY <2>1 DEF TypeOK, CommissionRow, CommissionStatus
  <2> QED
    BY <1>a, <2>1, <2>2, <2>3, <2>4 DEF TypeOK, Pcs
<1>7. CASE VehicleWrite(r)
  <2>1. local[r].to \in VehicleStatus
    BY <1>7 DEF VehicleWrite, PcOK, CarriedOK, VehicleStatus, Exit, Active
  <2>2. /\ SetStatus(local[r].vehicle, local[r].to, local[r].to \in Exit)
        /\ Answer(r) /\ UNCHANGED <<deal, jacket, commission, repActive>>
    BY <1>7 DEF VehicleWrite
  <2>3. vehicle' \in [Vehicles -> VehicleRow]
    <3>1. (local[r].to \in Exit) \in BOOLEAN
      OBVIOUS
    <3> QED
      BY <2>1, <2>2, <3>1, SetStatusType
  <2> QED
    BY <1>a, <2>2, <2>3 DEF TypeOK, Pcs
<1>8. CASE DeleteVehicle(r)
  <2>1. vehicle' \in [Vehicles -> VehicleRow]
    BY <1>8 DEF DeleteVehicle, TypeOK, VehicleRow
  <2>2. Answer(r) /\ UNCHANGED <<deal, jacket, commission, repActive>>
    BY <1>8 DEF DeleteVehicle
  <2> QED
    BY <1>a, <2>1, <2>2 DEF TypeOK, Pcs
<1>9. CASE CommissionWrite(r)
  <2>1. local[r].to \in CommissionStatus
    BY <1>9 DEF CommissionWrite, PcOK, CarriedOK
  <2>2. /\ commission' = [commission EXCEPT ![local[r].jacket].status = local[r].to]
        /\ Answer(r) /\ UNCHANGED <<vehicle, deal, jacket, repActive>>
    BY <1>9 DEF CommissionWrite
  <2>3. commission' \in [Requests -> CommissionRow]
    BY <2>1, <2>2 DEF TypeOK, CommissionRow
  <2> QED
    BY <1>a, <2>2, <2>3 DEF TypeOK, Pcs
<1>10. CASE ArchiveRep(r)
  <2>1. commission' \in [Requests -> CommissionRow]
    BY <1>10 DEF ArchiveRep, TypeOK, CommissionRow, CommissionStatus
  <2>2. repActive' = FALSE /\ Answer(r) /\ UNCHANGED <<vehicle, deal, jacket>>
    BY <1>10 DEF ArchiveRep
  <2> QED
    BY <1>a, <2>1, <2>2 DEF TypeOK, Pcs
<1> QED
  BY <1>r, <1>1, <1>2, <1>3, <1>4, <1>5, <1>6, <1>7, <1>8, <1>9, <1>10

\* What a request began with stays with it, and no other request moves.
LEMMA ProceedFrame ==
  ASSUME TypeInv, NEW r \in Requests, Proceed(r) \/ Crash(r)
  PROVE  \A q \in Requests : /\ local'[q].op = local[q].op
                             /\ local'[q].vehicle = local[q].vehicle
                             /\ local'[q].jacket = local[q].jacket
                             /\ local'[q].given = local[q].given
                             /\ q # r => local'[q] = local[q] /\ pc'[q] = pc[q]
<1> USE DEF TypeInv
<1>1. /\ \E await : pc' = [pc EXCEPT ![r] = await]
      /\ \/ local' = local
         \/ \E d : local' = [local EXCEPT ![r].deal = d]
         \/ \E d, p, m : local' = [local EXCEPT ![r].deal = d, ![r].rep = p, ![r].remarks = m]
         \/ \E n : local' = [local EXCEPT ![r].number = n]
         \/ \E s : local' = [local EXCEPT ![r].seen = s]
  <2>1. CASE SellCheck(r)
    <3>1. CASE Refuse(r)
      BY <3>1 DEF Refuse, Goto
    <3>2. CASE pc' = [pc EXCEPT ![r] = "deal"] /\ local' = local
      BY <3>2
    <3>3. ASSUME pc' = [pc EXCEPT ![r] = "deal"],
                 NEW d, local' = [local EXCEPT ![r].deal = d, ![r].rep = deal[d].rep,
                                               ![r].remarks = deal[d].remarks]
          PROVE  /\ \E await : pc' = [pc EXCEPT ![r] = await]
                 /\ \E e, p, m : local' = [local EXCEPT ![r].deal = e, ![r].rep = p, ![r].remarks = m]
      BY <3>3
    <3>4. QED
      BY <2>1, <3>1, <3>2, <3>3 DEF SellCheck
  <2>2. CASE CreateDeal(r) \/ UpdateDeal(r) \/ CountJackets(r)
    BY <2>2 DEF CreateDeal, UpdateDeal, CountJackets, Refuse, Goto
  <2>3. CASE FileJacket(r) \/ SellVehicle(r) \/ SellCommission(r) \/ DraftCheck(r)
    BY <2>3 DEF FileJacket, SellVehicle, SellCommission, DraftCheck, Answer, Refuse, Goto
  <2>4. CASE DraftCommit(r) \/ MoveJacket(r) \/ ReviewOpen(r)
    BY <2>4 DEF DraftCommit, MoveJacket, ReviewOpen, Answer, Goto
  <2>5. CASE ApproveCommit(r) \/ RejectCommit(r)
    BY <2>5 DEF ApproveCommit, RejectCommit, Answer, Refuse, Goto
  <2>6. CASE VehicleWrite(r) \/ DeleteVehicle(r) \/ CommissionWrite(r) \/ ArchiveRep(r)
    BY <2>6 DEF VehicleWrite, DeleteVehicle, CommissionWrite, ArchiveRep, Answer, Goto
  <2>7. CASE Crash(r)
    BY <2>7 DEF Crash, Goto
  <2> QED
    BY <2>1, <2>2, <2>3, <2>4, <2>5, <2>6, <2>7 DEF Proceed
<1>2. \A q \in Requests : q # r => pc'[q] = pc[q]
  BY <1>1 DEF TypeOK
<1>3. CASE local' = local
  BY <1>2, <1>3
<1>4. ASSUME NEW d, local' = [local EXCEPT ![r].deal = d]
      PROVE  \A q \in Requests : /\ local'[q].op = local[q].op
                                 /\ local'[q].vehicle = local[q].vehicle
                                 /\ local'[q].jacket = local[q].jacket
                                 /\ local'[q].given = local[q].given
                                 /\ q # r => local'[q] = local[q]
  BY <1>4 DEF TypeOK, Locals
<1>5. ASSUME NEW n, local' = [local EXCEPT ![r].number = n]
      PROVE  \A q \in Requests : /\ local'[q].op = local[q].op
                                 /\ local'[q].vehicle = local[q].vehicle
                                 /\ local'[q].jacket = local[q].jacket
                                 /\ local'[q].given = local[q].given
                                 /\ q # r => local'[q] = local[q]
  BY <1>5 DEF TypeOK, Locals
<1>6. ASSUME NEW s, local' = [local EXCEPT ![r].seen = s]
      PROVE  \A q \in Requests : /\ local'[q].op = local[q].op
                                 /\ local'[q].vehicle = local[q].vehicle
                                 /\ local'[q].jacket = local[q].jacket
                                 /\ local'[q].given = local[q].given
                                 /\ q # r => local'[q] = local[q]
  BY <1>6 DEF TypeOK, Locals
<1> HIDE DEF TypeInv
<1> QED
  <2>1. CASE \E d : local' = [local EXCEPT ![r].deal = d]
    BY <1>2, <1>4, <2>1
  <2>2. CASE \E d, p, m : local' = [local EXCEPT ![r].deal = d, ![r].rep = p, ![r].remarks = m]
    <3>1. PICK d, p, m : local' = [local EXCEPT ![r].deal = d, ![r].rep = p, ![r].remarks = m]
      BY <2>2
    <3>2. \A q \in Requests : /\ local'[q].op = local[q].op
                              /\ local'[q].vehicle = local[q].vehicle
                              /\ local'[q].jacket = local[q].jacket
                              /\ local'[q].given = local[q].given
                              /\ q # r => local'[q] = local[q]
      BY <3>1 DEF TypeInv, TypeOK, Locals
    <3>3. QED
      BY <1>2, <3>2
  <2>3. CASE \E n : local' = [local EXCEPT ![r].number = n]
    BY <1>2, <1>5, <2>3
  <2>4. CASE \E s : local' = [local EXCEPT ![r].seen = s]
    BY <1>2, <1>6, <2>4
  <2>5. QED
    BY <1>1, <1>3, <2>1, <2>2, <2>3, <2>4

\* A request that arrives takes nothing but its own place.
LEMMA ArriveFrame ==
  ASSUME TypeInv, NEW r \in Requests, Arrive(r)
  PROVE  /\ pc[r] = "idle"
         /\ UNCHANGED <<deal, jacket, commission, repActive>>
         /\ \A q \in Requests : q # r => local'[q] = local[q] /\ pc'[q] = pc[q]
         /\ pc'[r] \in {"sell_check", "deal", "draft_check", "loss", "set_status", "delete",
                        "set_commission", "archive_rep"} \cup ReviewOps
         /\ local'[r].op \in AllOps /\ local'[r].deal = None
         /\ local'[r].op \in ReviewOps => ReviewRead(r)
         /\ local'[r].op = "set_commission" => CommissionRead(r)
         /\ pc'[r] = "deal" => local'[r].op = "import"
<1> USE DEF TypeInv, Begin, Accept, tables
<1>1. CASE SellRead(r)
  BY <1>1 DEF SellRead, TypeOK, NoLocals, AllOps, ReviewOps
<1>2. CASE ImportVehicle(r)
  BY <1>2 DEF ImportVehicle, TypeOK, NoLocals, AllOps, ReviewOps
<1>3. CASE DraftRead(r)
  BY <1>3 DEF DraftRead, TypeOK, NoLocals, AllOps, ReviewOps
<1>4. CASE ReviewRead(r)
  <2>1. PICK j \in Requests, op \in ReviewOps :
          Accept(r, op) /\ Begin(r, op, [NoLocals EXCEPT !.op = op, !.jacket = j])
    BY <1>4 DEF ReviewRead
  <2>2. /\ local' = [local EXCEPT ![r] = [NoLocals EXCEPT !.op = op, !.jacket = j]]
        /\ pc' = [pc EXCEPT ![r] = op] /\ UNCHANGED tables /\ pc[r] = "idle"
    BY <2>1
  <2>3. local'[r].op = op /\ local'[r].deal = None
    BY <2>2 DEF TypeOK, NoLocals
  <2>4. op \notin {"set_commission", "deal"} /\ op \in AllOps
    BY DEF ReviewOps, AllOps
  <2> QED
    BY <1>4, <2>2, <2>3, <2>4 DEF TypeOK
<1>5. CASE VehicleRead(r)
  BY <1>5 DEF VehicleRead, TypeOK, NoLocals, AllOps, ReviewOps
<1>6. CASE CommissionRead(r)
  BY <1>6, ZenonT(60) DEF CommissionRead, TypeOK, NoLocals, AllOps, ReviewOps
<1>7. CASE ArchiveRead(r)
  BY <1>7 DEF ArchiveRead, TypeOK, NoLocals, AllOps, ReviewOps
<1> QED
  BY <1>1, <1>2, <1>3, <1>4, <1>5, <1>6, <1>7 DEF Arrive

\* Only FileJacket and DraftCommit write a jacket's vehicle or deal.
LEMMA JacketFrame ==
  ASSUME TypeInv, NEW r \in Requests, Proceed(r) \/ Crash(r)
  PROVE  \/ FileJacket(r) /\ ~Refuse(r)
         \/ DraftCommit(r)
         \/ \A q \in Requests : /\ jacket'[q].vehicle = jacket[q].vehicle
                                /\ jacket'[q].deal = jacket[q].deal
                                /\ jacket'[q].pays = jacket[q].pays
<1> USE DEF TypeInv
<1>1. CASE UNCHANGED jacket
  BY <1>1
<1>2. ASSUME NEW j, NEW s, jacket' = [jacket EXCEPT ![j].status = s]
      PROVE  \A q \in Requests : /\ jacket'[q].vehicle = jacket[q].vehicle
                                 /\ jacket'[q].deal = jacket[q].deal
                                 /\ jacket'[q].pays = jacket[q].pays
  BY <1>2 DEF TypeOK, JacketRow
<1>3. CASE SellCheck(r) \/ CreateDeal(r) \/ UpdateDeal(r) \/ CountJackets(r) \/ SellVehicle(r)
        \/ SellCommission(r) \/ DraftCheck(r) \/ ReviewOpen(r)
  BY <1>1, <1>3 DEF SellCheck, CreateDeal, UpdateDeal, CountJackets, SellVehicle, SellCommission,
                    DraftCheck, ReviewOpen, Refuse, tables
<1>4. CASE VehicleWrite(r) \/ DeleteVehicle(r) \/ CommissionWrite(r) \/ ArchiveRep(r) \/ Crash(r)
        \/ Refuse(r)
  BY <1>1, <1>4 DEF VehicleWrite, DeleteVehicle, CommissionWrite, ArchiveRep, Crash, Refuse, tables
<1>5. CASE MoveJacket(r)
  BY <1>2, <1>5 DEF MoveJacket
<1>6. CASE ApproveCommit(r) \/ RejectCommit(r)
  BY <1>2, <1>4, <1>6 DEF ApproveCommit, RejectCommit
<1> HIDE DEF TypeInv
<1> QED
  BY <1>1, <1>3, <1>4, <1>5, <1>6 DEF Proceed

LEMMA StepKeepsReviewed ==
  ASSUME TypeInv, ReviewedBorn, NEW r \in Requests, Arrive(r) \/ Proceed(r) \/ Crash(r)
  PROVE  ReviewedBorn'
<1>1. CASE ReviewRead(r)
  <2>1. PICK j \in Requests, op \in ReviewOps :
          /\ jacket[j].vehicle # None
          /\ UNCHANGED jacket
          /\ local' = [local EXCEPT ![r] = [NoLocals EXCEPT !.op = op, !.jacket = j]]
    BY <1>1 DEF ReviewRead, Begin, Born, tables
  <2>2. jacket[j].vehicle \in Vehicles
    BY <2>1 DEF TypeInv, TypeOK, JacketRow
  <2> QED
    BY <2>1, <2>2 DEF ReviewedBorn, TypeInv, TypeOK, NoLocals
<1>2. CASE Arrive(r) /\ ~ReviewRead(r)
  BY <1>2, ArriveFrame DEF ReviewedBorn
<1>3. CASE Proceed(r) \/ Crash(r)
  <2>1. \A q \in Requests : local'[q].op = local[q].op /\ local'[q].jacket = local[q].jacket
    BY <1>3, ProceedFrame
  <2>2. CASE (FileJacket(r) /\ ~Refuse(r)) \/ DraftCommit(r)
    <3>1. local[r].vehicle \in Vehicles
      BY <2>2 DEF FileJacket, DraftCommit, TypeInv, CarriedOK, PcOK, VehicleOps
    <3>2. jacket'[r].vehicle = local[r].vehicle
          /\ \A q \in Requests : q # r => jacket'[q] = jacket[q]
      BY <2>2 DEF FileJacket, DraftCommit, NewJacket, TypeInv, TypeOK
    <3> QED
      BY <2>1, <3>1, <3>2 DEF ReviewedBorn, TypeInv, CarriedOK
  <2>3. CASE ~((FileJacket(r) /\ ~Refuse(r)) \/ DraftCommit(r))
    BY <1>3, <2>1, <2>3, JacketFrame DEF ReviewedBorn, TypeInv, CarriedOK
  <2> QED
    BY <2>2, <2>3
<1> QED
  BY <1>1, <1>2, <1>3

LEMMA InitType == Init => TypeInv /\ ReviewedBorn
<1> SUFFICES ASSUME Init PROVE TypeInv /\ ReviewedBorn
  OBVIOUS
<1> USE DealDeskAssumption, NoLocalsType DEF Init
<1>1. TypeOK
  BY DEF TypeOK, VehicleRow, DealRow, JacketRow, CommissionRow, NoDeal, NoJacket, VehicleStatus,
         JacketStatus
<1>2. CarriedOK
  BY DEF CarriedOK, NoLocals, VehicleOps, ReviewOps, AllOps
<1>3. PcOK
  BY DEF PcOK, NoLocals, ReviewOps
<1>4. ReviewedBorn
  BY DEF ReviewedBorn, NoLocals, AllOps
<1> QED
  BY <1>1, <1>2, <1>3, <1>4 DEF TypeInv

LEMMA StepType == TypeInv /\ ReviewedBorn /\ [Next]_vars => TypeInv' /\ ReviewedBorn'
<1> SUFFICES ASSUME TypeInv, ReviewedBorn, [Next]_vars PROVE TypeInv' /\ ReviewedBorn'
  OBVIOUS
<1>1. CASE Next
  <2>1. PICK r \in Requests : Arrive(r) \/ Proceed(r) \/ Crash(r)
    BY <1>1 DEF Next
  <2>2. TypeInv'
    BY <2>1, ArriveType, SaleProceedType, DeskProceedType DEF Proceed
  <2> QED
    BY <2>1, <2>2, StepKeepsReviewed
<1>2. CASE UNCHANGED vars
  BY <1>2 DEF vars, tables, TypeInv, TypeOK, CarriedOK, PcOK, ReviewedBorn
<1> QED
  BY <1>1, <1>2

(* The tables and what requests carry across their awaits keep their types *)
(* in every interleaving, whatever the operations of the instance.         *)
THEOREM TypeCorrect == Spec => []TypeOK
<1>1. Spec => [](TypeInv /\ ReviewedBorn)
  BY InitType, StepType, PTL DEF Spec
<1>2. TypeInv /\ ReviewedBorn => TypeOK
  BY DEF TypeInv
<1> QED
  BY <1>1, <1>2, PTL

-----------------------------------------------------------------------------
(* The strengthening of the safety invariants.                             *)

SaleOp == {"sell", "import"}

\* The jacket row a request creates is written once, for the vehicle it carries.
JacketOwned == \A r \in Requests : Born(r) =>
  /\ local[r].op \in SaleOp \cup {"draft"}
  /\ jacket[r].vehicle = local[r].vehicle
  /\ pc[r] \in {"vehicle", "commission", "ok", "crashed"}

\* A jacket on a deal was filed by a sale, on the deal it carries, and is approved.
JacketFiled == \A r \in Requests : HasDeal(r) =>
  /\ local[r].op \in SaleOp
  /\ jacket[r].deal = local[r].deal
  /\ jacket[r].status = "approved"

\* So is the deal row, after the check and before the jacket.
DealOwned == \A r \in Requests : deal[r].vehicle # None =>
  /\ local[r].op \in SaleOp
  /\ local[r].deal = r
  /\ pc[r] \notin {"idle", "sell_check", "deal"}

\* A deal that a request carries is its vehicle's.
DealCarried == \A r \in Requests :
  /\ local[r].deal # None =>
       /\ local[r].op \in SaleOp
       /\ deal[local[r].deal].vehicle = local[r].vehicle
  /\ pc[r] \in {"count", "jacket"} => local[r].deal # None

DealKey == \A d, e \in Requests :
  deal[d].vehicle # None /\ deal[e].vehicle = deal[d].vehicle => d = e

JacketKey == \A j, k \in Requests :
  HasDeal(j) /\ HasDeal(k) /\ jacket[j].deal = jacket[k].deal => j = k

\* A review never holds a sale's jacket.
ReviewedOpen == \A r \in Requests : local[r].op \in ReviewOps => ~HasDeal(local[r].jacket)

\* The request that created a deal files its jacket, crashes before it does,
\* or is refused because another one has.
DealProgress == \A d \in Requests :
  deal[d].vehicle # None => pc[d] \in {"count", "jacket", "crashed"} \/ Filed(d)

\* What markSold has done when it comes to the vehicle, the commission, the answer.
SaleProgress == \A r \in Requests : local[r].op = "sell" =>
  /\ pc[r] \in {"vehicle", "commission", "ok"} => HasDeal(r)
  /\ pc[r] = "ok" /\ jacket[r].pays => commission[r].status # None

\* A commission that an update works on exists.
CommissionHeld == \A r \in Requests :
  local[r].op = "set_commission" => commission[local[r].jacket].status # None

\* And it belongs to a jacket.
CommissionBorn == \A j \in Requests : commission[j].status # None => Born(j)

DeskInv ==
  /\ TypeInv /\ ReviewedBorn
  /\ JacketOwned /\ JacketFiled /\ DealOwned /\ DealCarried
  /\ DealKey /\ JacketKey /\ ReviewedOpen
  /\ DealProgress /\ SaleProgress /\ CommissionHeld /\ CommissionBorn

\* The place a request moves to when it neither begins, nor writes a deal or a jacket.
QuietMove(r) ==
  \/ pc[r] = "deal" /\ pc'[r] = "count" /\ local[r].deal # None
  \/ pc[r] = "count" /\ pc'[r] = "jacket"
  \/ pc[r] = "vehicle" /\ pc'[r] = "commission"
  \/ /\ pc[r] = "commission" /\ pc'[r] = "ok"
     /\ jacket[r].pays => commission'[r].status # None
  \/ pc[r] = "jacket" /\ pc'[r] = "refused" /\ JacketsOfDeal(local[r].deal) # {}
  \/ pc[r] \in {"sell_check", "deal"} /\ pc'[r] = "refused"
  \/ pc[r] \notin {"idle"} \cup Answered /\ pc'[r] = "crashed"
  \/ /\ local[r].op \notin SaleOp /\ ~Born(r)
     /\ pc'[r] \notin {"idle", "sell_check", "deal", "count", "jacket", "vehicle", "commission"}

\* What such a step leaves alone.
Quiet(r) ==
  /\ QuietMove(r)
  /\ \A q \in Requests :
       /\ local'[q].op = local[q].op
       /\ local'[q].vehicle = local[q].vehicle
       /\ local'[q].jacket = local[q].jacket
       /\ local'[q].deal = local[q].deal
       /\ q # r => pc'[q] = pc[q]
       /\ deal'[q].vehicle = deal[q].vehicle
       /\ jacket'[q].vehicle = jacket[q].vehicle
       /\ jacket'[q].deal = jacket[q].deal
       /\ jacket'[q].pays = jacket[q].pays
       /\ HasDeal(q) => jacket'[q] = jacket[q]
       /\ commission[q].status # None => commission'[q].status # None
       /\ commission[q].status = None /\ commission'[q].status # None =>
            jacket'[q].status = "approved" /\ Born(q) /\ (HasDeal(q) => q = r)

DeskStrong ==
  /\ JacketOwned /\ JacketFiled /\ DealOwned /\ DealCarried
  /\ DealKey /\ JacketKey /\ ReviewedOpen
  /\ DealProgress /\ SaleProgress /\ CommissionHeld /\ CommissionBorn

LEMMA QuietStep ==
  ASSUME TypeInv, DeskStrong, NEW r \in Requests, Quiet(r)
  PROVE  DeskStrong'
<1> USE DealDeskAssumption
<1>1. \A q \in Requests : (Born(q))' = Born(q) /\ (HasDeal(q))' = HasDeal(q) /\ (Filed(q))' = Filed(q)
  BY DEF Quiet, Born, HasDeal, Filed
<1>2. JacketOwned'
  BY <1>1 DEF DeskStrong, JacketOwned, Quiet, QuietMove, Answered
<1>3. JacketFiled'
  BY <1>1 DEF DeskStrong, JacketFiled, Quiet
<1>4. DealOwned'
  BY DEF DeskStrong, DealOwned, Quiet, QuietMove
<1>5. DealCarried'
  <2>1. \A q \in Requests : local[q].deal \in Requests \cup {None}
    BY LocalFields
  <2> QED
    BY <2>1 DEF DeskStrong, DealCarried, Quiet, QuietMove
<1>6. DealKey' /\ JacketKey'
  BY <1>1 DEF DeskStrong, DealKey, JacketKey, Quiet
<1>7. ReviewedOpen'
  BY <1>1, LocalFields DEF DeskStrong, ReviewedOpen, Quiet, TypeInv, CarriedOK
<1>8. DealProgress'
  <2>1. pc[r] = "jacket" /\ JacketsOfDeal(local[r].deal) # {} /\ deal[r].vehicle # None => Filed(r)
    BY DEF DeskStrong, DealOwned, JacketsOfDeal, Filed, HasDeal
  <2>2. pc[r] \in {"vehicle", "commission"} \cup Answered /\ deal[r].vehicle # None
          => Filed(r) \/ pc[r] = "crashed"
    BY DEF DeskStrong, DealProgress, Answered
  <2> QED
    BY <1>1, <2>1, <2>2 DEF DeskStrong, DealProgress, DealOwned, Quiet, QuietMove
<1>9. SaleProgress'
  BY <1>1 DEF DeskStrong, SaleProgress, Quiet, QuietMove, SaleOp
<1>10. CommissionHeld'
  BY DEF DeskStrong, CommissionHeld, Quiet, TypeInv, CarriedOK
<1>11. CommissionBorn'
  BY <1>1 DEF DeskStrong, CommissionBorn, Quiet
<1> QED
  BY <1>11, <1>2, <1>3, <1>4, <1>5, <1>6, <1>7, <1>8, <1>9, <1>10 DEF DeskStrong

LEMMA ArriveStep ==
  ASSUME TypeInv, DeskStrong, NEW r \in Requests, Arrive(r)
  PROVE  DeskStrong'
<1> USE DealDeskAssumption
<1>1. /\ pc[r] = "idle"
      /\ UNCHANGED <<deal, jacket, commission>>
      /\ \A q \in Requests : q # r => local'[q] = local[q] /\ pc'[q] = pc[q]
      /\ local'[r].deal = None
  BY ArriveFrame
<1>2. pc'[r] \notin {"idle", "count", "jacket", "vehicle", "commission", "ok", "crashed"}
  BY ArriveFrame DEF ReviewOps
<1>3. ~Born(r) /\ ~HasDeal(r) /\ deal[r].vehicle = None
  BY <1>1 DEF DeskStrong, JacketOwned, DealOwned, HasDeal
<1>4. \A q \in Requests : (Born(q))' = Born(q) /\ (HasDeal(q))' = HasDeal(q) /\ (Filed(q))' = Filed(q)
  BY <1>1 DEF Born, HasDeal, Filed
<1>5. JacketOwned' /\ JacketFiled'
  BY <1>1, <1>3, <1>4 DEF DeskStrong, JacketOwned, JacketFiled
<1>6. DealOwned' /\ DealCarried'
  BY <1>1, <1>2, <1>3 DEF DeskStrong, DealOwned, DealCarried
<1>7. DealKey' /\ JacketKey'
  BY <1>1, <1>4 DEF DeskStrong, DealKey, JacketKey
<1>8. ReviewedOpen'
  <2>1. CASE ReviewRead(r)
    <3>1. PICK j \in Requests, op \in ReviewOps :
            /\ MayOpen(op, jacket[j].status)
            /\ local' = [local EXCEPT ![r] = [NoLocals EXCEPT !.op = op, !.jacket = j]]
      BY <2>1 DEF ReviewRead, Begin
    <3>2. jacket[j].status # "approved"
      BY <3>1 DEF MayOpen, Final, ReviewOps
    <3>3. ~HasDeal(j)
      BY <3>2 DEF DeskStrong, JacketFiled
    <3>4. local'[r].jacket = j
      BY <3>1 DEF TypeInv, TypeOK, NoLocals
    <3> QED
      BY <1>1, <1>4, <3>3, <3>4 DEF DeskStrong, ReviewedOpen, TypeInv, CarriedOK
  <2>2. CASE local'[r].op \notin ReviewOps
    BY <1>1, <1>4, <2>2 DEF DeskStrong, ReviewedOpen, TypeInv, CarriedOK
  <2> QED
    BY <2>1, <2>2, ArriveFrame
<1>9. DealProgress' /\ SaleProgress'
  BY <1>1, <1>2, <1>3, <1>4 DEF DeskStrong, DealProgress, SaleProgress
<1>10. CommissionHeld'
  <2>1. CASE CommissionRead(r)
    <3>1. PICK j \in Requests, c \in CommissionStatus :
            /\ commission[j].status # None
            /\ local' = [local EXCEPT ![r] =
                 [NoLocals EXCEPT !.op = "set_commission", !.jacket = j, !.to = c]]
      BY <2>1 DEF CommissionRead, Begin
    <3>2. local'[r].jacket = j
      BY <3>1 DEF TypeInv, TypeOK, NoLocals
    <3> QED
      BY <1>1, <3>1, <3>2 DEF DeskStrong, CommissionHeld
  <2>2. CASE local'[r].op # "set_commission"
    BY <1>1, <2>2 DEF DeskStrong, CommissionHeld
  <2> QED
    BY <2>1, <2>2, ArriveFrame
<1>11. CommissionBorn'
  BY <1>1, <1>4 DEF DeskStrong, CommissionBorn
<1> QED
  BY <1>5, <1>6, <1>7, <1>8, <1>9, <1>10, <1>11 DEF DeskStrong

LEMMA SellCheckStep ==
  ASSUME TypeInv, DeskStrong, NEW r \in Requests, SellCheck(r), ~Refuse(r)
  PROVE  DeskStrong'
<1> USE DealDeskAssumption
<1>1. PICK d \in Requests \cup {None} :
        /\ pc[r] = "sell_check"
        /\ d # None => deal[d].vehicle = local[r].vehicle
        /\ local'[r].deal = d
        /\ \A q \in Requests : /\ local'[q].op = local[q].op
                               /\ local'[q].vehicle = local[q].vehicle
                               /\ local'[q].jacket = local[q].jacket
                               /\ q # r => local'[q] = local[q]
        /\ pc' = [pc EXCEPT ![r] = "deal"]
        /\ UNCHANGED <<deal, jacket, commission>>
  <2>1. /\ pc[r] = "sell_check" /\ pc' = [pc EXCEPT ![r] = "deal"]
        /\ UNCHANGED <<deal, jacket, commission>>
    BY DEF SellCheck, tables
  <2>2. CASE local' = local
    BY <2>1, <2>2, LocalFields DEF DeskStrong, DealCarried
  <2>3. ASSUME NEW d \in DealsOf(local[r].vehicle),
               local' = [local EXCEPT ![r].deal = d, ![r].rep = deal[d].rep,
                                      ![r].remarks = deal[d].remarks]
        PROVE  /\ d \in Requests /\ deal[d].vehicle = local[r].vehicle
               /\ local'[r].deal = d
               /\ \A q \in Requests : /\ local'[q].op = local[q].op
                                      /\ local'[q].vehicle = local[q].vehicle
                                      /\ local'[q].jacket = local[q].jacket
                                      /\ q # r => local'[q] = local[q]
    <3>1. d \in Requests /\ deal[d].vehicle = local[r].vehicle
      BY DEF DealsOf
    <3>2. deal[d].rep \in Requests \cup {None} /\ deal[d].remarks \in Requests \cup {None}
      BY <3>1 DEF TypeInv, TypeOK, DealRow
    <3>3. local'[r].deal = d
      BY <2>3 DEF TypeInv, TypeOK, Locals
    <3>4. QED
      BY <2>3, <3>1, <3>2, <3>3, CarryRow
  <2>4. QED
    BY <2>1, <2>2, <2>3 DEF SellCheck
<1>2. /\ local[r].op = "sell"
      /\ \A q \in Requests : q # r => pc'[q] = pc[q]
      /\ pc'[r] = "deal"
  BY <1>1 DEF TypeInv, PcOK, TypeOK
<1>3. /\ \A q \in Requests : /\ local'[q].op = local[q].op
                             /\ local'[q].vehicle = local[q].vehicle
                             /\ local'[q].jacket = local[q].jacket
                             /\ q # r => local'[q] = local[q]
      /\ local'[r].deal = d
  BY <1>1
<1>4. ~Born(r) /\ ~HasDeal(r) /\ deal[r].vehicle = None
  BY <1>1 DEF DeskStrong, JacketOwned, DealOwned, HasDeal
<1>5. \A q \in Requests : (Born(q))' = Born(q) /\ (HasDeal(q))' = HasDeal(q) /\ (Filed(q))' = Filed(q)
  BY <1>1 DEF Born, HasDeal, Filed
<1>6. JacketOwned' /\ JacketFiled'
  BY <1>1, <1>2, <1>3, <1>4, <1>5 DEF DeskStrong, JacketOwned, JacketFiled
<1>7. DealOwned' /\ DealCarried'
  BY <1>1, <1>2, <1>3, <1>4 DEF DeskStrong, DealOwned, DealCarried, SaleOp
<1>8. DealKey' /\ JacketKey'
  BY <1>1, <1>5 DEF DeskStrong, DealKey, JacketKey
<1>9. ReviewedOpen' /\ CommissionHeld'
  BY <1>1, <1>3, <1>5 DEF DeskStrong, ReviewedOpen, CommissionHeld, TypeInv, CarriedOK
<1>10. DealProgress' /\ SaleProgress'
  BY <1>1, <1>2, <1>3, <1>4, <1>5 DEF DeskStrong, DealProgress, SaleProgress
<1>11. CommissionBorn'
  BY <1>1, <1>5 DEF DeskStrong, CommissionBorn
<1> QED
  BY <1>6, <1>7, <1>8, <1>9, <1>10, <1>11 DEF DeskStrong

LEMMA CreateDealStep ==
  ASSUME TypeInv, DeskStrong, NEW r \in Requests, CreateDeal(r), ~Refuse(r)
  PROVE  DeskStrong'
<1> USE DealDeskAssumption
<1>1. /\ pc[r] = "deal"
      /\ \A q \in Requests : deal[q].vehicle # local[r].vehicle
      /\ deal' = [deal EXCEPT ![r] = NewDeal(r)]
      /\ local' = [local EXCEPT ![r].deal = r]
      /\ pc' = [pc EXCEPT ![r] = "count"]
      /\ UNCHANGED <<vehicle, jacket, commission, repActive>>
  BY DEF CreateDeal, DealsOf
<1>2. /\ local[r].op \in SaleOp /\ local[r].vehicle \in Vehicles
      /\ \A q \in Requests : q # r => pc'[q] = pc[q]
      /\ pc'[r] = "count"
      /\ \A q \in Requests : q # r => deal'[q] = deal[q]
      /\ deal'[r].vehicle = local[r].vehicle
  BY <1>1 DEF NewDeal, TypeInv, PcOK, CarriedOK, TypeOK, SaleOp, VehicleOps
<1>3. /\ \A q \in Requests : /\ local'[q].op = local[q].op
                             /\ local'[q].vehicle = local[q].vehicle
                             /\ local'[q].jacket = local[q].jacket
                             /\ q # r => local'[q] = local[q]
      /\ local'[r].deal = r
  <2>1. local'[r].deal = r
    BY <1>1 DEF TypeInv, TypeOK, Locals
  <2> QED
    BY <1>1, <2>1, CarryDeal
<1>4. ~Born(r) /\ ~HasDeal(r) /\ deal[r].vehicle = None
  BY <1>1 DEF DeskStrong, JacketOwned, DealOwned, HasDeal
<1>5. \A q \in Requests : (Born(q))' = Born(q) /\ (HasDeal(q))' = HasDeal(q) /\ (Filed(q))' = Filed(q)
  BY <1>1 DEF Born, HasDeal, Filed
<1>6. JacketOwned' /\ JacketFiled'
  BY <1>1, <1>2, <1>3, <1>4, <1>5 DEF DeskStrong, JacketOwned, JacketFiled
<1>7. DealOwned'
  BY <1>2, <1>3 DEF DeskStrong, DealOwned
<1>8. DealCarried'
  <2>1. \A q \in Requests : local[q].deal # None =>
          local[q].deal \in Requests /\ local[q].deal # r
    BY <1>4, LocalFields DEF DeskStrong, DealCarried, TypeInv, CarriedOK, SaleOp, VehicleOps
  <2> QED
    BY <1>2, <1>3, <2>1 DEF DeskStrong, DealCarried
<1>9. DealKey' /\ JacketKey'
  BY <1>1, <1>2, <1>5 DEF DeskStrong, DealKey, JacketKey
<1>10. ReviewedOpen' /\ CommissionHeld'
  BY <1>1, <1>3, <1>5 DEF DeskStrong, ReviewedOpen, CommissionHeld, TypeInv, CarriedOK
<1>11. DealProgress' /\ SaleProgress'
  BY <1>1, <1>2, <1>3, <1>4, <1>5 DEF DeskStrong, DealProgress, SaleProgress
<1>12. CommissionBorn'
  BY <1>1, <1>5 DEF DeskStrong, CommissionBorn
<1> QED
  BY <1>6, <1>7, <1>8, <1>9, <1>10, <1>11, <1>12 DEF DeskStrong

LEMMA FileJacketStep ==
  ASSUME TypeInv, ReviewedBorn, DeskStrong, NEW r \in Requests, FileJacket(r), ~Refuse(r)
  PROVE  DeskStrong'
<1> USE DealDeskAssumption
<1>1. /\ pc[r] = "jacket"
      /\ JacketsOfDeal(local[r].deal) = {}
      /\ jacket' = [jacket EXCEPT ![r] = NewJacket(r, local[r].deal, "approved")]
      /\ pc' = [pc EXCEPT ![r] = IF local[r].op = "sell" THEN "vehicle" ELSE "ok"]
      /\ UNCHANGED <<vehicle, deal, commission, repActive, local>>
  BY DEF FileJacket, Goto
<1>2. /\ local[r].op \in SaleOp /\ local[r].vehicle \in Vehicles
      /\ \A q \in Requests : q # r => pc'[q] = pc[q] /\ jacket'[q] = jacket[q]
      /\ pc'[r] = IF local[r].op = "sell" THEN "vehicle" ELSE "ok"
      /\ jacket'[r].vehicle = local[r].vehicle
      /\ jacket'[r].deal = local[r].deal
      /\ jacket'[r].status = "approved"
  BY <1>1 DEF NewJacket, TypeInv, PcOK, CarriedOK, TypeOK, SaleOp, VehicleOps
<1>3. local[r].deal \in Requests
  BY <1>1, LocalFields DEF DeskStrong, DealCarried
<1>4. ~Born(r) /\ ~HasDeal(r)
  BY <1>1 DEF DeskStrong, JacketOwned, HasDeal
<1>5. /\ (Born(r))' /\ (HasDeal(r))'
      /\ \A q \in Requests : q # r => (Born(q))' = Born(q) /\ (HasDeal(q))' = HasDeal(q)
  BY <1>2, <1>3 DEF Born, HasDeal
<1>6. \A d \in Requests : (Filed(d))' <=> Filed(d) \/ d = local[r].deal
  BY <1>2, <1>4, <1>5 DEF Filed
<1>7. \A q \in Requests : HasDeal(q) => jacket[q].deal # local[r].deal
  BY <1>1 DEF JacketsOfDeal, HasDeal
<1>8. JacketOwned' /\ JacketFiled'
  BY <1>1, <1>2, <1>5 DEF DeskStrong, JacketOwned, JacketFiled
<1>9. DealOwned' /\ DealCarried'
  BY <1>1, <1>2 DEF DeskStrong, DealOwned, DealCarried
<1>10. DealKey'
  BY <1>1 DEF DeskStrong, DealKey
<1>11. JacketKey'
  BY <1>2, <1>5, <1>7 DEF DeskStrong, JacketKey
<1>12. ReviewedOpen'
  <2>1. \A q \in Requests : local[q].op \in ReviewOps => local[q].jacket \in Requests /\ local[q].jacket # r
    BY <1>4 DEF ReviewedBorn, Born, TypeInv, CarriedOK
  <2> QED
    BY <1>1, <1>5, <2>1 DEF DeskStrong, ReviewedOpen
<1>13. DealProgress'
  <2>1. deal[r].vehicle # None => local[r].deal = r
    BY DEF DeskStrong, DealOwned
  <2> QED
    BY <1>1, <1>2, <1>6, <2>1 DEF DeskStrong, DealProgress
<1>14. SaleProgress'
  BY <1>1, <1>2, <1>5 DEF DeskStrong, SaleProgress
<1>15. CommissionHeld'
  BY <1>1 DEF DeskStrong, CommissionHeld
<1>16. CommissionBorn'
  BY <1>1, <1>5 DEF DeskStrong, CommissionBorn
<1> QED
  BY <1>8, <1>9, <1>10, <1>11, <1>12, <1>13, <1>14, <1>15, <1>16 DEF DeskStrong

LEMMA DraftCommitStep ==
  ASSUME TypeInv, ReviewedBorn, DeskStrong, NEW r \in Requests, DraftCommit(r)
  PROVE  DeskStrong'
<1> USE DealDeskAssumption
<1>1. /\ pc[r] = "draft_commit"
      /\ jacket' = [jacket EXCEPT ![r] = NewJacket(r, None, "draft")]
      /\ pc' = [pc EXCEPT ![r] = "ok"]
      /\ UNCHANGED <<deal, commission, repActive, local>>
  BY DEF DraftCommit, Answer, Goto
<1>2. /\ local[r].op = "draft"
      /\ \A q \in Requests : q # r => pc'[q] = pc[q] /\ jacket'[q] = jacket[q]
      /\ pc'[r] = "ok"
      /\ jacket'[r].vehicle = local[r].vehicle
      /\ jacket'[r].deal = None
  BY <1>1 DEF NewJacket, TypeInv, PcOK, TypeOK
<1>3. ~Born(r) /\ ~HasDeal(r) /\ deal[r].vehicle = None
  BY <1>1, <1>2 DEF DeskStrong, JacketOwned, DealOwned, HasDeal, SaleOp
<1>4. /\ \A q \in Requests : q # r => (Born(q))' = Born(q)
      /\ \A q \in Requests : (HasDeal(q))' = HasDeal(q)
  BY <1>2, <1>3 DEF Born, HasDeal
<1>5. \A d \in Requests : (Filed(d))' = Filed(d)
  BY <1>2, <1>3, <1>4 DEF Filed
<1>6. JacketOwned' /\ JacketFiled'
  BY <1>1, <1>2, <1>3, <1>4 DEF DeskStrong, JacketOwned, JacketFiled
<1>7. DealOwned' /\ DealCarried' /\ DealKey'
  BY <1>1, <1>2 DEF DeskStrong, DealOwned, DealCarried, DealKey
<1>8. JacketKey'
  BY <1>2, <1>3, <1>4 DEF DeskStrong, JacketKey
<1>9. ReviewedOpen' /\ CommissionHeld'
  BY <1>1, <1>4 DEF DeskStrong, ReviewedOpen, CommissionHeld, TypeInv, CarriedOK
<1>10. DealProgress'
  BY <1>1, <1>2, <1>3, <1>5 DEF DeskStrong, DealProgress
<1>11. SaleProgress'
  BY <1>1, <1>2, <1>4 DEF DeskStrong, SaleProgress
<1>12. CommissionBorn'
  <2>1. (Born(r))'
    BY <1>1, <1>2 DEF Born, TypeInv, CarriedOK, VehicleOps
  <2> QED
    BY <1>1, <1>4, <2>1 DEF DeskStrong, CommissionBorn
<1> QED
  BY <1>6, <1>7, <1>8, <1>9, <1>10, <1>11, <1>12 DEF DeskStrong

\* Every other step of a request in flight is quiet.
LEMMA QuietActions ==
  ASSUME TypeInv, ReviewedBorn, DeskStrong, NEW r \in Requests, Proceed(r) \/ Crash(r),
         ~(SellCheck(r) /\ ~Refuse(r)), ~(CreateDeal(r) /\ ~Refuse(r)),
         ~(FileJacket(r) /\ ~Refuse(r)), ~DraftCommit(r)
  PROVE  Quiet(r)
<1> USE DealDeskAssumption
<1>1. \A q \in Requests : /\ jacket'[q].vehicle = jacket[q].vehicle
                          /\ jacket'[q].deal = jacket[q].deal
                          /\ jacket'[q].pays = jacket[q].pays
  BY JacketFrame
<1>2. \A q \in Requests : /\ local'[q].op = local[q].op
                          /\ local'[q].vehicle = local[q].vehicle
                          /\ local'[q].jacket = local[q].jacket
                          /\ q # r => pc'[q] = pc[q]
  BY ProceedFrame
<1>3. \A q \in Requests : local'[q].deal = local[q].deal
  <2>1. CASE UNCHANGED local
    BY <2>1
  <2>2. CASE CountJackets(r)
    BY <2>2 DEF CountJackets, TypeInv, TypeOK, Locals
  <2>3. CASE ReviewOpen(r)
    BY <2>3 DEF ReviewOpen, TypeInv, TypeOK, Locals
  <2>4. ~CountJackets(r) /\ ~ReviewOpen(r) => UNCHANGED local
    BY DEF Proceed, Crash, SellCheck, CreateDeal, UpdateDeal, FileJacket, SellVehicle,
           SellCommission, DraftCheck, MoveJacket, ApproveCommit, RejectCommit,
           VehicleWrite, DeleteVehicle, CommissionWrite, ArchiveRep, Answer, Goto, Refuse
  <2> QED
    BY <2>1, <2>2, <2>3, <2>4
<1>4. \A q \in Requests : deal'[q].vehicle = deal[q].vehicle
  <2>1. CASE UpdateDeal(r)
    BY <2>1 DEF UpdateDeal, TypeInv, TypeOK, DealRow
  <2>2. ~UpdateDeal(r) => UNCHANGED deal
    BY DEF Proceed, Crash, SellCheck, CreateDeal, CountJackets, FileJacket, SellVehicle,
           SellCommission, DraftCheck, MoveJacket, ReviewOpen, ApproveCommit, RejectCommit,
           VehicleWrite, DeleteVehicle, CommissionWrite, ArchiveRep, Refuse, tables
  <2> QED
    BY <2>1, <2>2
<1>5. \A q \in Requests : HasDeal(q) => jacket'[q] = jacket[q]
  <2>1. CASE MoveJacket(r) \/ (ApproveCommit(r) /\ ~Refuse(r)) \/ RejectCommit(r)
    <3>1. local[r].op \in ReviewOps
      BY <2>1 DEF MoveJacket, ApproveCommit, RejectCommit, TypeInv, PcOK, ReviewOps
    <3>2. ~HasDeal(local[r].jacket)
      BY <3>1 DEF DeskStrong, ReviewedOpen
    <3>3. \A q \in Requests : q # local[r].jacket => jacket'[q] = jacket[q]
      BY <2>1 DEF MoveJacket, ApproveCommit, RejectCommit, TypeInv, TypeOK
    <3> QED
      BY <3>2, <3>3
  <2>2. ~(MoveJacket(r) \/ (ApproveCommit(r) /\ ~Refuse(r)) \/ RejectCommit(r)) => UNCHANGED jacket
    BY DEF Proceed, Crash, SellCheck, CreateDeal, UpdateDeal, CountJackets, FileJacket,
           SellVehicle, SellCommission, DraftCheck, ReviewOpen,
           VehicleWrite, DeleteVehicle, CommissionWrite, ArchiveRep, Refuse, tables
  <2> QED
    BY <2>1, <2>2
<1>6. \A q \in Requests : commission[q].status # None => commission'[q].status # None
  <2>1. ASSUME NEW j, NEW c \in CommissionStatus,
               commission' = [commission EXCEPT ![j].status = c]
        PROVE  \A q \in Requests : commission[q].status # None => commission'[q].status # None
    BY <2>1 DEF TypeInv, TypeOK, CommissionRow
  <2>2. "approved" \in CommissionStatus /\ "rejected" \in CommissionStatus
    BY DEF CommissionStatus
  <2>3. CASE CommissionWrite(r)
    <3>1. local[r].to \in CommissionStatus
      BY <2>3 DEF CommissionWrite, TypeInv, PcOK, CarriedOK
    <3> QED
      BY <2>1, <2>3, <3>1 DEF CommissionWrite
  <2>4. CASE SellCommission(r)
    BY <2>1, <2>2, <2>4 DEF SellCommission
  <2>5. CASE ApproveCommit(r) \/ RejectCommit(r)
    BY <2>1, <2>2, <2>5 DEF ApproveCommit, RejectCommit, Refuse, tables
  <2>6. CASE ArchiveRep(r)
    BY <2>2, <2>6 DEF ArchiveRep
  <2>7. ~(CommissionWrite(r) \/ SellCommission(r) \/ ApproveCommit(r) \/ RejectCommit(r)
          \/ ArchiveRep(r)) => UNCHANGED commission
    BY DEF Proceed, Crash, SellCheck, CreateDeal, UpdateDeal, CountJackets, FileJacket,
           SellVehicle, DraftCheck, MoveJacket, ReviewOpen, VehicleWrite, DeleteVehicle,
           Refuse, tables
  <2> QED
    BY <2>3, <2>4, <2>5, <2>6, <2>7
<1>7. QuietMove(r)
  <2>p. ASSUME NEW await, pc' = [pc EXCEPT ![r] = await] PROVE pc'[r] = await
    BY <2>p DEF TypeInv, TypeOK
  <2>0. Born(r) => local[r].op \in SaleOp \cup {"draft"} /\ pc[r] \in {"vehicle", "commission", "ok", "crashed"}
    BY DEF DeskStrong, JacketOwned
  <2>1. CASE SellCheck(r) \/ CreateDeal(r) \/ FileJacket(r)
    BY <2>1, <2>p DEF SellCheck, CreateDeal, FileJacket, Refuse, Goto, QuietMove
  <2>2. CASE UpdateDeal(r) \/ SellVehicle(r)
    BY <2>2, <2>p DEF UpdateDeal, SellVehicle, Goto, QuietMove
  <2>3. CASE SellCommission(r)
    <3>1. pc[r] = "commission" /\ pc'[r] = "ok"
      BY <2>3, <2>p DEF SellCommission, Answer, Goto
    <3>2. jacket[r].pays => commission'[r].status # None
      BY <2>3 DEF SellCommission, TypeInv, TypeOK, CommissionRow, CommissionStatus
    <3> QED
      BY <3>1, <3>2 DEF QuietMove
  <2>4. CASE CountJackets(r)
    <3>1. CASE pc[r] = "count" /\ pc'[r] = "jacket"
      BY <3>1 DEF QuietMove
    <3>2. CASE pc[r] = "draft_count" /\ pc'[r] = "draft_commit"
      BY <2>0, <3>2 DEF QuietMove, TypeInv, PcOK, SaleOp
    <3>3. PICK await \in {"count", "draft_count"} :
            /\ pc[r] = await
            /\ pc' = [pc EXCEPT ![r] = IF await = "count" THEN "jacket" ELSE "draft_commit"]
      BY <2>4 DEF CountJackets
    <3>4. pc'[r] = IF await = "count" THEN "jacket" ELSE "draft_commit"
      BY <2>p, <3>3
    <3> QED
      BY <3>1, <3>2, <3>3, <3>4
  <2>5. CASE Crash(r)
    BY <2>5, <2>p DEF Crash, Goto, QuietMove, Answered, Awaits, ReviewOps
  <2>6. CASE DraftCheck(r)
    BY <2>0, <2>6, <2>p DEF DraftCheck, Goto, Refuse, QuietMove, TypeInv, PcOK, SaleOp
  <2>7. CASE MoveJacket(r) \/ ReviewOpen(r) \/ ApproveCommit(r) \/ RejectCommit(r)
    <3>1. local[r].op \notin SaleOp /\ ~Born(r)
      BY <2>0, <2>7 DEF MoveJacket, ReviewOpen, ApproveCommit, RejectCommit, TypeInv, PcOK, SaleOp,
                        ReviewOps
    <3>2. pc'[r] \in {"approve_commit", "reject_commit", "ok", "refused"}
      BY <2>7, <2>p DEF MoveJacket, ReviewOpen, ApproveCommit, RejectCommit, Answer, Refuse, Goto
    <3> QED
      BY <3>1, <3>2 DEF QuietMove
  <2>8. CASE VehicleWrite(r) \/ DeleteVehicle(r) \/ CommissionWrite(r) \/ ArchiveRep(r)
    <3>1. local[r].op \notin SaleOp /\ ~Born(r)
      BY <2>0, <2>8 DEF VehicleWrite, DeleteVehicle, CommissionWrite, ArchiveRep, TypeInv, PcOK, SaleOp
    <3>2. pc'[r] = "ok"
      BY <2>8, <2>p DEF VehicleWrite, DeleteVehicle, CommissionWrite, ArchiveRep, Answer, Goto
    <3> QED
      BY <3>1, <3>2 DEF QuietMove
  <2> QED
    BY <2>1, <2>2, <2>3, <2>4, <2>5, <2>6, <2>7, <2>8 DEF Proceed
<1>8. \A q \in Requests : commission[q].status = None /\ commission'[q].status # None =>
        jacket'[q].status = "approved" /\ Born(q) /\ (HasDeal(q) => q = r)
  <2>1. CASE SellCommission(r)
    <3>1. HasDeal(r) /\ Born(r) /\ jacket[r].status = "approved"
      BY <2>1 DEF SellCommission, DeskStrong, SaleProgress, JacketFiled, TypeInv, PcOK, HasDeal
    <3>2. UNCHANGED jacket /\ \A q \in Requests : q # r => commission'[q] = commission[q]
      BY <2>1 DEF SellCommission, TypeInv, TypeOK
    <3> QED
      BY <3>1, <3>2
  <2>2. CASE ApproveCommit(r) /\ ~Refuse(r)
    <3>1. local[r].jacket \in Requests /\ ~HasDeal(local[r].jacket)
      BY <2>2 DEF ApproveCommit, DeskStrong, ReviewedOpen, TypeInv, PcOK, CarriedOK, ReviewOps
    <3>2. /\ \A q \in Requests : q # local[r].jacket => commission'[q] = commission[q]
          /\ jacket' = [jacket EXCEPT ![local[r].jacket].status = "approved"]
      BY <2>2 DEF ApproveCommit, TypeInv, TypeOK
    <3>3. jacket'[local[r].jacket].status = "approved"
      BY <3>1, <3>2 DEF TypeInv, TypeOK, JacketRow
    <3>4. Born(local[r].jacket)
      BY <2>2, DealDeskAssumption DEF ApproveCommit, ReviewedBorn, Born, TypeInv, PcOK, ReviewOps
    <3> QED
      BY <3>1, <3>2, <3>3, <3>4
  <2>3. CASE RejectCommit(r)
    BY <2>3 DEF RejectCommit, TypeInv, TypeOK
  <2>4. CASE CommissionWrite(r)
    BY <2>4 DEF CommissionWrite, DeskStrong, CommissionHeld, TypeInv, TypeOK, PcOK
  <2>5. CASE ArchiveRep(r)
    BY <2>5 DEF ArchiveRep, CommissionStatus
  <2>6. ~(CommissionWrite(r) \/ SellCommission(r) \/ (ApproveCommit(r) /\ ~Refuse(r))
          \/ RejectCommit(r) \/ ArchiveRep(r)) => UNCHANGED commission
    BY DEF Proceed, Crash, SellCheck, CreateDeal, UpdateDeal, CountJackets, FileJacket,
           SellVehicle, DraftCheck, MoveJacket, ReviewOpen, VehicleWrite, DeleteVehicle,
           Refuse, tables
  <2> QED
    BY <2>1, <2>2, <2>3, <2>4, <2>5, <2>6
<1> QED
  BY <1>1, <1>2, <1>3, <1>4, <1>5, <1>6, <1>7, <1>8 DEF Quiet

LEMMA DeskInvInit == Init => DeskInv
<1> SUFFICES ASSUME Init PROVE DeskInv
  OBVIOUS
<1>1. TypeInv /\ ReviewedBorn
  BY InitType
<1>2. \A q \in Requests : /\ ~Born(q) /\ ~HasDeal(q) /\ deal[q].vehicle = None
                          /\ local[q].deal = None /\ local[q].op = None /\ pc[q] = "idle"
                          /\ commission[q].status = None
  BY DEF Init, NoDeal, NoJacket, NoLocals, Born, HasDeal
<1>3. None \notin AllOps
  BY DealDeskAssumption
<1> QED
  BY <1>1, <1>2, <1>3
     DEF DeskInv, JacketOwned, JacketFiled, DealOwned, DealCarried, DealKey, JacketKey,
         ReviewedOpen, DealProgress, SaleProgress, CommissionHeld, CommissionBorn, AllOps

\* What one request's step does to the sales of the desk.
LEMMA RequestStep ==
  ASSUME DeskInv, NEW r \in Requests, Arrive(r) \/ Proceed(r) \/ Crash(r)
  PROVE  DeskStrong'
<1> USE DEF DeskInv
<1>1. TypeInv /\ ReviewedBorn /\ DeskStrong
  BY DEF DeskStrong
<1> HIDE DEF DeskInv
<1>2. CASE Arrive(r)
  BY <1>1, <1>2, ArriveStep
<1>3. CASE SellCheck(r) /\ ~Refuse(r)
  BY <1>1, <1>3, SellCheckStep
<1>4. CASE CreateDeal(r) /\ ~Refuse(r)
  BY <1>1, <1>4, CreateDealStep
<1>5. CASE FileJacket(r) /\ ~Refuse(r)
  BY <1>1, <1>5, FileJacketStep
<1>6. CASE DraftCommit(r)
  BY <1>1, <1>6, DraftCommitStep
<1> QED
  BY <1>1, <1>2, <1>3, <1>4, <1>5, <1>6, QuietActions, QuietStep

LEMMA DeskInvStep == DeskInv /\ [Next]_vars => DeskInv'
<1> SUFFICES ASSUME DeskInv, [Next]_vars PROVE DeskInv'
  OBVIOUS
<1>1. TypeInv' /\ ReviewedBorn'
  BY StepType DEF DeskInv
<1>2. CASE Next
  BY <1>1, <1>2, RequestStep DEF Next, DeskInv, DeskStrong
<1>3. CASE UNCHANGED vars
  BY <1>1, <1>3 DEF vars, tables, DeskInv, JacketOwned, JacketFiled, DealOwned, DealCarried,
     DealKey, JacketKey, ReviewedOpen, DealProgress, SaleProgress, CommissionHeld, CommissionBorn,
     Born, HasDeal, Filed
<1> QED
  BY <1>2, <1>3

LEMMA DeskInvAlways == Spec => []DeskInv
  BY DeskInvInit, DeskInvStep, PTL DEF Spec

(* No interleaving of requests sells a vehicle through two jackets: the    *)
(* two unique columns are enough, although no handler locks anything.      *)
THEOREM SoldOnce == Spec => []OneSaleJacket
<1>1. DeskInv => OneSaleJacket
  BY DealDeskAssumption DEF DeskInv, OneSaleJacket, JacketOwned, JacketFiled, DealCarried, DealKey, JacketKey,
         HasDeal, Born, TypeInv, TypeOK, JacketRow
<1> QED
  BY <1>1, DeskInvAlways, PTL

(* A deal without its jacket is still being written, or its request        *)
(* crashed: no race and no refusal leaves one behind.                      *)
THEOREM OrphansExplained == Spec => []OrphanDealExplained
<1>1. DeskInv => OrphanDealExplained
  BY DEF DeskInv, OrphanDealExplained, DealOwned, DealProgress
<1> QED
  BY <1>1, DeskInvAlways, PTL

(* What markSold answers is so, whatever ran between its queries.          *)
THEOREM AnswersComplete == Spec => []AnsweredSaleIsComplete
<1>1. DeskInv => AnsweredSaleIsComplete
  <2> SUFFICES ASSUME DeskInv, NEW r \in Requests, local[r].op = "sell", pc[r] = "ok"
               PROVE  /\ HasDeal(r) /\ jacket[r].vehicle = local[r].vehicle
                      /\ deal[jacket[r].deal].vehicle = local[r].vehicle
                      /\ jacket[r].status = "approved"
                      /\ jacket[r].pays => commission[r].status # None
    BY DEF AnsweredSaleIsComplete
  <2>1. HasDeal(r) /\ Born(r) /\ (jacket[r].pays => commission[r].status # None)
    BY DEF DeskInv, SaleProgress, HasDeal
  <2>2. jacket[r].vehicle = local[r].vehicle
    BY <2>1 DEF DeskInv, JacketOwned
  <2>3. jacket[r].deal = local[r].deal /\ local[r].deal # None /\ jacket[r].status = "approved"
    BY <2>1 DEF DeskInv, JacketFiled, HasDeal
  <2>4. deal[local[r].deal].vehicle = local[r].vehicle
    BY <2>3 DEF DeskInv, DealCarried
  <2> QED
    BY <2>1, <2>2, <2>3, <2>4
<1> QED
  BY <1>1, DeskInvAlways, PTL

-----------------------------------------------------------------------------
(* What a step may do to a sale's jacket, a deal and the commissions.      *)

\* It never touches a jacket on a deal, and creates a commission with approval only.
LEMMA SaleStep ==
  ASSUME DeskInv, [Next]_vars
  PROVE  /\ \A j \in Requests : HasDeal(j) => jacket'[j] = jacket[j]
         /\ \A j \in Requests : commission[j].status = None /\ commission'[j].status # None
              => jacket'[j].status = "approved"
<1>0. TypeInv /\ ReviewedBorn /\ DeskStrong
  BY DEF DeskInv, DeskStrong
<1>1. CASE UNCHANGED vars
  BY <1>1 DEF vars, tables
<1>2. CASE Next
  <2>1. PICK r \in Requests : Arrive(r) \/ Proceed(r) \/ Crash(r)
    BY <1>2 DEF Next
  <2>2. CASE Arrive(r)
    BY <1>0, <2>2, ArriveFrame
  <2>3. CASE (SellCheck(r) /\ ~Refuse(r)) \/ (CreateDeal(r) /\ ~Refuse(r))
    BY <2>3 DEF SellCheck, CreateDeal, tables
  <2>4. CASE (FileJacket(r) /\ ~Refuse(r)) \/ DraftCommit(r)
    <3>1. ~HasDeal(r)
      BY <1>0, <2>4 DEF DeskStrong, JacketOwned, FileJacket, DraftCommit, HasDeal
    <3>2. UNCHANGED commission /\ \A j \in Requests : j # r => jacket'[j] = jacket[j]
      BY <1>0, <2>4 DEF FileJacket, DraftCommit, TypeInv, TypeOK
    <3> QED
      BY <3>1, <3>2
  <2>5. CASE Quiet(r)
    BY <2>5 DEF Quiet
  <2> QED
    BY <1>0, <2>1, <2>2, <2>3, <2>4, <2>5, QuietActions
<1> QED
  BY <1>1, <1>2

(* A sale's jacket never changes once it is filed: no review holds it.     *)
THEOREM SaleJacketsFinal == Spec => SaleJacketStays
<1>1. DeskInv /\ [Next]_vars => [\A j \in Requests : HasDeal(j) => jacket'[j] = jacket[j]]_vars
  BY SaleStep
<1> QED
  BY <1>1, DeskInvAlways, PTL DEF Spec, SaleJacketStays

(* Whatever races, a commission is only ever created for an approved jacket. *)
THEOREM CommissionsApproved == Spec => CommissionFollowsApproval
<1>1. DeskInv /\ [Next]_vars =>
        [\A j \in Requests : commission[j].status = None /\ commission'[j].status # None
           => jacket'[j].status = "approved"]_vars
  BY SaleStep
<1> QED
  BY <1>1, DeskInvAlways, PTL DEF Spec, CommissionFollowsApproval

-----------------------------------------------------------------------------
(* The tables implement the ledger of sales.                               *)

\* The jacket a vehicle was sold through.
SoldBy(v, j) == HasDeal(j) /\ jacket[j].vehicle = v

SaleView == [v \in Vehicles |->
  IF \E j \in Requests : SoldBy(v, j) THEN "booked"
  ELSE IF \E d \in Requests : deal[d].vehicle = v THEN "opened" ELSE "none"]
EarnedView == {v \in Vehicles : \E j \in Requests : SoldBy(v, j) /\ commission[j].status # None}

LEMMA LedgerView == SaleOf = SaleView /\ Earned = EarnedView
<1> USE DealDeskAssumption
<1>1. \A v \in Vehicles :
        /\ (\E j \in JacketsOf(v) : jacket[j].deal # None) <=> (\E j \in Requests : SoldBy(v, j))
        /\ (\E j \in JacketsOf(v) : jacket[j].deal # None /\ commission[j].status # None)
             <=> (\E j \in Requests : SoldBy(v, j) /\ commission[j].status # None)
        /\ DealsOf(v) # {} <=> (\E d \in Requests : deal[d].vehicle = v)
  BY DEF JacketsOf, DealsOf, SoldBy, HasDeal, Born
<1> QED
  BY <1>1 DEF SaleOf, Earned, SaleView, EarnedView

LEMMA LedgerViewNext == SaleOf' = SaleView' /\ Earned' = EarnedView'
<1>1. (SaleOf = SaleView /\ Earned = EarnedView)'
  BY LedgerView, PTL
<1> QED
  BY <1>1

\* A step that creates no deal and files no jacket earns at most one commission.
LEMMA LedgerQuiet ==
  ASSUME DeskInv, NEW r \in Requests,
         \A q \in Requests : deal'[q].vehicle = deal[q].vehicle
                             /\ (\A v \in Vehicles : (SoldBy(v, q))' = SoldBy(v, q))
                             /\ (commission[q].status # None => commission'[q].status # None),
         \A q \in Requests : commission[q].status = None /\ commission'[q].status # None
           /\ HasDeal(q) => q = r
  PROVE  [Ledger!LedgerNext]_<<SaleOf, Earned>>
<1> USE LedgerView, LedgerViewNext
<1>1. SaleOf' = SaleOf
  BY DEF SaleView
<1>2. CASE \E v \in Vehicles : SoldBy(v, r) /\ commission[r].status = None /\ commission'[r].status # None
  <2>1. PICK v \in Vehicles : SoldBy(v, r) /\ commission[r].status = None /\ commission'[r].status # None
    BY <1>2
  <2>2. SaleOf[v] = "booked"
    BY <2>1 DEF SaleView
  <2>3. v \notin Earned
    <3> SUFFICES ASSUME NEW j \in Requests, SoldBy(v, j), commission[j].status # None PROVE FALSE
      BY DEF EarnedView
    <3>1. OneSaleJacket
      BY DealDeskAssumption
         DEF DeskInv, OneSaleJacket, JacketOwned, JacketFiled, DealCarried, DealKey, JacketKey,
             HasDeal, Born, TypeInv, TypeOK, JacketRow
    <3> QED
      BY <2>1, <3>1 DEF OneSaleJacket, SoldBy
  <2>4. Earned' = Earned \cup {v}
    <3>1. \A w \in Vehicles : w \in Earned' <=> w \in Earned \/ w = v
      BY <2>1 DEF SoldBy, EarnedView
    <3> QED
      BY <3>1, <2>1 DEF EarnedView
  <2>5. Ledger!Earn(v)
    BY <1>1, <2>2, <2>3, <2>4 DEF Ledger!Earn
  <2> QED
    BY <2>5 DEF Ledger!LedgerNext
<1>3. CASE ~\E v \in Vehicles : SoldBy(v, r) /\ commission[r].status = None /\ commission'[r].status # None
  <2>1. \A w \in Vehicles : w \in Earned' <=> w \in Earned
    BY <1>3 DEF SoldBy, EarnedView
  <2>2. Earned' = Earned
    BY <2>1 DEF EarnedView
  <2> QED
    BY <1>1, <2>2
<1> QED
  BY <1>2, <1>3

\* deal.create opens the vehicle's sale.
LEMMA LedgerOpens ==
  ASSUME DeskInv, NEW r \in Requests, CreateDeal(r), ~Refuse(r)
  PROVE  [Ledger!LedgerNext]_<<SaleOf, Earned>>
<1> USE DealDeskAssumption, LedgerView, LedgerViewNext
<1> DEFINE v == local[r].vehicle
<1>1. /\ pc[r] = "deal"
      /\ \A q \in Requests : deal[q].vehicle # v
      /\ deal' = [deal EXCEPT ![r] = NewDeal(r)]
      /\ UNCHANGED <<jacket, commission>>
  BY DEF CreateDeal, DealsOf
<1>2. v \in Vehicles /\ deal[r].vehicle = None
  BY <1>1 DEF DeskInv, TypeInv, PcOK, CarriedOK, VehicleOps, DealOwned
<1>3. deal'[r].vehicle = v /\ \A q \in Requests : q # r => deal'[q] = deal[q]
  BY <1>1 DEF NewDeal, DeskInv, TypeInv, TypeOK
<1>4. \A j \in Requests : ~SoldBy(v, j)
  BY <1>1, LocalFields DEF SoldBy, HasDeal, DeskInv, JacketOwned, JacketFiled, DealCarried
<1>5. \A j \in Requests, w \in Vehicles : (SoldBy(w, j))' = SoldBy(w, j)
  BY <1>1 DEF SoldBy, HasDeal, Born
<1> HIDE DEF v
<1>6. SaleOf[v] = "none"
  BY <1>1, <1>2, <1>4 DEF SaleView
<1>7. SaleOf' = [SaleOf EXCEPT ![v] = "opened"]
  BY <1>2, <1>3, <1>4, <1>5 DEF SaleView
<1>8. Earned' = Earned
  BY <1>1, <1>5 DEF EarnedView
<1> QED
  BY <1>2, <1>6, <1>7, <1>8 DEF Ledger!LedgerNext, Ledger!Open

\* The jacket on the deal books it.
LEMMA LedgerBooks ==
  ASSUME DeskInv, NEW r \in Requests, FileJacket(r), ~Refuse(r)
  PROVE  [Ledger!LedgerNext]_<<SaleOf, Earned>>
<1> USE DealDeskAssumption, LedgerView, LedgerViewNext
<1> DEFINE v == local[r].vehicle
<1>1. /\ pc[r] = "jacket"
      /\ JacketsOfDeal(local[r].deal) = {}
      /\ jacket' = [jacket EXCEPT ![r] = NewJacket(r, local[r].deal, "approved")]
      /\ UNCHANGED <<deal, commission>>
  BY DEF FileJacket
<1>2. v \in Vehicles /\ local[r].deal \in Requests /\ deal[local[r].deal].vehicle = v
  BY <1>1, LocalFields DEF DeskInv, TypeInv, PcOK, CarriedOK, VehicleOps, DealCarried
<1>3. /\ jacket'[r].vehicle = v /\ jacket'[r].deal = local[r].deal
      /\ \A q \in Requests : q # r => jacket'[q] = jacket[q]
  BY <1>1 DEF NewJacket, DeskInv, TypeInv, TypeOK
<1>4. ~Born(r) /\ commission[r].status = None
  BY <1>1 DEF DeskInv, JacketOwned, CommissionBorn
<1>5. \A j \in Requests : ~SoldBy(v, j)
  <2> SUFFICES ASSUME NEW j \in Requests, HasDeal(j), jacket[j].vehicle = v PROVE FALSE
    BY DEF SoldBy
  <2>1. /\ jacket[j].deal = local[j].deal /\ local[j].deal # None
        /\ local[j].vehicle = v
    BY DEF HasDeal, DeskInv, JacketOwned, JacketFiled
  <2>2. local[j].deal \in Requests /\ deal[local[j].deal].vehicle = v
    BY <2>1, LocalFields DEF DeskInv, DealCarried
  <2>3. local[j].deal = local[r].deal
    BY <1>2, <2>2 DEF DeskInv, DealKey
  <2> QED
    BY <1>1, <2>1, <2>3 DEF JacketsOfDeal, HasDeal
<1>6. \A j \in Requests, w \in Vehicles :
        (SoldBy(w, j))' <=> SoldBy(w, j) \/ (w = v /\ j = r)
  BY <1>2, <1>3, <1>4 DEF SoldBy, HasDeal, Born
<1> HIDE DEF v
<1>7. SaleOf[v] = "opened"
  BY <1>2, <1>5 DEF SaleView
<1>8. SaleOf' = [SaleOf EXCEPT ![v] = "booked"]
  <2>1. \A w \in Vehicles : (\E j \in Requests : SoldBy(w, j))' <=>
                            (\E j \in Requests : SoldBy(w, j)) \/ w = v
    BY <1>6
  <2> QED
    BY <1>1, <1>2, <2>1 DEF SaleView
<1>9. Earned' = Earned
  <2>1. \A w \in Vehicles :
          (\E j \in Requests : SoldBy(w, j) /\ commission[j].status # None)' <=>
          (\E j \in Requests : SoldBy(w, j) /\ commission[j].status # None)
    BY <1>1, <1>4, <1>6
  <2> QED
    BY <2>1 DEF EarnedView
<1> QED
  BY <1>2, <1>7, <1>8, <1>9 DEF Ledger!LedgerNext, Ledger!Book

LEMMA LedgerInits == Init => Ledger!LedgerInit
<1> SUFFICES ASSUME Init PROVE Ledger!LedgerInit
  OBVIOUS
<1>1. \A q \in Requests : deal[q].vehicle = None /\ \A v \in Vehicles : ~SoldBy(v, q)
  BY DEF Init, NoDeal, NoJacket, SoldBy, HasDeal, Born
<1>2. SaleOf = [v \in Vehicles |-> "none"]
  BY <1>1, LedgerView, DealDeskAssumption DEF SaleView
<1>3. Earned = {}
  BY <1>1, LedgerView DEF EarnedView
<1> QED
  BY <1>2, <1>3 DEF Ledger!LedgerInit

LEMMA LedgerSteps == DeskInv /\ [Next]_vars => [Ledger!LedgerNext]_<<SaleOf, Earned>>
<1> SUFFICES ASSUME DeskInv, [Next]_vars PROVE [Ledger!LedgerNext]_<<SaleOf, Earned>>
  OBVIOUS
<1>0. TypeInv /\ ReviewedBorn /\ DeskStrong
  BY DEF DeskInv, DeskStrong
<1>s. ASSUME UNCHANGED <<deal, jacket, commission>> PROVE UNCHANGED <<SaleOf, Earned>>
  <2>1. \A j \in Requests, w \in Vehicles : (SoldBy(w, j))' = SoldBy(w, j)
    BY <1>s DEF SoldBy, HasDeal, Born
  <2> QED
    BY <1>s, <2>1, LedgerView, LedgerViewNext DEF SaleView, EarnedView
<1>1. CASE UNCHANGED vars
  BY <1>1, <1>s DEF vars, tables
<1>2. CASE Next
  <2>1. PICK r \in Requests : Arrive(r) \/ Proceed(r) \/ Crash(r)
    BY <1>2 DEF Next
  <2>2. CASE Arrive(r)
    BY <1>0, <1>s, <2>2, ArriveFrame
  <2>3. CASE SellCheck(r) /\ ~Refuse(r)
    BY <1>s, <2>3 DEF SellCheck, tables
  <2>4. CASE CreateDeal(r) /\ ~Refuse(r)
    BY <2>4, LedgerOpens
  <2>5. CASE FileJacket(r) /\ ~Refuse(r)
    BY <2>5, LedgerBooks
  <2>6. CASE DraftCommit(r)
    <3>1. /\ pc[r] = "draft_commit"
          /\ jacket' = [jacket EXCEPT ![r] = NewJacket(r, None, "draft")]
          /\ UNCHANGED <<deal, commission>>
      BY <2>6 DEF DraftCommit
    <3>2. ~SoldBy(local[r].vehicle, r) /\ ~HasDeal(r)
      BY <3>1 DEF DeskInv, JacketOwned, SoldBy, HasDeal
    <3>3. jacket'[r].deal = None /\ \A q \in Requests : q # r => jacket'[q] = jacket[q]
      BY <1>0, <3>1 DEF NewJacket, TypeInv, TypeOK
    <3>4. \A j \in Requests, w \in Vehicles : (SoldBy(w, j))' = SoldBy(w, j)
      BY <3>2, <3>3 DEF SoldBy, HasDeal, Born
    <3> QED
      BY <3>1, <3>4, LedgerView, LedgerViewNext DEF SaleView, EarnedView
  <2>7. CASE Quiet(r)
    <3>1. \A q \in Requests : deal'[q].vehicle = deal[q].vehicle
             /\ (\A v \in Vehicles : (SoldBy(v, q))' = SoldBy(v, q))
             /\ (commission[q].status # None => commission'[q].status # None)
      BY <2>7 DEF Quiet, SoldBy, HasDeal, Born
    <3>2. \A q \in Requests : commission[q].status = None /\ commission'[q].status # None
            /\ HasDeal(q) => q = r
      BY <2>7 DEF Quiet
    <3> QED
      BY <3>1, <3>2, LedgerQuiet
  <2> QED
    BY <1>0, <2>1, <2>2, <2>3, <2>4, <2>5, <2>6, <2>7, QuietActions
<1> QED
  BY <1>1, <1>2

(* The deal desk, with its races, crashes and refusals, implements the     *)
(* ledger: each vehicle's sale is opened once, booked once, and earns its  *)
(* sales rep one commission.                                               *)
THEOREM DeskImplementsLedger == Spec => ImplementsLedger
  BY LedgerInits, LedgerSteps, DeskInvAlways, PTL DEF Spec, ImplementsLedger, Ledger!LedgerSpec

-----------------------------------------------------------------------------
(***************************************************************************)
(* A desk that serves its requests one at a time, crashes included: what   *)
(* DealDesk's tests and its error messages take for granted, and what a    *)
(* second request in flight breaks.                                        *)
(***************************************************************************)

\* One request is in flight at most.
Alone == \A q, r \in Requests : pc[q] \in Awaits /\ pc[r] \in Awaits => q = r

\* A request's vehicle exists from its first read on.
Present == \A r \in Requests :
  local[r].op \in VehicleOps => vehicle[local[r].vehicle].status # "absent"

\* Remarks of deal d that m gave: m crashed, is writing the sale, or it was filed.
RemarksOf(m, d) ==
  m = None \/ pc[m] = "crashed" \/ Filed(d) \/ (pc[m] \in {"count", "jacket"} /\ local[m].deal = d)
Remarked == \A d \in Requests : RemarksOf(deal[d].remarks, d)

\* What the deal of the sale in flight says when its jacket is to be written.
Written(r) == LET d == deal[local[r].deal] IN
  /\ d.terms = r /\ d.rep = Rep(r)
  /\ \/ d.remarks = Given(r, "remarks", None)
     \/ Given(r, "remarks", None) = None /\ pc[d.remarks] = "crashed"

\* What the request in flight has read still holds.
Known(r) ==
  /\ pc[r] \in {"deal", "count", "jacket", "draft_count", "draft_commit"} =>
       JacketsOf(local[r].vehicle) = {}
  /\ pc[r] \in {"jacket", "draft_commit"} => local[r].number = NextJacketNumber
  /\ pc[r] = "sell_check" => local[r].deal = None
  /\ pc[r] = "deal" /\ local[r].deal # None =>
       local[r].remarks = None \/ pc[local[r].remarks] = "crashed"
  /\ pc[r] \in {"count", "jacket"} => Written(r)
  /\ pc[r] \in ReviewOps \cup {"approve_commit", "reject_commit"} =>
       jacket[local[r].jacket].status \notin Final
  /\ pc[r] = "set_commission" => ~commission[local[r].jacket].archived

NumbersCounted == \A j \in Requests : Born(j) => jacket[j].number < NextJacketNumber

SerialInv ==
  /\ DeskInv /\ Alone /\ Present
  /\ \A r \in Requests : Known(r)
  /\ OneJacketPerVehicle /\ NumbersCounted /\ JacketNumbersUnique
  /\ SaleTermsAgree /\ Remarked /\ PausedStaysPaused

-----------------------------------------------------------------------------
(* Who is in flight.                                                       *)

LEMMA ProceedAwaits ==
  ASSUME TypeInv, NEW r \in Requests, Proceed(r) \/ Crash(r)
  PROVE  pc[r] \in Awaits
<1> USE DEF Awaits, ReviewOps
<1>1. CASE SellCheck(r) \/ CreateDeal(r) \/ UpdateDeal(r) \/ CountJackets(r) \/ FileJacket(r)
        \/ SellVehicle(r) \/ SellCommission(r) \/ DraftCheck(r) \/ DraftCommit(r)
  BY <1>1 DEF SellCheck, CreateDeal, UpdateDeal, CountJackets, FileJacket, SellVehicle,
     SellCommission, DraftCheck, DraftCommit
<1>2. CASE MoveJacket(r) \/ ReviewOpen(r) \/ ApproveCommit(r) \/ RejectCommit(r) \/ VehicleWrite(r)
        \/ DeleteVehicle(r) \/ CommissionWrite(r) \/ ArchiveRep(r) \/ Crash(r)
  BY <1>2 DEF MoveJacket, ReviewOpen, ApproveCommit, RejectCommit, VehicleWrite, DeleteVehicle,
     CommissionWrite, ArchiveRep, Crash
<1> QED
  BY <1>1, <1>2 DEF Proceed

\* A step is taken by the only request in flight, or begins one.
LEMMA AloneStep ==
  ASSUME MaxInFlight = 1, TypeInv, Alone, NEW r \in Requests, Arrive(r) \/ Proceed(r) \/ Crash(r)
  PROVE  /\ Alone'
         /\ \A q \in Requests \ {r} : pc'[q] = pc[q] /\ pc[q] \notin Awaits
<1>1. CASE Arrive(r)
  <2>1. Cardinality(InFlight) < 1
    BY <1>1 DEF Arrive, SellRead, ImportVehicle, DraftRead, ReviewRead, VehicleRead, CommissionRead,
       ArchiveRead, Accept
  <2>2. IsFiniteSet(InFlight)
    BY DealDeskAssumption, FS_Subset DEF InFlight
  <2>3. InFlight = {}
    <3>1. Cardinality(InFlight) \in Nat
      BY <2>2, FS_CardinalityType
    <3>2. Cardinality(InFlight) = 0
      BY <2>1, <3>1
    <3> QED
      BY <2>2, <3>2, FS_EmptySet
  <2>4. \A q \in Requests : pc[q] \notin Awaits
    BY <2>3 DEF InFlight
  <2>5. \A q \in Requests \ {r} : pc'[q] = pc[q]
    BY <1>1, ArriveFrame
  <2> QED
    BY <2>4, <2>5 DEF Alone
<1>2. CASE Proceed(r) \/ Crash(r)
  <2>1. pc[r] \in Awaits
    BY <1>2, ProceedAwaits
  <2>2. \A q \in Requests \ {r} : pc'[q] = pc[q]
    BY <1>2, ProceedFrame
  <2> QED
    BY <2>1, <2>2 DEF Alone
<1> QED
  BY <1>1, <1>2

-----------------------------------------------------------------------------
(* Vehicles never go away.                                                 *)

LEMMA VehicleStays ==
  ASSUME TypeInv, NEW r \in Requests, Arrive(r) \/ Proceed(r) \/ Crash(r),
         NEW v \in Vehicles, vehicle[v].status # "absent"
  PROVE  vehicle'[v].status # "absent"
<1>0. vehicle \in [Vehicles -> VehicleRow]
  BY DEF TypeInv, TypeOK
<1>1. CASE UNCHANGED vehicle
  BY <1>1
<1>2. ASSUME NEW w, NEW s, s # "absent", NEW gone, SetStatus(w, s, gone)
      PROVE  vehicle'[v].status # "absent"
  BY <1>0, <1>2 DEF SetStatus, VehicleRow
<1>3. CASE Arrive(r)
  BY <1>1, <1>2, <1>3 DEF Arrive, SellRead, ImportVehicle, DraftRead, ReviewRead, VehicleRead,
     CommissionRead, ArchiveRead, Begin, tables
<1>4. CASE SellCheck(r) \/ CreateDeal(r) \/ UpdateDeal(r) \/ CountJackets(r) \/ FileJacket(r)
        \/ SellCommission(r) \/ DraftCheck(r) \/ MoveJacket(r) \/ ReviewOpen(r)
        \/ CommissionWrite(r) \/ ArchiveRep(r) \/ Crash(r)
  BY <1>1, <1>4 DEF SellCheck, CreateDeal, UpdateDeal, CountJackets, FileJacket, SellCommission,
     DraftCheck, MoveJacket, ReviewOpen, CommissionWrite, ArchiveRep, Crash, Refuse, tables
<1>5. CASE SellVehicle(r)
  BY <1>2, <1>5 DEF SellVehicle
<1>6. CASE DraftCommit(r) \/ RejectCommit(r) \/ DeleteVehicle(r)
  BY <1>0, <1>6 DEF DraftCommit, RejectCommit, DeleteVehicle, VehicleRow
<1>7. CASE ApproveCommit(r)
  BY <1>1, <1>2, <1>7 DEF ApproveCommit, Refuse, tables
<1>8. CASE VehicleWrite(r)
  <2>1. local[r].to \in Exit \cup Active
    BY <1>8 DEF VehicleWrite, TypeInv, CarriedOK, PcOK
  <2> QED
    BY <1>2, <1>8, <2>1 DEF VehicleWrite, Exit, Active
<1> QED
  BY <1>3, <1>4, <1>5, <1>6, <1>7, <1>8 DEF Proceed

LEMMA PresentStep ==
  ASSUME TypeInv, Present, NEW r \in Requests, Arrive(r) \/ Proceed(r) \/ Crash(r)
  PROVE  Present'
<1>0. /\ vehicle \in [Vehicles -> VehicleRow] /\ local \in [Requests -> Locals]
      /\ \A q \in Requests : local[q].op \in VehicleOps => local[q].vehicle \in Vehicles
  BY DEF TypeInv, TypeOK, CarriedOK
<1>1. \A v \in Vehicles : vehicle[v].status # "absent" => vehicle'[v].status # "absent"
  BY VehicleStays
<1>2. CASE Proceed(r) \/ Crash(r)
  BY <1>0, <1>1, <1>2, ProceedFrame DEF Present
<1>3. CASE Arrive(r)
  <2>1. \A q \in Requests \ {r} : local'[q] = local[q]
    BY <1>3, ArriveFrame
  <2>2. CASE ImportVehicle(r)
    <3>1. PICK v \in Vehicles, given \in Payloads :
            /\ SetStatus(v, "sold", TRUE)
            /\ local' = [local EXCEPT ![r] = [NoLocals EXCEPT !.op = "import", !.vehicle = v,
                                                               !.given = given \cup {"remarks"}]]
      BY <2>2 DEF ImportVehicle
    <3>2. local'[r].vehicle = v
      BY <1>0, <3>1 DEF NoLocals
    <3>3. vehicle'[v].status = "sold"
      BY <1>0, <3>1 DEF VehicleRow, SetStatus
    <3> QED
      BY <1>0, <1>1, <2>1, <3>2, <3>3 DEF Present
  <2>3. ASSUME SellRead(r) \/ DraftRead(r) \/ VehicleRead(r)
        PROVE  local'[r].vehicle \in Vehicles /\ vehicle[local'[r].vehicle].status # "absent"
    <3>1. PICK v \in Vehicles :
            /\ Listed(v)
            /\ \E await, c : c.vehicle = v /\ Begin(r, await, c)
      <4>1. CASE SellRead(r)
        BY <4>1 DEF SellRead, NoLocals
      <4>2. CASE DraftRead(r)
        BY <4>2 DEF DraftRead, NoLocals
      <4>3. CASE VehicleRead(r)
        BY <4>3 DEF VehicleRead, NoLocals
      <4> QED
        BY <2>3, <4>1, <4>2, <4>3
    <3>2. local'[r].vehicle = v
      BY <1>0, <3>1 DEF Begin
    <3> QED
      BY <3>1, <3>2 DEF Listed
  <2>4. ASSUME ReviewRead(r) \/ CommissionRead(r) \/ ArchiveRead(r)
        PROVE  local'[r].op \notin VehicleOps
    BY <1>0, <2>4, ZenonT(60) DEF ReviewRead, CommissionRead, ArchiveRead, Begin, NoLocals, VehicleOps, ReviewOps
  <2> QED
    BY <1>0, <1>1, <1>3, <2>1, <2>2, <2>3, <2>4 DEF Present, Arrive
<1> QED
  BY <1>2, <1>3

-----------------------------------------------------------------------------
(* What was read still holds.                                              *)

\* A crashed request does not move.
LEMMA CrashedStays ==
  ASSUME TypeInv, NEW r \in Requests, Arrive(r) \/ Proceed(r) \/ Crash(r),
         NEW m \in Requests, pc[m] = "crashed"
  PROVE  m # r /\ pc'[m] = "crashed"
<1>1. pc[r] # "crashed"
  BY ArriveFrame, ProceedAwaits DEF Awaits, ReviewOps
<1>2. QED
  BY <1>1, ArriveFrame, ProceedFrame

LEMMA GivenStays ==
  ASSUME NEW r \in Requests, local'[r].given = local[r].given, local'[r].rep = local[r].rep
  PROVE  Rep(r)' = Rep(r) /\ Given(r, "remarks", None)' = Given(r, "remarks", None)
  BY DEF Rep, Given

\* Remarks are the client's or crashed ones, so they are of a request.
LEMMA WrittenBy ==
  ASSUME TypeInv, NEW r \in Requests, local[r].deal \in Requests, Written(r)
  PROVE  \/ deal[local[r].deal].remarks = Given(r, "remarks", None)
         \/ /\ Given(r, "remarks", None) = None
            /\ deal[local[r].deal].remarks \in Requests
            /\ pc[deal[local[r].deal].remarks] = "crashed"
<1>1. deal[local[r].deal].remarks \in Requests \cup {None}
  BY DEF TypeInv, TypeOK, DealRow
<1>2. QED
  BY <1>1 DEF Written

\* The deal of a filed jacket is its vehicle's.
LEMMA FiledVehicle ==
  ASSUME DeskInv, NEW j \in Requests, HasDeal(j)
  PROVE  /\ jacket[j].deal \in Requests
         /\ deal[jacket[j].deal].vehicle = jacket[j].vehicle
         /\ jacket[j].vehicle # None
  BY DEF DeskInv, TypeInv, TypeOK, HasDeal, Born, JacketOwned, JacketFiled, DealCarried, Locals

LEMMA KnownArrive ==
  ASSUME DeskInv, Present, NEW r \in Requests, Arrive(r)
  PROVE  Known(r)'
<1>0. /\ TypeInv /\ JacketOwned
      /\ pc \in [Requests -> Pcs] /\ local \in [Requests -> Locals]
      /\ vehicle \in [Vehicles -> VehicleRow]
  BY DEF DeskInv, TypeInv, TypeOK, Pcs
<1>1. /\ UNCHANGED <<deal, jacket, commission>>
      /\ pc'[r] \notin {"count", "jacket", "draft_count", "draft_commit", "approve_commit", "reject_commit"}
  BY <1>0, ArriveFrame DEF ReviewOps
<1>2. pc'[r] = "deal" => JacketsOf(local[r].vehicle)' = {}
  <2> SUFFICES ASSUME pc'[r] = "deal" PROVE JacketsOf(local[r].vehicle)' = {}
    OBVIOUS
  <2>0. ImportVehicle(r)
    BY <1>0 DEF Arrive, SellRead, DraftRead, ReviewRead, VehicleRead, CommissionRead, ArchiveRead,
       Begin, ReviewOps
  <2>1. PICK v \in Vehicles, given \in Payloads :
          /\ vehicle[v].status = "absent"
          /\ local' = [local EXCEPT ![r] = [NoLocals EXCEPT !.op = "import", !.vehicle = v,
                                                             !.given = given \cup {"remarks"}]]
    BY <2>0 DEF ImportVehicle
  <2>2. local'[r].vehicle = v
    BY <1>0, <2>1 DEF NoLocals
  <2>3. \A j \in Requests : jacket[j].vehicle # v
    BY <1>0, <2>1, DealDeskAssumption DEF JacketOwned, Born, Present, SaleOp, VehicleOps
  <2> QED
    BY <1>1, <2>2, <2>3 DEF JacketsOf
<1>3. pc'[r] \in ReviewOps => jacket'[local'[r].jacket].status \notin Final
  <2> SUFFICES ASSUME pc'[r] \in ReviewOps PROVE jacket'[local'[r].jacket].status \notin Final
    OBVIOUS
  <2>1. PICK j \in Requests, op \in ReviewOps :
          /\ MayOpen(op, jacket[j].status)
          /\ \E c : c.jacket = j /\ Begin(r, op, c)
    <3>1. ReviewRead(r)
      BY <1>0 DEF Arrive, SellRead, ImportVehicle, DraftRead, VehicleRead, CommissionRead,
         ArchiveRead, Begin, ReviewOps
    <3> QED
      BY <3>1 DEF ReviewRead, NoLocals
  <2>2. local'[r].jacket = j
    BY <1>0, <2>1 DEF Begin
  <2>3. jacket[j].status \notin Final
    BY <2>1 DEF MayOpen, Final, ReviewOps
  <2> QED
    BY <1>1, <2>2, <2>3
<1>4. pc'[r] = "set_commission" => ~commission'[local'[r].jacket].archived
  <2> SUFFICES ASSUME pc'[r] = "set_commission" PROVE ~commission'[local'[r].jacket].archived
    OBVIOUS
  <2>1. PICK j \in Requests :
          /\ ~commission[j].archived
          /\ \E c : c.jacket = j /\ Begin(r, "set_commission", c)
    <3>1. CommissionRead(r)
      BY <1>0 DEF Arrive, SellRead, ImportVehicle, DraftRead, ReviewRead, VehicleRead,
         ArchiveRead, Begin, ReviewOps
    <3> QED
      BY <3>1 DEF CommissionRead, NoLocals
  <2>2. local'[r].jacket = j
    BY <1>0, <2>1 DEF Begin
  <2> QED
    BY <1>1, <2>1, <2>2
<1>5. local'[r].deal = None
  BY <1>0, ArriveFrame
<1> QED
  BY <1>1, <1>2, <1>3, <1>4, <1>5 DEF Known

LEMMA KnownProceed ==
  ASSUME DeskInv, Alone, Remarked, NEW r \in Requests, Known(r), Proceed(r) \/ Crash(r)
  PROVE  Known(r)'
<1>0. /\ TypeInv /\ DealCarried
      /\ pc \in [Requests -> Pcs] /\ local \in [Requests -> Locals]
      /\ deal \in [Requests -> DealRow]
  BY DEF DeskInv, TypeInv, TypeOK, Pcs
<1>1. local'[r].vehicle = local[r].vehicle /\ local'[r].jacket = local[r].jacket
  BY <1>0, ProceedFrame
<1>2. ASSUME UNCHANGED jacket
      PROVE  JacketsOf(local[r].vehicle)' = JacketsOf(local[r].vehicle)
  BY <1>1, <1>2 DEF JacketsOf
<1>3. ASSUME pc'[r] \in Answered \cup {"vehicle", "commission"} PROVE Known(r)'
  BY <1>3 DEF Known, Answered, ReviewOps
<1>4. CASE Refuse(r) \/ Crash(r) \/ Answer(r)
  BY <1>0, <1>3, <1>4 DEF Refuse, Crash, Answer, Goto, Answered
<1>5. CASE SellCheck(r) /\ ~Refuse(r)
  <2>1. /\ JacketsOf(local[r].vehicle) = {} /\ UNCHANGED jacket
        /\ pc[r] = "sell_check" /\ pc'[r] = "deal"
        /\ \A q \in Requests : q # r => pc'[q] = pc[q]
    BY <1>0, <1>5 DEF SellCheck, SaleAllowed, tables
  <2>2. local[r].deal = None
    BY <1>0, <2>1 DEF Known
  <2>3. CASE UNCHANGED local
    BY <1>2, <2>1, <2>2, <2>3 DEF Known, ReviewOps
  <2>4. ASSUME NEW d \in DealsOf(local[r].vehicle),
               local' = [local EXCEPT ![r].deal = d, ![r].rep = deal[d].rep,
                                      ![r].remarks = deal[d].remarks]
        PROVE  Known(r)'
    <3>1. d \in Requests /\ deal[d].vehicle = local[r].vehicle
      BY DEF DealsOf
    <3>2. PICK m \in Requests \cup {None} : m = deal[d].remarks
      BY <1>0, <3>1 DEF DealRow
    <3>3. local'[r].remarks = m
      BY <1>0, <2>4, <3>2 DEF Locals
    <3>4. ~Filed(d)
      <4>1. \A j \in Requests : jacket[j].vehicle # local[r].vehicle
        BY <2>1 DEF JacketsOf
      <4>2. QED
        BY <3>1, <4>1, FiledVehicle DEF Filed
    <3>5. m = None \/ pc[m] = "crashed"
      <4>1. RemarksOf(m, d)
        BY <3>1, <3>2 DEF Remarked
      <4>2. m # None /\ pc[m] \in {"count", "jacket"} => m = r
        BY <2>1, <3>2 DEF Alone, Awaits
      <4>3. QED
        BY <2>1, <3>4, <4>1, <4>2 DEF RemarksOf
    <3>6. m = None \/ pc'[m] = "crashed"
      BY <2>1, <3>2, <3>5
    <3>7. QED
      BY <1>2, <2>1, <3>3, <3>6 DEF Known, ReviewOps
  <2>5. QED
    BY <1>5, <2>3, <2>4 DEF SellCheck
<1>6. CASE CreateDeal(r) /\ ~Refuse(r)
  <2>1. /\ JacketsOf(local[r].vehicle) = {} /\ UNCHANGED jacket /\ pc'[r] = "count"
        /\ local' = [local EXCEPT ![r].deal = r] /\ deal' = [deal EXCEPT ![r] = NewDeal(r)]
    BY <1>0, <1>6 DEF CreateDeal, Known
  <2>2. local'[r].deal = r /\ local'[r].given = local[r].given /\ local'[r].rep = local[r].rep
    BY <1>0, <2>1 DEF Locals
  <2>3. /\ deal'[r].terms = r /\ deal'[r].rep = Rep(r)
        /\ deal'[r].remarks = Given(r, "remarks", None)
    BY <1>0, <2>1 DEF NewDeal
  <2>4. Written(r)'
    BY <2>2, <2>3, GivenStays DEF Written
  <2> QED
    BY <1>2, <2>1, <2>4 DEF Known, ReviewOps
<1>7. CASE UpdateDeal(r)
  <2>1. /\ JacketsOf(local[r].vehicle) = {} /\ UNCHANGED jacket /\ pc[r] = "deal" /\ pc'[r] = "count"
        /\ local' = local /\ local[r].deal \in Requests /\ local[r].deal # None
        /\ \A q \in Requests : q # r => pc'[q] = pc[q]
    BY <1>0, <1>7 DEF UpdateDeal, Goto, Known, Locals
  <2>2. /\ deal'[local[r].deal].terms = r /\ deal'[local[r].deal].rep = Rep(r)
        /\ deal'[local[r].deal].remarks = Given(r, "remarks", local[r].remarks)
    BY <1>0, <1>7, <2>1 DEF UpdateDeal, DealRow
  <2>3. PICK m \in Requests \cup {None} : m = local[r].remarks
    BY <1>0 DEF Locals
  <2>4. m = None \/ (m \in Requests /\ pc'[m] = "crashed")
    <3>1. m = None \/ pc[m] = "crashed"
      BY <2>1, <2>3 DEF Known
    <3>2. QED
      BY <2>1, <2>3, <3>1
  <2>5. Given(r, "remarks", m) = Given(r, "remarks", None)
          \/ (Given(r, "remarks", None) = None /\ Given(r, "remarks", m) = m)
    BY DEF Given
  <2>6. Rep(r)' = Rep(r) /\ Given(r, "remarks", None)' = Given(r, "remarks", None)
    BY <2>1, GivenStays
  <2>7. Written(r)'
    BY <2>1, <2>2, <2>3, <2>4, <2>5, <2>6 DEF Written
  <2> QED
    BY <1>2, <2>1, <2>7 DEF Known, ReviewOps
<1>8. CASE CountJackets(r)
  <2>1. /\ JacketsOf(local[r].vehicle) = {} /\ UNCHANGED <<jacket, deal>>
        /\ pc'[r] \in {"jacket", "draft_commit"} /\ (pc'[r] = "jacket" => pc[r] = "count")
        /\ local' = [local EXCEPT ![r].number = NextJacketNumber]
        /\ pc[r] \in {"count", "draft_count"}
    BY <1>0, <1>8 DEF CountJackets, Known, tables
  <2>2. /\ local'[r].number = NextJacketNumber /\ local'[r].deal = local[r].deal
        /\ local'[r].given = local[r].given /\ local'[r].rep = local[r].rep
    BY <1>0, <2>1 DEF Locals
  <2>3. NextJacketNumber' = NextJacketNumber
    BY <2>1 DEF NextJacketNumber, Born
  <2>4. ASSUME pc[r] = "count"
        PROVE  Written(r)'
    <3>1. Written(r) /\ local[r].deal \in Requests
      BY <1>0, <2>4 DEF Known, DealCarried, Locals
    <3>2. PICK m : m = deal[local[r].deal].remarks
      OBVIOUS
    <3>3. m = Given(r, "remarks", None)
            \/ (Given(r, "remarks", None) = None /\ m \in Requests /\ pc[m] = "crashed")
      BY <1>0, <3>1, <3>2, WrittenBy
    <3>4. m \in Requests /\ pc[m] = "crashed" => pc'[m] = "crashed"
      BY <1>0, CrashedStays
    <3>5. QED
      BY <2>1, <2>2, <3>1, <3>2, <3>3, <3>4, GivenStays DEF Written
  <2> QED
    BY <1>2, <2>1, <2>2, <2>3, <2>4 DEF Known, ReviewOps
<1>9. CASE FileJacket(r) /\ ~Refuse(r)
  BY <1>0, <1>3, <1>9 DEF FileJacket, Goto, Answered
<1>10. CASE DraftCheck(r) /\ ~Refuse(r)
  <2>1. JacketsOf(local[r].vehicle) = {} /\ UNCHANGED jacket /\ pc'[r] = "draft_count"
    BY <1>0, <1>10 DEF DraftCheck, Goto, tables
  <2> QED
    BY <1>2, <2>1 DEF Known, ReviewOps
<1>11. CASE ReviewOpen(r)
  <2>1. /\ UNCHANGED jacket /\ pc'[r] \in {"approve_commit", "reject_commit"}
        /\ pc[r] \in ReviewOps
    BY <1>0, <1>11 DEF ReviewOpen, tables, ReviewOps
  <2> QED
    BY <1>1, <2>1 DEF Known, ReviewOps
<1>12. CASE SellVehicle(r)
  BY <1>0, <1>3, <1>12 DEF SellVehicle, Goto
<1>13. CASE SellCommission(r) \/ DraftCommit(r) \/ MoveJacket(r) \/ RejectCommit(r) \/ VehicleWrite(r)
         \/ DeleteVehicle(r) \/ CommissionWrite(r) \/ ArchiveRep(r) \/ (ApproveCommit(r) /\ ~Refuse(r))
  BY <1>4, <1>13 DEF SellCommission, DraftCommit, MoveJacket, RejectCommit, VehicleWrite,
     DeleteVehicle, CommissionWrite, ArchiveRep, ApproveCommit
<1> QED
  BY <1>4, <1>5, <1>6, <1>7, <1>8, <1>9, <1>10, <1>11, <1>12, <1>13 DEF Proceed

\* Who is not in flight has read nothing that matters.
LEMMA KnownStep ==
  ASSUME MaxInFlight = 1, SerialInv, NEW r \in Requests, Arrive(r) \/ Proceed(r) \/ Crash(r)
  PROVE  \A q \in Requests : Known(q)'
<1>1. DeskInv /\ TypeInv /\ Alone /\ Present /\ Remarked /\ Known(r)
  BY DEF SerialInv, DeskInv
<1>2. Known(r)'
  BY <1>1, KnownArrive, KnownProceed
<1>3. ASSUME NEW q \in Requests, q # r PROVE Known(q)'
  <2>1. pc'[q] \notin Awaits
    BY <1>1, <1>3, AloneStep
  <2> QED
    BY <2>1 DEF Known, Awaits, ReviewOps
<1> QED
  BY <1>2, <1>3

-----------------------------------------------------------------------------
(* What the steps do to the jackets.                                       *)

\* Only FileJacket and DraftCommit give a row its vehicle, deal and number, and what
\* is final stays unless a review writes it.
LEMMA RowFrame ==
  ASSUME TypeInv, NEW r \in Requests, Arrive(r) \/ Proceed(r) \/ Crash(r)
  PROVE  \/ FileJacket(r) /\ ~Refuse(r)
         \/ DraftCommit(r)
         \/ /\ \A j \in Requests : /\ jacket'[j].vehicle = jacket[j].vehicle
                                   /\ jacket'[j].deal = jacket[j].deal
                                   /\ jacket'[j].number = jacket[j].number
                                   /\ jacket'[j].rep = jacket[j].rep
                                   /\ jacket'[j].remarks = jacket[j].remarks
            /\ \/ jacket' = jacket
               \/ /\ pc[r] \in ReviewOps \cup {"approve_commit", "reject_commit"}
                  /\ \A j \in Requests : j # local[r].jacket => jacket'[j] = jacket[j]
<1>0. jacket \in [Requests -> JacketRow]
  BY DEF TypeInv, TypeOK
<1>1. CASE UNCHANGED jacket
  BY <1>1
<1>2. ASSUME NEW s, jacket' = [jacket EXCEPT ![local[r].jacket].status = s]
      PROVE  \A j \in Requests : /\ jacket'[j].vehicle = jacket[j].vehicle
                                 /\ jacket'[j].deal = jacket[j].deal
                                 /\ jacket'[j].number = jacket[j].number
                                 /\ jacket'[j].rep = jacket[j].rep
                                 /\ jacket'[j].remarks = jacket[j].remarks
                                 /\ j # local[r].jacket => jacket'[j] = jacket[j]
  BY <1>0, <1>2 DEF JacketRow
<1>3. CASE Arrive(r) \/ Refuse(r) \/ Crash(r)
  BY <1>1, <1>3, ArriveFrame DEF Refuse, Crash, tables
<1>4. CASE SellCheck(r) \/ CreateDeal(r) \/ UpdateDeal(r) \/ CountJackets(r) \/ SellVehicle(r)
        \/ SellCommission(r) \/ DraftCheck(r) \/ ReviewOpen(r)
  BY <1>1, <1>4 DEF SellCheck, CreateDeal, UpdateDeal, CountJackets, SellVehicle, SellCommission,
                    DraftCheck, ReviewOpen, Refuse, tables
<1>5. CASE VehicleWrite(r) \/ DeleteVehicle(r) \/ CommissionWrite(r) \/ ArchiveRep(r)
  BY <1>1, <1>5 DEF VehicleWrite, DeleteVehicle, CommissionWrite, ArchiveRep
<1>6. CASE MoveJacket(r)
  <2>1. pc[r] \in ReviewOps /\ \E s : jacket' = [jacket EXCEPT ![local[r].jacket].status = s]
    BY <1>6 DEF MoveJacket, ReviewOps
  <2> QED
    BY <1>2, <2>1
<1>7. CASE (ApproveCommit(r) /\ ~Refuse(r)) \/ RejectCommit(r)
  <2>1. /\ pc[r] \in {"approve_commit", "reject_commit"}
        /\ \E s : jacket' = [jacket EXCEPT ![local[r].jacket].status = s]
    BY <1>7 DEF ApproveCommit, RejectCommit
  <2> QED
    BY <1>2, <2>1
<1> HIDE DEF TypeInv
<1> QED
  BY <1>3, <1>4, <1>5, <1>6, <1>7 DEF Proceed

\* A jacket is written for a vehicle that has none, with a number nobody has.
LEMMA BookStep ==
  ASSUME DeskInv, NEW r \in Requests, Known(r), (FileJacket(r) /\ ~Refuse(r)) \/ DraftCommit(r),
         OneJacketPerVehicle, NumbersCounted, JacketNumbersUnique
  PROVE  OneJacketPerVehicle' /\ NumbersCounted' /\ JacketNumbersUnique'
<1> DEFINE Jackets == {j \in Requests : Born(j)}
<1>0. /\ jacket \in [Requests -> JacketRow] /\ JacketOwned
      /\ \A j \in Requests : jacket[j].number \in Nat
      /\ NextJacketNumber \in Nat
  BY JacketNumberType DEF DeskInv, TypeInv, TypeOK, JacketRow
<1>1. PICK v \in Vehicles, n \in Nat :
        /\ v = local[r].vehicle /\ JacketsOf(v) = {} /\ n = NextJacketNumber
        /\ pc[r] \in {"jacket", "draft_commit"}
        /\ \A j \in Requests : j # r => jacket'[j] = jacket[j]
        /\ jacket'[r].vehicle = v /\ jacket'[r].number = n
  <2>1. local[r].vehicle \in Vehicles /\ pc[r] \in {"jacket", "draft_commit"}
    BY DEF DeskInv, TypeInv, CarriedOK, PcOK, FileJacket, DraftCommit, VehicleOps
  <2>2. JacketsOf(local[r].vehicle) = {} /\ local[r].number = NextJacketNumber
    BY <2>1 DEF Known
  <2>3. /\ \A j \in Requests : j # r => jacket'[j] = jacket[j]
        /\ jacket'[r].vehicle = local[r].vehicle /\ jacket'[r].number = local[r].number
    BY <1>0 DEF FileJacket, DraftCommit, NewJacket
  <2> QED
    BY <1>0, <2>1, <2>2, <2>3
<1>2. ~Born(r)
  BY <1>0, <1>1 DEF JacketOwned
<1>3. \A j \in Requests : Born(j)' <=> Born(j) \/ j = r
  BY <1>1, DealDeskAssumption DEF Born
<1>4. NextJacketNumber' = NextJacketNumber + 1
  <2>1. {j \in Requests : Born(j)}' = Jackets \cup {r}
    BY <1>3
  <2>2. IsFiniteSet(Jackets) /\ r \notin Jackets
    BY <1>2, DealDeskAssumption, FS_Subset
  <2>3. Cardinality(Jackets \cup {r}) = Cardinality(Jackets) + 1
    BY <2>2, FS_AddElement
  <2> QED
    BY <2>1, <2>3 DEF NextJacketNumber
<1>5. OneJacketPerVehicle'
  <2>1. \A j \in Requests : jacket[j].vehicle # v
    BY <1>1 DEF JacketsOf
  <2> QED
    BY <1>1, <1>3, <2>1 DEF OneJacketPerVehicle
<1>6. \A j \in Requests : Born(j) => jacket[j].number < n
  BY <1>1 DEF NumbersCounted
<1>7. NumbersCounted'
  BY <1>0, <1>1, <1>3, <1>4, <1>6 DEF NumbersCounted
<1>8. JacketNumbersUnique'
  <2> SUFFICES ASSUME NEW j \in Requests, NEW k \in Requests, Born(j)', Born(k)',
                      jacket'[j].number = jacket'[k].number
               PROVE  j = k
    BY DEF JacketNumbersUnique
  <2>1. CASE j = r \/ k = r
    BY <1>0, <1>1, <1>3, <1>6, <2>1
  <2>2. CASE j # r /\ k # r
    BY <1>1, <1>3, <2>2 DEF JacketNumbersUnique
  <2> QED
    BY <2>1, <2>2
<1> QED
  BY <1>5, <1>7, <1>8

LEMMA JacketsStep ==
  ASSUME SerialInv, NEW r \in Requests, Arrive(r) \/ Proceed(r) \/ Crash(r)
  PROVE  OneJacketPerVehicle' /\ NumbersCounted' /\ JacketNumbersUnique'
<1>1. /\ DeskInv /\ TypeInv /\ Known(r)
      /\ OneJacketPerVehicle /\ NumbersCounted /\ JacketNumbersUnique
  BY DEF SerialInv, DeskInv
<1>2. ASSUME \A j \in Requests : /\ jacket'[j].vehicle = jacket[j].vehicle
                                 /\ jacket'[j].number = jacket[j].number
      PROVE  OneJacketPerVehicle' /\ NumbersCounted' /\ JacketNumbersUnique'
  <2>1. \A j \in Requests : Born(j)' = Born(j)
    BY <1>2 DEF Born
  <2>2. NextJacketNumber' = NextJacketNumber
    <3>1. {j \in Requests : Born(j)}' = {j \in Requests : Born(j)}
      BY <2>1
    <3> QED
      BY <3>1 DEF NextJacketNumber
  <2> QED
    BY <1>1, <1>2, <2>1, <2>2 DEF OneJacketPerVehicle, NumbersCounted, JacketNumbersUnique
<1> QED
  BY <1>1, <1>2, BookStep, RowFrame

-----------------------------------------------------------------------------
(* What they do to the deals and the commissions.                          *)

\* Only CreateDeal and UpdateDeal write a deal.
LEMMA DealFrame ==
  ASSUME TypeInv, NEW r \in Requests, Arrive(r) \/ Proceed(r) \/ Crash(r)
  PROVE  UNCHANGED deal \/ (CreateDeal(r) /\ ~Refuse(r)) \/ UpdateDeal(r)
<1>1. CASE Arrive(r)
  BY <1>1, ArriveFrame
<1>2. CASE SellCheck(r) \/ CountJackets(r) \/ FileJacket(r) \/ SellVehicle(r) \/ SellCommission(r)
        \/ DraftCheck(r) \/ DraftCommit(r) \/ MoveJacket(r) \/ ReviewOpen(r) \/ Crash(r) \/ Refuse(r)
  BY <1>2 DEF SellCheck, CountJackets, FileJacket, SellVehicle, SellCommission, DraftCheck,
     DraftCommit, MoveJacket, ReviewOpen, Crash, Refuse, tables
<1>3. CASE ApproveCommit(r) \/ RejectCommit(r) \/ VehicleWrite(r) \/ DeleteVehicle(r)
        \/ CommissionWrite(r) \/ ArchiveRep(r)
  BY <1>3 DEF ApproveCommit, RejectCommit, VehicleWrite, DeleteVehicle, CommissionWrite,
     ArchiveRep, Refuse, tables
<1> QED
  BY <1>1, <1>2, <1>3 DEF Proceed

LEMMA TermsStep ==
  ASSUME SerialInv, NEW r \in Requests, Arrive(r) \/ Proceed(r) \/ Crash(r)
  PROVE  SaleTermsAgree'
<1>0. /\ DeskInv /\ TypeInv /\ JacketOwned /\ JacketFiled /\ DealOwned /\ DealCarried /\ Known(r)
      /\ SaleTermsAgree
      /\ deal \in [Requests -> DealRow] /\ jacket \in [Requests -> JacketRow]
      /\ local \in [Requests -> Locals] /\ None \notin Vehicles /\ None \notin Requests
  BY DealDeskAssumption DEF SerialInv, DeskInv, TypeInv, TypeOK
<1>1. ASSUME NEW j \in Requests, HasDeal(j)
      PROVE  /\ jacket[j].deal \in Requests
             /\ deal[jacket[j].deal].vehicle = jacket[j].vehicle
             /\ jacket[j].vehicle # None
  BY <1>0, <1>1, FiledVehicle
\* A filed jacket that the step leaves alone, with its deal.
<1>4. ASSUME NEW j \in Requests, NEW d \in Requests, HasDeal(j), jacket[j].deal = d,
             jacket'[j].rep = jacket[j].rep, jacket'[j].remarks = jacket[j].remarks,
             deal'[d] = deal[d]
      PROVE  /\ deal'[d].terms = j /\ deal'[d].rep = jacket'[j].rep
             /\ deal'[d].remarks # jacket'[j].remarks =>
                  jacket'[j].remarks = None /\ pc'[deal'[d].remarks] = "crashed"
  <2>1. /\ deal[d].terms = j /\ deal[d].rep = jacket[j].rep
        /\ deal[d].remarks # jacket[j].remarks =>
             jacket[j].remarks = None /\ pc[deal[d].remarks] = "crashed"
    BY <1>0, <1>4 DEF SaleTermsAgree
  <2>2. deal[d].remarks \in Requests \cup {None}
    BY <1>0 DEF DealRow
  <2>3. QED
    BY <1>0, <1>4, <2>1, <2>2, CrashedStays
<1>2. CASE FileJacket(r) /\ ~Refuse(r)
  <2>1. /\ jacket' = [jacket EXCEPT ![r] = NewJacket(r, local[r].deal, "approved")]
        /\ deal' = deal /\ Written(r) /\ local[r].deal \in Requests /\ pc[r] = "jacket"
    BY <1>0, <1>2 DEF FileJacket, Known, DealCarried, Locals
  <2>2. /\ jacket'[r].deal = local[r].deal /\ jacket'[r].rep = Rep(r)
        /\ jacket'[r].remarks = Given(r, "remarks", None)
        /\ \A j \in Requests : j # r => jacket'[j] = jacket[j]
    BY <1>0, <2>1 DEF NewJacket
  <2>3. PICK m : m = deal[local[r].deal].remarks
    OBVIOUS
  <2>4. m = Given(r, "remarks", None)
          \/ (Given(r, "remarks", None) = None /\ m \in Requests /\ pc[m] = "crashed")
    BY <1>0, <2>1, <2>3, WrittenBy
  <2>5. m \in Requests /\ pc[m] = "crashed" => pc'[m] = "crashed"
    BY <1>0, CrashedStays
  <2>6. ASSUME NEW j \in Requests, j # r, HasDeal(j)'
        PROVE  HasDeal(j) /\ jacket[j].deal \in Requests
    <3>1. HasDeal(j)
      BY <2>2, <2>6 DEF HasDeal, Born
    <3>2. QED
      BY <1>1, <3>1
  <2>7. \A j \in Requests : j # r /\ HasDeal(j)' =>
          LET d == deal'[jacket'[j].deal] IN
          /\ d.terms = j /\ d.rep = jacket'[j].rep
          /\ d.remarks # jacket'[j].remarks => jacket'[j].remarks = None /\ pc'[d.remarks] = "crashed"
    BY <1>4, <2>1, <2>2, <2>6
  <2>8. LET d == deal'[jacket'[r].deal] IN
          /\ d.terms = r /\ d.rep = jacket'[r].rep
          /\ d.remarks # jacket'[r].remarks => jacket'[r].remarks = None /\ pc'[d.remarks] = "crashed"
    BY <2>1, <2>2, <2>3, <2>4, <2>5 DEF Written
  <2> QED
    BY <2>7, <2>8 DEF SaleTermsAgree
\* A step that leaves the jackets and their deals.
<1>9. ASSUME \A j \in Requests : HasDeal(j)' =>
               /\ HasDeal(j) /\ jacket'[j].deal = jacket[j].deal
               /\ jacket'[j].rep = jacket[j].rep /\ jacket'[j].remarks = jacket[j].remarks
               /\ deal'[jacket[j].deal] = deal[jacket[j].deal]
      PROVE  SaleTermsAgree'
  BY <1>1, <1>4, <1>9 DEF SaleTermsAgree
<1>3. CASE DraftCommit(r)
  <2>1. /\ jacket'[r].deal = None /\ deal' = deal
        /\ \A j \in Requests : j # r => jacket'[j] = jacket[j]
    BY <1>0, <1>3 DEF DraftCommit, NewJacket
  <2> QED
    BY <1>9, <2>1 DEF HasDeal, Born
<1>5. CASE CreateDeal(r) /\ ~Refuse(r)
  <2>1. /\ pc[r] = "deal" /\ jacket' = jacket
        /\ \A d \in Requests : d # r => deal'[d] = deal[d]
    BY <1>0, <1>5 DEF CreateDeal
  <2>2. deal[r].vehicle = None
    BY <1>0, <2>1 DEF DealOwned
  <2>3. \A j \in Requests : HasDeal(j) => jacket[j].deal # r /\ jacket[j].deal \in Requests
    BY <1>1, <2>2
  <2> QED
    BY <1>9, <2>1, <2>3 DEF HasDeal, Born
<1>6. CASE UpdateDeal(r)
  <2>1. /\ pc[r] = "deal" /\ local[r].deal # None /\ jacket' = jacket
        /\ \A d \in Requests : d # local[r].deal => deal'[d] = deal[d]
    BY <1>0, <1>6 DEF UpdateDeal
  <2>2. JacketsOf(local[r].vehicle) = {} /\ deal[local[r].deal].vehicle = local[r].vehicle
    BY <1>0, <2>1 DEF Known, DealCarried
  <2>3. \A j \in Requests : HasDeal(j) => jacket[j].deal # local[r].deal /\ jacket[j].deal \in Requests
    BY <1>1, <2>2 DEF JacketsOf
  <2> QED
    BY <1>9, <2>1, <2>3 DEF HasDeal, Born
<1>7. CASE UNCHANGED deal /\ ~((FileJacket(r) /\ ~Refuse(r)) \/ DraftCommit(r))
  <2>1. \A j \in Requests : /\ jacket'[j].vehicle = jacket[j].vehicle
                            /\ jacket'[j].deal = jacket[j].deal
                            /\ jacket'[j].rep = jacket[j].rep
                            /\ jacket'[j].remarks = jacket[j].remarks
    BY <1>0, <1>7, RowFrame
  <2> QED
    BY <1>7, <1>9, <2>1 DEF HasDeal, Born
<1> QED
  BY <1>0, <1>2, <1>3, <1>5, <1>6, <1>7, DealFrame

\* A jacket that was filed stays filed.
LEMMA FiledStays ==
  ASSUME DeskInv, NEW r \in Requests, Arrive(r) \/ Proceed(r) \/ Crash(r),
         NEW d \in Requests, Filed(d)
  PROVE  Filed(d)'
<1>0. TypeInv /\ JacketOwned /\ jacket \in [Requests -> JacketRow]
  BY DEF DeskInv, TypeInv, TypeOK
<1>1. PICK j \in Requests : HasDeal(j) /\ jacket[j].deal = d
  BY DEF Filed
<1>2. CASE (FileJacket(r) /\ ~Refuse(r)) \/ DraftCommit(r)
  <2>1. /\ pc[r] \in {"jacket", "draft_commit"}
        /\ \A k \in Requests : k # r => jacket'[k] = jacket[k]
    BY <1>0, <1>2 DEF FileJacket, DraftCommit
  <2>2. j # r
    BY <1>0, <1>1, <2>1 DEF JacketOwned, HasDeal
  <2>3. QED
    BY <1>1, <2>1, <2>2 DEF Filed, HasDeal, Born
<1>3. CASE ~((FileJacket(r) /\ ~Refuse(r)) \/ DraftCommit(r))
  <2>1. jacket'[j].vehicle = jacket[j].vehicle /\ jacket'[j].deal = jacket[j].deal
    BY <1>0, <1>3, RowFrame
  <2>2. QED
    BY <1>1, <2>1 DEF Filed, HasDeal, Born
<1>4. QED
  BY <1>2, <1>3

\* Where the request that writes a sale goes, and with which deal.
LEMMA WriterMoves ==
  ASSUME DeskInv, NEW r \in Requests, Proceed(r) \/ Crash(r), pc[r] \in {"count", "jacket"},
         NEW d \in Requests, d = local[r].deal
  PROVE  \/ pc'[r] = "crashed"
         \/ Filed(d)'
         \/ pc'[r] = "jacket" /\ local'[r].deal = d
<1>0. /\ TypeInv /\ DealCarried /\ pc \in [Requests -> Pcs] /\ local \in [Requests -> Locals]
      /\ jacket \in [Requests -> JacketRow]
      /\ local[r].op \in {"sell", "import"} /\ None \notin Vehicles
  BY DealDeskAssumption DEF DeskInv, TypeInv, TypeOK, Pcs, PcOK
<1>1. CASE Crash(r)
  BY <1>0, <1>1 DEF Crash, Goto
<1>2. CASE CountJackets(r)
  BY <1>0, <1>2 DEF CountJackets, Locals
<1>3. CASE FileJacket(r) /\ ~Refuse(r)
  <2>1. /\ jacket' = [jacket EXCEPT ![r] = NewJacket(r, local[r].deal, "approved")]
        /\ local[r].deal # None /\ local[r].vehicle \in Vehicles
    BY <1>0, <1>3 DEF FileJacket, DealCarried, TypeInv, CarriedOK, VehicleOps
  <2>2. jacket'[r].vehicle # None /\ jacket'[r].deal = d /\ d # None
    BY <1>0, <2>1, DealDeskAssumption DEF NewJacket
  <2>3. HasDeal(r)'
    BY <2>2 DEF HasDeal, Born
  <2>4. Filed(d)'
    BY <2>2, <2>3 DEF Filed
  <2>5. QED
    BY <2>4
<1>4. CASE FileJacket(r) /\ Refuse(r)
  <2>1. JacketsOfDeal(local[r].deal) # {} /\ UNCHANGED jacket /\ local[r].deal # None
    <3>1. pc[r] = "jacket" /\ pc'[r] = "refused"
      BY <1>0, <1>4 DEF FileJacket, Refuse, Goto
    <3>2. UNCHANGED jacket /\ local[r].deal # None
      BY <1>0, <1>4, <3>1 DEF Refuse, tables, DealCarried
    <3>3. QED
      BY <1>0, <1>4, <3>1, <3>2 DEF FileJacket, Goto
  <2>2. Filed(d)
    BY <2>1 DEF JacketsOfDeal, Filed, HasDeal
  <2>3. Filed(d)'
    BY <2>1, <2>2 DEF Filed, HasDeal, Born
  <2>4. QED
    BY <2>3
<1>5. Crash(r) \/ CountJackets(r) \/ FileJacket(r)
  BY <1>0 DEF Proceed, SellCheck, CreateDeal, UpdateDeal, SellVehicle, SellCommission, DraftCheck,
     DraftCommit, MoveJacket, ReviewOpen, ApproveCommit, RejectCommit, VehicleWrite, DeleteVehicle,
     CommissionWrite, ArchiveRep, ReviewOps
<1>6. QED
  BY <1>1, <1>2, <1>3, <1>4, <1>5

LEMMA RemarkedStep ==
  ASSUME SerialInv, NEW r \in Requests, Arrive(r) \/ Proceed(r) \/ Crash(r)
  PROVE  Remarked'
<1>0. /\ DeskInv /\ TypeInv /\ DealOwned /\ DealCarried /\ Known(r) /\ Remarked
      /\ pc \in [Requests -> Pcs] /\ deal \in [Requests -> DealRow] /\ local \in [Requests -> Locals]
      /\ None \notin Requests
  BY DealDeskAssumption DEF SerialInv, DeskInv, TypeInv, TypeOK, Pcs
\* Remarks that were explained stay so.
<1>1. ASSUME NEW d \in Requests, NEW m \in Requests \cup {None}, RemarksOf(m, d)
      PROVE  RemarksOf(m, d)'
  <2>1. CASE Filed(d)
    BY <1>0, <2>1, FiledStays DEF RemarksOf
  <2>2. CASE m = None
    BY <2>2 DEF RemarksOf
  <2>3. CASE m \in Requests /\ pc[m] = "crashed"
    BY <1>0, <2>3, CrashedStays DEF RemarksOf
  <2>4. CASE m \in Requests /\ pc[m] \in {"count", "jacket"} /\ local[m].deal = d
    <3>1. CASE m # r
      <4>1. pc'[m] = pc[m] /\ local'[m] = local[m]
        BY <1>0, <2>4, <3>1, ArriveFrame, ProceedFrame
      <4>2. QED
        BY <2>4, <4>1 DEF RemarksOf
    <3>2. CASE m = r
      <4>1. Proceed(r) \/ Crash(r)
        BY <1>0, <2>4, <3>2, ArriveFrame
      <4>2. QED
        BY <1>0, <2>4, <3>2, <4>1, WriterMoves DEF RemarksOf
    <3>3. QED
      BY <3>1, <3>2
  <2>5. QED
    BY <1>1, <2>1, <2>2, <2>3, <2>4 DEF RemarksOf
<1>2. \A d \in Requests : deal[d].remarks \in Requests \cup {None}
  BY <1>0 DEF DealRow
<1>3. CASE UNCHANGED deal
  BY <1>0, <1>1, <1>2, <1>3 DEF Remarked
<1>4. CASE CreateDeal(r) /\ ~Refuse(r)
  <2>1. /\ deal' = [deal EXCEPT ![r] = NewDeal(r)] /\ pc'[r] = "count"
        /\ local' = [local EXCEPT ![r].deal = r]
    BY <1>0, <1>4 DEF CreateDeal
  <2>2. local'[r].deal = r
    BY <1>0, <2>1 DEF Locals
  <2>3. deal'[r].remarks \in {r, None} /\ \A d \in Requests : d # r => deal'[d] = deal[d]
    BY <1>0, <2>1 DEF NewDeal, Given
  <2>4. PICK m \in Requests \cup {None} : m = deal'[r].remarks
    BY <2>3
  <2>5. RemarksOf(m, r)'
    BY <2>1, <2>2, <2>3, <2>4 DEF RemarksOf
  <2>6. QED
    BY <1>0, <1>1, <1>2, <2>3, <2>4, <2>5 DEF Remarked
<1>5. CASE UpdateDeal(r)
  <2>1. /\ pc[r] = "deal" /\ pc'[r] = "count" /\ local' = local
        /\ local[r].deal \in Requests /\ local[r].deal # None
    BY <1>0, <1>5 DEF UpdateDeal, Goto, Locals
  <2>2. PICK d \in Requests : d = local[r].deal
    BY <2>1
  <2>3. PICK m \in Requests \cup {None} : m = local[r].remarks
    BY <1>0 DEF Locals
  <2>4. /\ deal'[d].remarks \in {r, m}
        /\ \A e \in Requests : e # d => deal'[e] = deal[e]
    BY <1>0, <1>5, <2>1, <2>2, <2>3 DEF UpdateDeal, DealRow, Given
  <2>5. m = None \/ pc[m] = "crashed"
    BY <1>0, <2>1, <2>3 DEF Known
  <2>6. RemarksOf(m, d)'
    <3>1. RemarksOf(m, d)
      BY <2>5 DEF RemarksOf
    <3>2. QED
      BY <1>1, <3>1
  <2>7. RemarksOf(r, d)'
    BY <2>1, <2>2 DEF RemarksOf
  <2>8. QED
    BY <1>0, <1>1, <1>2, <2>2, <2>3, <2>4, <2>6, <2>7 DEF Remarked
<1>6. QED
  BY <1>0, <1>3, <1>4, <1>5, DealFrame

LEMMA PausedStep ==
  ASSUME SerialInv, NEW r \in Requests, Arrive(r) \/ Proceed(r) \/ Crash(r)
  PROVE  PausedStaysPaused'
<1>0. /\ TypeInv /\ Known(r) /\ PausedStaysPaused
      /\ commission \in [Requests -> CommissionRow] /\ None \notin CommissionStatus
  BY DealDeskAssumption DEF SerialInv, DeskInv, TypeInv, TypeOK
<1>1. CASE UNCHANGED commission
  BY <1>0, <1>1 DEF PausedStaysPaused
\* The status of a commission that is not paused changes.
<1>2. ASSUME NEW j \in Requests, NEW s, ~commission[j].archived,
             commission' = [commission EXCEPT ![j].status = s]
      PROVE  PausedStaysPaused'
  BY <1>0, <1>2 DEF PausedStaysPaused, CommissionRow
<1>3. \A j \in Requests : commission[j].status = None => ~commission[j].archived
  BY <1>0 DEF PausedStaysPaused, CommissionStatus
<1>4. CASE SellCommission(r)
  <2>1. \/ commission' = commission
        \/ commission[r].status = None /\ commission' = [commission EXCEPT ![r].status = "approved"]
    BY <1>4 DEF SellCommission
  <2> QED
    BY <1>1, <1>2, <1>3, <2>1
<1>5. CASE (ApproveCommit(r) /\ ~Refuse(r)) \/ RejectCommit(r)
  <2>1. local[r].jacket \in Requests
    BY <1>0, <1>5 DEF ApproveCommit, RejectCommit, TypeInv, CarriedOK, PcOK, ReviewOps
  <2>2. \/ commission' = commission
        \/ /\ ~commission[local[r].jacket].archived
           /\ \E s : commission' = [commission EXCEPT ![local[r].jacket].status = s]
    BY <1>3, <1>5, <2>1 DEF ApproveCommit, RejectCommit
  <2> QED
    BY <1>1, <1>2, <2>1, <2>2
<1>6. CASE CommissionWrite(r)
  <2>1. local[r].jacket \in Requests /\ ~commission[local[r].jacket].archived
    BY <1>0, <1>6 DEF CommissionWrite, TypeInv, CarriedOK, PcOK, Known
  <2> QED
    BY <1>2, <1>6, <2>1 DEF CommissionWrite
<1>7. CASE ArchiveRep(r)
  BY <1>0, <1>7 DEF ArchiveRep, PausedStaysPaused
<1>8. CASE Arrive(r) \/ Refuse(r) \/ Crash(r)
  BY <1>0, <1>1, <1>8, ArriveFrame DEF Refuse, Crash, tables
<1>9. CASE SellCheck(r) \/ CreateDeal(r) \/ UpdateDeal(r) \/ CountJackets(r) \/ FileJacket(r)
        \/ SellVehicle(r) \/ DraftCheck(r) \/ DraftCommit(r) \/ MoveJacket(r) \/ ReviewOpen(r)
        \/ VehicleWrite(r) \/ DeleteVehicle(r)
  BY <1>1, <1>9 DEF SellCheck, CreateDeal, UpdateDeal, CountJackets, FileJacket, SellVehicle,
     DraftCheck, DraftCommit, MoveJacket, ReviewOpen, VehicleWrite, DeleteVehicle, Refuse, tables
<1> QED
  BY <1>4, <1>5, <1>6, <1>7, <1>8, <1>9 DEF Proceed

\* What is final is neither under review nor written again.
LEMMA FinalStep ==
  ASSUME SerialInv, NEW r \in Requests, Arrive(r) \/ Proceed(r) \/ Crash(r)
  PROVE  \A j \in Requests : Born(j) /\ jacket[j].status \in Final
           => jacket'[j].status = jacket[j].status
<1>0. /\ TypeInv /\ Known(r) /\ JacketOwned /\ jacket \in [Requests -> JacketRow]
  BY DEF SerialInv, DeskInv, TypeInv, TypeOK
<1>1. CASE (FileJacket(r) /\ ~Refuse(r)) \/ DraftCommit(r)
  <2>1. /\ pc[r] \in {"jacket", "draft_commit"}
        /\ \A j \in Requests : j # r => jacket'[j] = jacket[j]
    BY <1>0, <1>1 DEF FileJacket, DraftCommit
  <2>2. ~Born(r)
    BY <1>0, <2>1 DEF JacketOwned
  <2> QED
    BY <2>1, <2>2
<1>2. CASE jacket' = jacket
  BY <1>2
<1>3. CASE /\ pc[r] \in ReviewOps \cup {"approve_commit", "reject_commit"}
           /\ \A j \in Requests : j # local[r].jacket => jacket'[j] = jacket[j]
  BY <1>0, <1>3 DEF Known
<1> QED
  BY <1>0, <1>1, <1>2, <1>3, RowFrame

-----------------------------------------------------------------------------
(* The invariant and what follows from it.                                 *)

LEMMA SerialInvInit == Init => SerialInv
<1> SUFFICES ASSUME Init PROVE SerialInv
  OBVIOUS
<1>1. /\ \A r \in Requests : pc[r] = "idle" /\ ~Born(r) /\ local[r].op = None
      /\ \A r \in Requests : ~commission[r].archived
  BY DEF Init, Born, NoJacket, NoLocals
<1>2. Alone /\ Present /\ \A r \in Requests : Known(r)
  BY <1>1, DealDeskAssumption DEF Alone, Present, Known, Awaits, ReviewOps, AllOps, VehicleOps
<1>3. /\ OneJacketPerVehicle /\ NumbersCounted /\ JacketNumbersUnique
      /\ SaleTermsAgree /\ PausedStaysPaused
  BY <1>1 DEF OneJacketPerVehicle, NumbersCounted, JacketNumbersUnique, SaleTermsAgree,
     PausedStaysPaused, HasDeal
<1>4. Remarked
  BY DEF Init, NoDeal, Remarked, RemarksOf
<1> QED
  BY <1>2, <1>3, <1>4, DeskInvInit DEF SerialInv

LEMMA SerialInvStep == MaxInFlight = 1 /\ SerialInv /\ [Next]_vars => SerialInv'
<1> SUFFICES ASSUME MaxInFlight = 1, SerialInv, [Next]_vars PROVE SerialInv'
  OBVIOUS
<1>1. DeskInv'
  BY DeskInvStep DEF SerialInv
<1>2. CASE Next
  <2>1. PICK r \in Requests : Arrive(r) \/ Proceed(r) \/ Crash(r)
    BY <1>2 DEF Next
  <2>2. TypeInv /\ Alone /\ Present
    BY DEF SerialInv, DeskInv
  <2>3. Alone' /\ Present'
    BY <2>1, <2>2, AloneStep, PresentStep
  <2>4. \A q \in Requests : Known(q)'
    BY <2>1, KnownStep
  <2>5. /\ OneJacketPerVehicle' /\ NumbersCounted' /\ JacketNumbersUnique'
        /\ SaleTermsAgree' /\ Remarked' /\ PausedStaysPaused'
    BY <2>1, JacketsStep, TermsStep, RemarkedStep, PausedStep
  <2> QED
    BY <1>1, <2>3, <2>4, <2>5 DEF SerialInv
<1>3. CASE UNCHANGED vars
  <2>0. Alone' /\ Present'
    BY <1>3 DEF vars, tables, SerialInv, Alone, Present
  <2>1. ASSUME NEW r \in Requests
        PROVE  Known(r)'
    <3>1. Known(r) /\ UNCHANGED <<deal, jacket, commission, pc, local>>
      BY <1>3 DEF SerialInv, vars, tables
    <3>2. JacketsOf(local[r].vehicle)' = JacketsOf(local[r].vehicle)
      BY <3>1 DEF JacketsOf
    <3>3. NextJacketNumber' = NextJacketNumber
      BY <3>1 DEF NextJacketNumber, Born
    <3>4. Rep(r)' = Rep(r) /\ Given(r, "remarks", None)' = Given(r, "remarks", None)
      BY <3>1, GivenStays
    <3>5. Written(r)' = Written(r)
      BY <3>1, <3>4 DEF Written
    <3>6. QED
      BY <3>1, <3>2, <3>3, <3>5 DEF Known
  <2>2. /\ OneJacketPerVehicle' /\ NumbersCounted' /\ JacketNumbersUnique'
        /\ SaleTermsAgree' /\ Remarked' /\ PausedStaysPaused'
    BY <1>3 DEF vars, tables, SerialInv, OneJacketPerVehicle, NumbersCounted, JacketNumbersUnique,
       SaleTermsAgree, Remarked, RemarksOf, PausedStaysPaused, NextJacketNumber, Born, HasDeal, Filed
  <2> QED
    BY <1>1, <2>0, <2>1, <2>2 DEF SerialInv
<1> QED
  BY <1>2, <1>3

\* The desk that serves one request at a time keeps the invariant.
LEMMA SerialInvAlways ==
  ASSUME MaxInFlight = 1
  PROVE  Spec => []SerialInv
<1>1. SerialInv /\ [Next]_vars => SerialInv'
  BY SerialInvStep
<1> QED
  BY <1>1, SerialInvInit, PTL DEF Spec

(* No vehicle has two jackets when requests do not overlap: createJacket    *)
(* and markSold look for one before they write theirs.                     *)
THEOREM SerialOneJacket ==
  ASSUME MaxInFlight = 1
  PROVE  Spec => []OneJacketPerVehicle
<1>1. SerialInv => OneJacketPerVehicle
  BY DEF SerialInv
<1> QED
  BY <1>1, SerialInvAlways, PTL

(* Numbering jackets by counting them repeats no number when requests do   *)
(* not overlap, whichever of them crash (nextJacketNumber).                *)
THEOREM SerialNumbersUnique ==
  ASSUME MaxInFlight = 1
  PROVE  Spec => []JacketNumbersUnique
<1>1. SerialInv => JacketNumbersUnique
  BY DEF SerialInv
<1> QED
  BY <1>1, SerialInvAlways, PTL

(* A sale's deal and jacket state the same terms and the same sales rep,    *)
(* also when a later request completed the sale of one that crashed, and    *)
(* have remarks of one request unless it left them out: the update of the   *)
(* deal keeps the crashed sale's, the jacket has none (markSold).           *)
THEOREM SerialTermsAgree ==
  ASSUME MaxInFlight = 1
  PROVE  Spec => []SaleTermsAgree
<1>1. SerialInv => SaleTermsAgree
  BY DEF SerialInv
<1> QED
  BY <1>1, SerialInvAlways, PTL

(* A commission that archiving its rep paused stays paused: no approval, no *)
(* rejection and no update reaches it (archiveSalesRep).                   *)
THEOREM SerialPaused ==
  ASSUME MaxInFlight = 1
  PROVE  Spec => []PausedStaysPaused
<1>1. SerialInv => PausedStaysPaused
  BY DEF SerialInv
<1> QED
  BY <1>1, SerialInvAlways, PTL

(* What FINAL_STATUSES promises holds when no review runs between another's *)
(* check and its write: an approved or rejected jacket keeps its status.   *)
THEOREM SerialFinal ==
  ASSUME MaxInFlight = 1
  PROVE  Spec => FinalIsFinal
<1>1. SerialInv /\ [Next]_vars =>
        [\A j \in Requests : Born(j) /\ jacket[j].status \in Final
           => jacket'[j].status = jacket[j].status]_vars
  BY FinalStep DEF Next
<1> QED
  BY <1>1, SerialInvAlways, PTL DEF Spec, FinalIsFinal
=============================================================================
