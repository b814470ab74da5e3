------------------------------ MODULE DealDesk ------------------------------
(***************************************************************************)
(* The deal desk: how a vehicle is sold.  deals.service.js (markSold,      *)
(* importPreviousSold, markLoss), jackets.service.js (createJacket and the *)
(* review workflow), vehicles.service.js (changeVehicleStatus,             *)
(* deleteVehicle) and payroll.service.js (the commission of a jacket) all  *)
(* write the same four tables: Vehicle, Deal, DealJacket and               *)
(* SalesRepCommission.                                                     *)
(*                                                                         *)
(* Every HTTP request is a process.  A handler is cut at its awaits: what  *)
(* it read before an await is kept in `local' and used after it, when the  *)
(* tables may have changed.  Only a $transaction commits several writes in *)
(* one step, and PostgreSQL runs it READ COMMITTED: what it reads may have *)
(* changed when it commits.  A request may crash at any await (the process *)
(* dies, the pooled connection drops); its earlier writes stay.            *)
(*                                                                         *)
(* A request creates at most one Deal and one DealJacket, so the uuid of a *)
(* row is written as the request that created it.  Activity, history and   *)
(* audit rows are logging and are left out, as are amounts: a row's terms, *)
(* its sales rep and its remarks are named by the request that gave them.  *)
(***************************************************************************)
EXTENDS Integers, FiniteSets

CONSTANTS
  Vehicles,     \* vehicle ids
  Requests,     \* the requests clients ever send; one process each
  None,         \* SQL NULL
  Ops,          \* the operations clients call in this instance
  Payloads,     \* what of Optional a request gives in this instance
  MaxInFlight   \* how many requests are served at the same time

VehicleStatus == {"absent", "in_stock", "pending_deal", "sold", "loss", "wholesale"}
Exit == {"sold", "loss", "wholesale"}
Active == {"in_stock", "pending_deal"}

Final == {"approved", "rejected"}
JacketStatus ==
  {"draft", "pending_review", "changes_requested", "resubmitted"} \cup Final
CommissionStatus == {"pending_review", "approved", "rejected", "paid"}

ReviewOps == {"submit", "resubmit", "request_changes", "approve", "reject"}
AllOps == ReviewOps \cup
  {"sell", "import", "draft", "loss", "set_status", "delete",
   "set_commission", "archive_rep"}

Answered == {"ok", "refused", "crashed"}
Awaits == ReviewOps \cup
  {"sell_check", "deal", "count", "jacket", "vehicle", "commission", "draft_check", "draft_count",
   "draft_commit", "approve_commit", "reject_commit", "loss", "set_status", "delete",
   "set_commission", "archive_rep"}

\* What a client may leave out of a sale or a jacket: the sales rep, the amount of
\* the rep's commission, and the remarks (rosNumber and notes).
Optional == {"rep", "commission", "remarks"}

ASSUME DealDeskAssumption ==
  /\ None \notin Vehicles \cup Requests \cup AllOps \cup CommissionStatus
  /\ Ops \subseteq AllOps /\ Payloads \subseteq SUBSET Optional
  /\ MaxInFlight \in Nat
  /\ IsFiniteSet(Requests)

VARIABLES
  vehicle,      \* Vehicle rows; "absent" before the import that creates one
  deal,         \* Deal rows, by the request that created them
  jacket,       \* DealJacket rows, by the request that created them
  commission,   \* SalesRepCommission rows, by the jacket they belong to
  repActive,    \* the sales rep's User row: deletedAt IS NULL
  pc,           \* the await each request is at
  local         \* what each request carries across its awaits

tables == <<vehicle, deal, jacket, commission, repActive>>
vars == <<tables, pc, local>>

NoDeal == [vehicle |-> None, terms |-> None, rep |-> None, remarks |-> None]
NoJacket == [vehicle |-> None, deal |-> None, status |-> "draft", pays |-> FALSE,
             rep |-> None, remarks |-> None, number |-> 0]
NoLocals == [op |-> None, vehicle |-> None, jacket |-> None, deal |-> None, seen |-> "absent",
             to |-> None, given |-> {}, rep |-> None, remarks |-> None, number |-> 0]

-----------------------------------------------------------------------------
(* Queries and constraints of the schema.                                  *)

Born(j) == jacket[j].vehicle # None
DealsOf(v) == {d \in Requests : deal[d].vehicle = v}
JacketsOf(v) == {j \in Requests : jacket[j].vehicle = v}
\* Mutant: dealId without its unique constraint.
NoUniqueDealId(d) == {}
\* Mutant: any jacket of the vehicle counts as the deal's.
AnyJacketOfVehicle(d) == JacketsOf(deal[d].vehicle)

JacketsOfDeal(d) == {j \in Requests : Born(j) /\ jacket[j].deal = d}

Listed(v) == vehicle[v].status # "absent" /\ ~vehicle[v].deleted

\* A transaction that updated a jacket holds the row until it commits.
RowFree(j) == \A r \in Requests :
  pc[r] \in {"approve_commit", "reject_commit"} => local[r].jacket # j

InFlight == {r \in Requests : pc[r] \in Awaits}

Accept(r, op) ==
  /\ pc[r] = "idle"
  /\ op \in Ops
  /\ Cardinality(InFlight) < MaxInFlight

Begin(r, await, carried) ==
  /\ pc' = [pc EXCEPT ![r] = await]
  /\ local' = [local EXCEPT ![r] = carried]
  /\ UNCHANGED tables

Goto(r, await) == pc' = [pc EXCEPT ![r] = await] /\ UNCHANGED local
Answer(r) == Goto(r, "ok")
Refuse(r) == Goto(r, "refused") /\ UNCHANGED tables

\* Mutant: a status the schema does not have.
SetRawStatus(v, s, gone) ==
  vehicle' = [vehicle EXCEPT ![v].status = "SOLD", ![v].soldAt = gone]

SetStatus(v, s, gone) ==
  vehicle' = [vehicle EXCEPT ![v].status = s, ![v].soldAt = gone]

-----------------------------------------------------------------------------
(* markSold and importPreviousSold: one query after another.               *)

\* The client's value, or what there was.
Given(r, field, old) == IF field \in local[r].given THEN r ELSE old

Rep(r) == Given(r, "rep", local[r].rep)

NewDeal(r) == [vehicle |-> local[r].vehicle, terms |-> r,
               rep |-> Rep(r), remarks |-> Given(r, "remarks", None)]

\* Remarks the client leaves out are null in the jacket, whatever the deal has.
NewJacket(r, d, status) ==
  [vehicle |-> local[r].vehicle, deal |-> d, status |-> status,
   pays |-> Rep(r) # None /\ "commission" \in local[r].given,
   rep |-> Rep(r), remarks |-> Given(r, "remarks", None), number |-> local[r].number]

\* assertVehicleForDeal reads the vehicle, then the deal and the jackets it includes.
SellRead(r) == \E v \in Vehicles, given \in Payloads :
  /\ Accept(r, "sell")
  /\ Listed(v) /\ vehicle[v].status # "loss"
  /\ Begin(r, "sell_check",
           [NoLocals EXCEPT !.op = "sell", !.vehicle = v, !.seen = vehicle[v].status,
                            !.given = given])

\* A vehicle seen sold passes with its deal, any other only without one.
SaleAllowed(v, seen) == JacketsOf(v) = {} /\ (seen # "sold" => DealsOf(v) = {})

SellCheck(r) == LET v == local[r].vehicle IN
  /\ pc[r] = "sell_check"
  /\ \/ /\ SaleAllowed(v, local[r].seen)
        /\ IF DealsOf(v) = {} THEN UNCHANGED local
           ELSE \E d \in DealsOf(v) :
                  local' = [local EXCEPT ![r].deal = d, ![r].rep = deal[d].rep,
                                         ![r].remarks = deal[d].remarks]
        /\ pc' = [pc EXCEPT ![r] = "deal"]
        /\ UNCHANGED tables
     \/ /\ ~SaleAllowed(v, local[r].seen)
        /\ Refuse(r)

\* The import creates its vehicle sold, then goes the same way.  It always writes
\* remarks into deal and jacket, and may give a commission without a rep.
ImportVehicle(r) == \E v \in Vehicles, given \in Payloads :
  /\ Accept(r, "import")
  /\ vehicle[v].status = "absent"
  /\ SetStatus(v, "sold", TRUE)
  /\ pc' = [pc EXCEPT ![r] = "deal"]
  /\ local' = [local EXCEPT ![r] = [NoLocals EXCEPT !.op = "import", !.vehicle = v,
                                                     !.given = given \cup {"remarks"}]]
  /\ UNCHANGED <<deal, jacket, commission, repActive>>

\* Mutant: the unique violation is swallowed and the request goes on.
CreateDealOrIgnore(r) ==
  /\ pc[r] = "deal" /\ local[r].deal = None
  /\ IF DealsOf(local[r].vehicle) = {}
     THEN /\ deal' = [deal EXCEPT ![r] = NewDeal(r)]
          /\ local' = [local EXCEPT ![r].deal = r]
     ELSE UNCHANGED <<deal, local>>
  /\ pc' = [pc EXCEPT ![r] = "count"]
  /\ UNCHANGED <<vehicle, jacket, commission, repActive>>

\* deal.create; Deal.vehicleId is unique, a second one fails the request.
CreateDeal(r) ==
  /\ pc[r] = "deal" /\ local[r].deal = None
  /\ \/ /\ DealsOf(local[r].vehicle) = {}
        /\ deal' = [deal EXCEPT ![r] = NewDeal(r)]
        /\ local' = [local EXCEPT ![r].deal = r]
        /\ pc' = [pc EXCEPT ![r] = "count"]
        /\ UNCHANGED <<vehicle, jacket, commission, repActive>>
     \/ /\ DealsOf(local[r].vehicle) # {}
        /\ Refuse(r)

\* Mutant: completing a sale keeps the deal of the interrupted one as it was.
KeepDeal(r) ==
  /\ pc[r] = "deal" /\ local[r].deal # None
  /\ Goto(r, "count")
  /\ UNCHANGED tables

\* deal.update of the deal that assertVehicleForDeal returned: what the client left
\* out stays as it was read there.
UpdateDeal(r) ==
  /\ pc[r] = "deal" /\ local[r].deal # None
  /\ deal' = [deal EXCEPT ![local[r].deal] =
       [@ EXCEPT !.terms = r, !.rep = Rep(r), !.remarks = Given(r, "remarks", local[r].remarks)]]
  /\ Goto(r, "count")
  /\ UNCHANGED <<vehicle, jacket, commission, repActive>>

\* Mutant: only jackets that are still open are counted.
NextOpenJacketNumber == Cardinality({j \in Requests : Born(j) /\ jacket[j].status \notin Final}) + 1

\* nextJacketNumber counts every jacket; nothing is locked.
NextJacketNumber == Cardinality({j \in Requests : Born(j)}) + 1

CountJackets(r) == \E await \in {"count", "draft_count"} :
  /\ pc[r] = await
  /\ pc' = [pc EXCEPT ![r] = IF await = "count" THEN "jacket" ELSE "draft_commit"]
  /\ local' = [local EXCEPT ![r].number = NextJacketNumber]
  /\ UNCHANGED tables

\* dealJacket.create, born approved; DealJacket.dealId is unique.
FileJacket(r) ==
  /\ pc[r] = "jacket"
  /\ \/ /\ JacketsOfDeal(local[r].deal) = {}
        /\ jacket' = [jacket EXCEPT ![r] = NewJacket(r, local[r].deal, "approved")]
        /\ Goto(r, IF local[r].op = "sell" THEN "vehicle" ELSE "ok")
        /\ UNCHANGED <<vehicle, deal, commission, repActive>>
     \/ /\ JacketsOfDeal(local[r].deal) # {}
        /\ Refuse(r)

SellVehicle(r) ==
  /\ pc[r] = "vehicle"
  /\ SetStatus(local[r].vehicle, "sold", TRUE)
  /\ Goto(r, "commission")
  /\ UNCHANGED <<deal, jacket, commission, repActive>>

\* Only this request and an approval write this row, and no approval opens an
\* approved jacket: the findFirst before the create is not cut from it.
SellCommission(r) ==
  /\ pc[r] = "commission"
  /\ commission' = IF jacket[r].pays /\ commission[r].status = None
                   THEN [commission EXCEPT ![r].status = "approved"]
                   ELSE commission
  /\ Answer(r)
  /\ UNCHANGED <<vehicle, deal, jacket, repActive>>

-----------------------------------------------------------------------------
(* createJacket: two reads, then a transaction that counts and commits.    *)

DraftRead(r) == \E v \in Vehicles, given \in Payloads :
  /\ Accept(r, "draft")
  /\ Listed(v) /\ vehicle[v].status # "loss"
  /\ Begin(r, "draft_check",
           [NoLocals EXCEPT !.op = "draft", !.vehicle = v, !.seen = vehicle[v].status,
                            !.given = given])

\* Mutant: the query for an existing jacket is dropped.
DraftCheckStatusOnly(r) ==
  /\ pc[r] = "draft_check"
  /\ IF local[r].seen # "sold"
     THEN Goto(r, "draft_count") /\ UNCHANGED tables
     ELSE Refuse(r)

DraftCheck(r) ==
  /\ pc[r] = "draft_check"
  /\ IF JacketsOf(local[r].vehicle) = {} /\ local[r].seen # "sold"
     THEN Goto(r, "draft_count") /\ UNCHANGED tables
     ELSE Refuse(r)

DraftCommit(r) ==
  /\ pc[r] = "draft_commit"
  /\ jacket' = [jacket EXCEPT ![r] = NewJacket(r, None, "draft")]
  /\ vehicle' = [vehicle EXCEPT ![local[r].vehicle].status = "pending_deal"]
  /\ Answer(r)
  /\ UNCHANGED <<deal, commission, repActive>>

-----------------------------------------------------------------------------
(* The review workflow: the status is checked, then written unconditionally. *)

\* Mutant: approve, reject and request_changes forget FINAL_STATUSES.
MayOpenFinal(op, status) ==
  CASE op = "submit" -> status \in {"draft", "changes_requested"}
    [] op = "resubmit" -> status = "changes_requested"
    [] OTHER -> TRUE

MayOpen(op, status) ==
  CASE op = "submit" -> status \in {"draft", "changes_requested"}
    [] op = "resubmit" -> status = "changes_requested"
    [] OTHER -> status \notin Final

ReviewRead(r) == \E j \in Requests, op \in ReviewOps :
  /\ Accept(r, op)
  /\ Born(j) /\ MayOpen(op, jacket[j].status)
  /\ Begin(r, op, [NoLocals EXCEPT !.op = op, !.jacket = j])

MovedTo == [submit |-> "pending_review", resubmit |-> "resubmitted",
            request_changes |-> "changes_requested"]

\* submitJacket, resubmitJacket and transitionJacket: update by id.
MoveJacket(r) ==
  /\ pc[r] \in {"submit", "resubmit", "request_changes"}
  /\ RowFree(local[r].jacket)
  /\ jacket' = [jacket EXCEPT ![local[r].jacket].status = MovedTo[pc[r]]]
  /\ Answer(r)
  /\ UNCHANGED <<vehicle, deal, commission, repActive>>

\* The transaction updates the jacket, which locks it, then reads the vehicle.
ReviewOpen(r) == \E op \in {"approve", "reject"} :
  /\ pc[r] = op
  /\ RowFree(local[r].jacket)
  /\ pc' = [pc EXCEPT ![r] = IF op = "approve" THEN "approve_commit" ELSE "reject_commit"]
  /\ local' = [local EXCEPT ![r].seen = vehicle[jacket[local[r].jacket].vehicle].status]
  /\ UNCHANGED tables

\* createCommissionOnApprove looks for a commission that is not archived; an
\* archived one still holds the unique dealJacketId and aborts the transaction.
ApproveCommit(r) == LET j == local[r].jacket IN
  /\ pc[r] = "approve_commit"
  /\ IF jacket[j].pays /\ commission[j].archived THEN Refuse(r)
     ELSE /\ jacket' = [jacket EXCEPT ![j].status = "approved"]
          /\ IF local[r].seen # "sold"
             THEN SetStatus(jacket[j].vehicle, "sold", TRUE)
             ELSE UNCHANGED vehicle
          /\ commission' = IF jacket[j].pays /\ commission[j].status = None
                           THEN [commission EXCEPT ![j].status = "approved"]
                           ELSE commission
          /\ Answer(r)
          /\ UNCHANGED <<deal, repActive>>

RejectCommit(r) == LET j == local[r].jacket IN
  /\ pc[r] = "reject_commit"
  /\ jacket' = [jacket EXCEPT ![j].status = "rejected"]
  /\ vehicle' = IF local[r].seen = "pending_deal"
                THEN [vehicle EXCEPT ![jacket[j].vehicle].status = "in_stock"]
                ELSE vehicle
  /\ commission' = IF commission[j].status # None /\ ~commission[j].archived
                   THEN [commission EXCEPT ![j].status = "rejected"]
                   ELSE commission
  /\ Answer(r)
  /\ UNCHANGED <<deal, repActive>>

-----------------------------------------------------------------------------
(* markLoss, changeVehicleStatus and deleteVehicle.                        *)

VehicleRead(r) == \E v \in Vehicles, op \in {"loss", "set_status", "delete"},
                     s \in Exit \cup Active :
  /\ Accept(r, op)
  /\ Listed(v)
  /\ op = "loss" => vehicle[v].status \notin {"sold", "loss"} /\ s = "loss"
  /\ op = "set_status" => vehicle[v].status # s \/ (s \in Active /\ vehicle[v].soldAt)
  /\ op = "delete" => s = "in_stock"
  /\ Begin(r, op, [NoLocals EXCEPT !.op = op, !.vehicle = v, !.to = s])

VehicleWrite(r) ==
  /\ pc[r] \in {"loss", "set_status"}
  /\ SetStatus(local[r].vehicle, local[r].to, local[r].to \in Exit)
  /\ Answer(r)
  /\ UNCHANGED <<deal, jacket, commission, repActive>>

\* Mutant: a hard delete, which cascades to the vehicle's deal.
DeleteCascade(r) == LET v == local[r].vehicle IN
  /\ pc[r] = "delete"
  /\ vehicle' = [vehicle EXCEPT ![v].status = "absent"]
  /\ deal' = [d \in Requests |-> IF d \in DealsOf(v) THEN NoDeal ELSE deal[d]]
  /\ Answer(r)
  /\ UNCHANGED <<jacket, commission, repActive>>

\* A soft delete: the vehicle's deal and jackets stay.
DeleteVehicle(r) ==
  /\ pc[r] = "delete"
  /\ vehicle' = [vehicle EXCEPT ![local[r].vehicle].deleted = TRUE]
  /\ Answer(r)
  /\ UNCHANGED <<deal, jacket, commission, repActive>>

-----------------------------------------------------------------------------
(* The commission ledger: updateCommission, markCommissionPaid and         *)
(* archiveSalesRep.                                                        *)

\* Mutant: the query forgets deletedAt: null.
CommissionReadArchived(r) == \E j \in Requests, s \in CommissionStatus :
  /\ Accept(r, "set_commission")
  /\ commission[j].status # None
  /\ Begin(r, "set_commission",
           [NoLocals EXCEPT !.op = "set_commission", !.jacket = j, !.to = s])

CommissionRead(r) == \E j \in Requests, s \in CommissionStatus :
  /\ Accept(r, "set_commission")
  /\ commission[j].status # None /\ ~commission[j].archived
  /\ Begin(r, "set_commission",
           [NoLocals EXCEPT !.op = "set_commission", !.jacket = j, !.to = s])

CommissionWrite(r) ==
  /\ pc[r] = "set_commission"
  /\ commission' = [commission EXCEPT ![local[r].jacket].status = local[r].to]
  /\ Answer(r)
  /\ UNCHANGED <<vehicle, deal, jacket, repActive>>

ArchiveRead(r) ==
  /\ Accept(r, "archive_rep")
  /\ repActive
  /\ Begin(r, "archive_rep", [NoLocals EXCEPT !.op = "archive_rep"])

ArchiveRep(r) ==
  /\ pc[r] = "archive_rep"
  /\ commission' = [j \in Requests |->
       IF commission[j].status \in {"pending_review", "approved"} /\ ~commission[j].archived
       THEN [status |-> "rejected", archived |-> TRUE]
       ELSE commission[j]]
  /\ repActive' = FALSE
  /\ Answer(r)
  /\ UNCHANGED <<vehicle, deal, jacket>>

-----------------------------------------------------------------------------
Crash(r) ==
  /\ pc[r] \in Awaits
  /\ Goto(r, "crashed")
  /\ UNCHANGED tables

Init ==
  /\ vehicle \in [Vehicles -> [status : {"absent", "in_stock"}, soldAt : {FALSE},
                               deleted : {FALSE}]]
  /\ deal = [r \in Requests |-> NoDeal]
  /\ jacket = [r \in Requests |-> NoJacket]
  /\ commission = [r \in Requests |-> [status |-> None, archived |-> FALSE]]
  /\ repActive = TRUE
  /\ pc = [r \in Requests |-> "idle"]
  /\ local = [r \in Requests |-> NoLocals]

\* A client sends a request and its first check passes.  One that its first
\* check refuses changes nothing and is no step.
Arrive(r) ==
  \/ SellRead(r) \/ ImportVehicle(r) \/ DraftRead(r) \/ ReviewRead(r)
  \/ VehicleRead(r) \/ CommissionRead(r) \/ ArchiveRead(r)

\* A request in flight takes its next step.
Proceed(r) ==
  \/ SellCheck(r) \/ CreateDeal(r) \/ UpdateDeal(r) \/ CountJackets(r) \/ FileJacket(r)
  \/ SellVehicle(r) \/ SellCommission(r)
  \/ DraftCheck(r) \/ DraftCommit(r)
  \/ MoveJacket(r) \/ ReviewOpen(r) \/ ApproveCommit(r) \/ RejectCommit(r)
  \/ VehicleWrite(r) \/ DeleteVehicle(r)
  \/ CommissionWrite(r) \/ ArchiveRep(r)

Next == \E r \in Requests : Arrive(r) \/ Proceed(r) \/ Crash(r)

Spec == Init /\ [][Next]_vars

\* The event loop resumes every request whose query has been answered; nothing
\* makes a client send one.
FairSpec == Spec /\ \A r \in Requests : WF_vars(Proceed(r))

-----------------------------------------------------------------------------
VehicleRow == [status : VehicleStatus, soldAt : BOOLEAN, deleted : BOOLEAN]
DealRow == [vehicle : Vehicles \cup {None}, terms : Requests \cup {None},
            rep : Requests \cup {None}, remarks : Requests \cup {None}]
JacketRow == [vehicle : Vehicles \cup {None}, deal : Requests \cup {None}, status : JacketStatus,
              pays : BOOLEAN, rep : Requests \cup {None}, remarks : Requests \cup {None},
              number : Nat]
CommissionRow == [status : CommissionStatus \cup {None}, archived : BOOLEAN]
Locals == [op : AllOps \cup {None}, vehicle : Vehicles \cup {None},
           jacket : Requests \cup {None}, deal : Requests \cup {None},
           seen : VehicleStatus, to : Exit \cup Active \cup CommissionStatus \cup {None},
           given : SUBSET Optional, rep : Requests \cup {None}, remarks : Requests \cup {None},
           number : Nat]

(* Every table holds rows of the schema's types.                           *)
TypeOK ==
  /\ vehicle \in [Vehicles -> VehicleRow]
  /\ deal \in [Requests -> DealRow]
  /\ jacket \in [Requests -> JacketRow]
  /\ commission \in [Requests -> CommissionRow]
  /\ repActive \in BOOLEAN
  /\ pc \in [Requests -> Awaits \cup Answered \cup {"idle"}]
  /\ local \in [Requests -> Locals]

HasDeal(j) == Born(j) /\ jacket[j].deal # None
Filed(d) == \E j \in Requests : HasDeal(j) /\ jacket[j].deal = d

(* Whatever interleaves, a vehicle is sold through at most one jacket:     *)
(* of two markSold that race, or a markSold that races the completion of   *)
(* an earlier one, only one files a jacket on the vehicle's deal.          *)
OneSaleJacket == \A j, k \in Requests :
  HasDeal(j) /\ HasDeal(k) /\ jacket[j].vehicle = jacket[k].vehicle => j = k

(* A deal without a jacket is a sale that is being written, or one whose   *)
(* request crashed: no refusal in markSold leaves a deal behind alone.     *)
OrphanDealExplained == \A d \in Requests :
  deal[d].vehicle # None /\ ~Filed(d) =>
    \E r \in Requests : local[r].deal = d /\ pc[r] \in {"count", "jacket", "crashed"}

(* When markSold answers, the vehicle has its deal, the jacket filed on it *)
(* is the request's own and approved, and the sales rep's commission is in *)
(* the ledger.                                                             *)
AnsweredSaleIsComplete == \A r \in Requests :
  local[r].op = "sell" /\ pc[r] = "ok" =>
    /\ HasDeal(r) /\ jacket[r].vehicle = local[r].vehicle
    /\ deal[jacket[r].deal].vehicle = local[r].vehicle
    /\ jacket[r].status = "approved"
    /\ jacket[r].pays => commission[r].status # None

(* The jacket of a sale is final from its first moment: no review action,  *)
(* however late it writes, reaches it.                                     *)
SaleJacketStays ==
  [][\A j \in Requests : HasDeal(j) => jacket'[j] = jacket[j]]_vars

(* A commission enters the ledger only when its jacket is approved.        *)
CommissionFollowsApproval ==
  [][\A j \in Requests : commission[j].status = None /\ commission'[j].status # None
       => jacket'[j].status = "approved"]_vars

(* When requests are served one at a time, crashes included, an approved   *)
(* or rejected jacket keeps its status, as the conflict that FINAL_STATUSES *)
(* answers with promises.                                                  *)
FinalIsFinal ==
  [][\A j \in Requests : Born(j) /\ jacket[j].status \in Final
       => jacket'[j].status = jacket[j].status]_vars

(* No vehicle has two jackets; none of its jackets is ever deleted.        *)
OneJacketPerVehicle == \A j, k \in Requests :
  Born(j) /\ Born(k) /\ jacket[j].vehicle = jacket[k].vehicle => j = k

(* No two jackets carry the same number.                                   *)
JacketNumbersUnique == \A j, k \in Requests :
  Born(j) /\ Born(k) /\ jacket[j].number = jacket[k].number => j = k

(* A sale's deal and jacket state the same terms and the same sales rep,    *)
(* also when a crashed sale was completed by a later request, which may     *)
(* name no rep and then takes the crashed one's.  Their remarks come from   *)
(* one request but in one case: completed without remarks, the deal keeps   *)
(* those of the crashed sale and the jacket has none (markSold,             *)
(* importPreviousSold, which words the two differently).                    *)
SaleTermsAgree == \A j \in Requests : HasDeal(j) =>
  LET d == deal[jacket[j].deal] IN
  /\ d.terms = j /\ d.rep = jacket[j].rep
  /\ d.remarks # jacket[j].remarks => jacket[j].remarks = None /\ pc[d.remarks] = "crashed"

(* A commission that archiving the rep paused is never paid or revived.    *)
PausedStaysPaused == \A j \in Requests :
  commission[j].archived => commission[j].status = "rejected"

(* A vehicle that is back in stock after its jacket was rejected can be    *)
(* sold.                                                                   *)
RejectedVehicleCanBeSold == \A v \in Vehicles :
  /\ InFlight = {} /\ Listed(v) /\ vehicle[v].status = "in_stock"
  /\ DealsOf(v) = {}
  /\ \A j \in JacketsOf(v) : jacket[j].status = "rejected"
  => SaleAllowed(v, vehicle[v].status)

(* The tables implement the ledger of sales: a deal opens a vehicle's sale, *)
(* a jacket filed on the deal books it, its commission earns.              *)
SaleOf == [v \in Vehicles |->
  IF \E j \in JacketsOf(v) : jacket[j].deal # None THEN "booked"
  ELSE IF DealsOf(v) # {} THEN "opened" ELSE "none"]
Earned == {v \in Vehicles :
  \E j \in JacketsOf(v) : jacket[j].deal # None /\ commission[j].status # None}

Ledger == INSTANCE SaleLedger WITH sale <- SaleOf, earned <- Earned
ImplementsLedger == Ledger!LedgerSpec

(* Unless a request crashes on the vehicle, a deal ends up with a jacket.  *)
DealGetsJacket == \A v \in Vehicles :
  (\E d \in DealsOf(v) : ~Filed(d)) ~>
    \/ \A d \in DealsOf(v) : Filed(d)
    \/ \E r \in Requests : pc[r] = "crashed" /\ local[r].vehicle = v
=============================================================================
