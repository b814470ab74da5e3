------------------------------ MODULE Payroll -------------------------------
(***************************************************************************)
(* Payroll: who is on the payroll of one dealership, and its payroll runs  *)
(* (payroll.service.js, payroll-engine.js).                                *)
(*                                                                         *)
(* Whoever looks at the payroll history writes it: the paydays before the  *)
(* asked date that have no run yet get one, tagged in its notes and paid.  *)
(* upto may be any date and year any year (payrollHistoryQuerySchema), so  *)
(* no clock is modelled.  Dates are weeks; everybody's payday is the same  *)
(* day of the week.  pay is what a week brings: wages, or a rep's base or  *)
(* commissions.  The owner is taken not to write an automatic tag by hand. *)
(***************************************************************************)
EXTENDS Requests, FiniteSetsExt, Functions

CONSTANTS
  StaffEmails,
  Weeks,       \* the weeks with paydays, 1..Weeks
  FirstYear    \* the last week of the first year

ASSUME PayrollAssumption ==
  /\ Weeks \in Nat /\ FirstYear \in 0..Weeks
  /\ None \notin StaffEmails

VARIABLES
  rows,      \* staff members and sales reps, deleted ones included
  runs,      \* payroll runs with their items
  rushed,    \* history: people whose rows overlapping requests checked
  doubled,   \* history: paydays that two histories, or one of another year, may repeat
  torn,      \* history: runs changed while another request had them in hand
  erased     \* history: runs deleted while paid

payroll == <<rows, runs>>
payrollVars == <<payroll, rushed, doubled, torn, erased>>

\* Nothing to pay, every week, every second week with or without an anchor.
Terms == {t \in [freq : {"none", "weekly", "biweekly"}, anchored : BOOLEAN, pay : {0, 1}] :
            /\ t.anchored => t.freq = "biweekly"
            /\ t.pay = 0 <=> t.freq = "none"}
Items == {{}, {[row |-> 0, who |-> None, amount |-> 1]}}
Live == {r \in rows : ~r.gone}
Named(who) == {r \in Live : r.who = who}
Total(items) == SumFunction([i \in items |-> i.amount])
Signed(no, items) == {With([by |-> no], i) : i \in items}
Run(id) == CHOOSE r \in runs : r.id = id
Stored(id) == \E r \in runs : r.id = id

\* Other requests at an await of ats that carry f for key.
Others(h, ats, f, key) == {g \in Handlers \ {h} : pc[g] \in ats /\ local[g][f] = key}
Rush(h, ats, who) == rushed' = IF Others(h, ats, "who", who) = {} THEN rushed ELSE rushed \cup {who}

-----------------------------------------------------------------------------
(* Staff: emails are looked up before they are written, no index backs it. *)

StaffFind(h, email, id, terms) == LET who == <<"staff", email>> IN
  /\ {r \in Named(who) : r.id # id} = {}
  /\ Begin(h, "staff", [who |-> who, id |-> id, terms |-> terms])
  /\ Rush(h, {"staff"}, who)
  /\ UNCHANGED <<payroll, doubled, torn, erased>>

StaffWrite(h) == LET s == local[h] IN
  /\ pc[h] = "staff"
  /\ rows' = {r \in rows : r.id # s.id} \cup {[id |-> s.id, who |-> s.who, terms |-> s.terms,
                gone |-> \E r \in rows : r.id = s.id /\ r.gone]}
  /\ Answer(h)
  /\ UNCHANGED <<runs, rushed, doubled, torn, erased>>

CreateStaff(h, email, terms) == StaffFind(h, email, begun + 1, terms)
UpdateStaff(h, r, email, terms) == r \in Live /\ r.who[1] = "staff" /\ StaffFind(h, email, r.id, terms)

\* One write that needs no look elsewhere.
RowWrite(r, s) ==
  /\ begun < MaxRequests /\ begun' = begun + 1
  /\ rows' = (rows \ {r}) \cup {s}
  /\ UNCHANGED <<runs, rushed, doubled, torn, erased, pc, local>>

DeleteStaff(r) == r \in Live /\ r.who[1] = "staff" /\ RowWrite(r, [r EXCEPT !.gone = TRUE])

-----------------------------------------------------------------------------
(* Sales reps are users: deleted ones keep their email in the unique index.*)

FindLoginIdentity(h, email, terms) == LET who == <<"rep", email>> IN
  /\ Named(who) = {}
  /\ Begin(h, "rep", [who |-> who, id |-> begun + 1, terms |-> terms])
  /\ UNCHANGED payrollVars

CreateSalesRep(h) == LET s == local[h] IN
  /\ pc[h] = "rep"
  /\ rows' = IF \E r \in rows : r.who = s.who THEN rows
             ELSE rows \cup {[id |-> s.id, who |-> s.who, terms |-> s.terms, gone |-> FALSE]}
  /\ Answer(h)
  /\ UNCHANGED <<runs, rushed, doubled, torn, erased>>

UpdateSalesRep(r, terms) == r \in Live /\ r.who[1] = "rep" /\ RowWrite(r, [r EXCEPT !.terms = terms])
ArchiveSalesRep(r) == r \in Live /\ r.who[1] = "rep" /\ RowWrite(r, [r EXCEPT !.gone = TRUE])

-----------------------------------------------------------------------------
(* The payroll engine.                                                     *)

\* isPayday: every second week needs an anchor to count from.
IsPayday(t, d) ==
  /\ t.freq # "none"
  /\ t.freq = "biweekly" /\ t.anchored => d % 2 = 0

PaycheckAmount(t) == t.pay * IF t.freq = "biweekly" THEN 2 ELSE 1

People(d) == {[row |-> r.id, who |-> r.who, amount |-> PaycheckAmount(r.terms)] :
                r \in {s \in Live : IsPayday(s.terms, d) /\ s.terms.pay > 0}}

Year(d) == IF d <= FirstYear THEN 1 ELSE 2
Automatic(d) == {r \in runs : r.auto /\ r.date = d}
\* From the first day of year until before upto, and not stored in that year.
Missing(year, upto) ==
  {d \in 1..Weeks : /\ Year(d) >= year /\ d < upto
                    /\ People(d) # {}
                    /\ ~(Year(d) = year /\ Automatic(d) # {})}

\* The paydays somebody else is also about to record, and those outside the
\* year asked for, whose runs were not read.
Repeated(h, missing, year) ==
  {d \in missing : Year(d) # year \/ \E g \in Handlers \ {h} : pc[g] = "persist" /\ d \in local[g].dates}

\* Mutant: every payday is missing.
GetPayrollHistoryBlind(h, year, upto) ==
  LET dates == {d \in 1..Weeks : Year(d) >= year /\ d < upto /\ People(d) # {}} IN
  /\ Begin(h, "persist", [dates |-> dates, people |-> [d \in dates |-> People(d)], no |-> begun + 1])
  /\ doubled' = doubled \cup Repeated(h, dates, year)
  /\ UNCHANGED <<payroll, rushed, torn, erased>>

GetPayrollHistory(h, year, upto) == LET dates == Missing(year, upto) IN
  /\ Begin(h, "persist", [dates |-> dates, people |-> [d \in dates |-> People(d)], no |-> begun + 1])
  /\ doubled' = doubled \cup Repeated(h, dates, year)
  /\ UNCHANGED <<payroll, rushed, torn, erased>>

\* Payday after payday; one that fails is left out.
Persist(h) == LET r == local[h]  d == Min(r.dates) IN
  /\ pc[h] = "persist" /\ r.dates # {}
  /\ \/ runs' = runs \cup {[id |-> <<r.no, d>>, date |-> d, auto |-> TRUE, status |-> "paid",
                            items |-> Signed(r.no, r.people[d]),
                            total |-> Total(r.people[d])]}
     \/ UNCHANGED runs
  /\ Carry(h, "persist", [dates |-> r.dates \ {d}])
  /\ UNCHANGED <<rows, rushed, doubled, torn, erased>>

HistoryEnd(h) ==
  /\ pc[h] = "persist" /\ local[h].dates = {}
  /\ Answer(h)
  /\ UNCHANGED payrollVars

-----------------------------------------------------------------------------
(* Payroll runs made by hand.                                              *)

CreatePayrollRun(d, items) ==
  /\ begun < MaxRequests /\ begun' = begun + 1
  /\ runs' = runs \cup {[id |-> <<begun + 1, d>>, date |-> d, auto |-> FALSE, status |-> "draft",
                         items |-> Signed(begun + 1, items), total |-> Total(items)]}
  /\ UNCHANGED <<rows, rushed, doubled, torn, erased, pc, local>>

\* What a request changes: the items, or the status, or the notes with the tag.
\* A field it does not send is None.
Payloads == {p \in [items : {None} \cup Items, status : {None, "draft", "paid"}, untag : BOOLEAN] :
               Cardinality({f \in {"items", "status"} : p[f] # None}) + (IF p.untag THEN 1 ELSE 0) = 1}

UpdateFind(h, r, p) ==
  /\ r \in runs
  /\ Begin(h, "updateRun", [run |-> r.id, payload |-> p, no |-> begun + 1])
  /\ UNCHANGED payrollVars

\* The transaction's deleteMany: at read committed it deletes the items it sees,
\* and its own changes are seen by the others when it commits.
UpdateDeleteItems(h) == LET r == local[h] IN
  /\ pc[h] = "updateRun" /\ r.payload.items # None
  /\ torn' = IF Others(h, {"newItems"}, "run", r.run) = {} THEN torn ELSE torn \cup {r.run}
  /\ Carry(h, "newItems", [seen |-> IF Stored(r.run) THEN Run(r.run).items ELSE {}])
  /\ UNCHANGED <<payroll, rushed, doubled, erased>>

UpdatePayrollRun(h) == LET r == local[h]  p == r.payload  run == Run(r.run) IN
  /\ pc[h] \in {"updateRun", "newItems"}
  /\ pc[h] = "updateRun" => p.items = None
  /\ IF ~Stored(r.run) THEN UNCHANGED <<runs, torn>>
     ELSE LET fresh == Signed(r.no, IF p.items = None THEN {} ELSE p.items) IN
       /\ runs' = (runs \ {run}) \cup
            {[run EXCEPT !.status = IF p.status = None THEN @ ELSE p.status,
                         !.auto = @ /\ ~p.untag,
                         !.items = IF p.items = None THEN @ ELSE (@ \ r.seen) \cup fresh,
                         !.total = IF p.items = None THEN @ ELSE Total(fresh)]}
       /\ torn' = IF Others(h, {"deleteRun"}, "run", r.run) = {} THEN torn ELSE torn \cup {r.run}
  /\ Answer(h)
  /\ UNCHANGED <<rows, rushed, doubled, erased>>

DeleteFind(h, r) ==
  /\ r \in runs /\ r.status # "paid"
  /\ Begin(h, "deleteRun", [run |-> r.id])
  /\ UNCHANGED payrollVars

DeletePayrollRun(h) == LET id == local[h].run IN
  /\ pc[h] = "deleteRun"
  /\ runs' = {r \in runs : r.id # id}
  /\ erased' = IF Stored(id) /\ Run(id).status = "paid" THEN erased \cup {id} ELSE erased
  /\ Answer(h)
  /\ UNCHANGED <<rows, rushed, doubled, torn>>

PayrollFail(h) ==
  /\ pc[h] # "idle"
  /\ Answer(h)
  /\ UNCHANGED payrollVars

-----------------------------------------------------------------------------
\* Somebody was hired before, or nobody was.
PayrollInit ==
  /\ rows \in {{}} \cup {{[id |-> 0, who |-> <<"staff", e>>, terms |-> t, gone |-> FALSE]} :
                           e \in StaffEmails, t \in Terms}
  /\ runs = {}
  /\ rushed = {} /\ doubled = {} /\ torn = {} /\ erased = {}

StaffNext ==
  \/ \E r \in rows : DeleteStaff(r) \/ ArchiveSalesRep(r)
  \/ \E r \in rows, t \in Terms : UpdateSalesRep(r, t)
  \/ \E h \in Handlers, e \in StaffEmails, t \in Terms :
       \/ CreateStaff(h, e, t) \/ FindLoginIdentity(h, e, t)
       \/ \E r \in rows : UpdateStaff(h, r, e, t)
  \/ \E h \in Handlers : StaffWrite(h) \/ CreateSalesRep(h)

RunsNext ==
  \/ \E d \in 1..Weeks, items \in Items : CreatePayrollRun(d, items)
  \/ \E h \in Handlers :
       \/ \E year \in 1..2, upto \in 2..Weeks + 1 : GetPayrollHistory(h, year, upto)
       \/ Persist(h) \/ HistoryEnd(h)
       \/ \E r \in runs, p \in Payloads : UpdateFind(h, r, p)
       \/ UpdateDeleteItems(h) \/ UpdatePayrollRun(h)
       \/ \E r \in runs : DeleteFind(h, r)
       \/ DeletePayrollRun(h)
       \/ PayrollFail(h)

PayrollNext == StaffNext \/ RunsNext

PayrollSpec == PayrollInit /\ RequestsInit /\ [][PayrollNext]_<<payrollVars, handlerVars>>

-----------------------------------------------------------------------------
\* A payday has one automatic run, which pays a person once; a run's total is
\* what its items come to; a paid run is not deleted.  Overlapping requests
\* apart, and a history asked for an earlier year, which does not read the runs
\* of the years it goes through (getPayrollHistory, updatePayrollRun,
\* deletePayrollRun, createStaff).
RunsExplained ==
  /\ \A d \in 1..Weeks : Cardinality(Automatic(d)) <= 1 \/ d \in doubled
  /\ \A r \in runs :
       /\ r.total = Total(r.items) \/ r.id \in torn
       /\ \A i, j \in r.items : i.who = j.who => i = j \/ i.who \in rushed \cup {None}
  /\ erased \subseteq torn

=============================================================================
