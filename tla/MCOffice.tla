------------------------------ MODULE MCOffice ------------------------------
(***************************************************************************)
(* The components around the deal desk, checked in one run.  They share no *)
(* table, so what one of them does is independent of the others: each      *)
(* behaviour is about the component in focus, and the others stand still.  *)
(***************************************************************************)
EXTENDS Socials, Team, Messaging, Threads, Payroll, Books, Jobs, Admission, HashPool

VARIABLE focus

officeVars == <<socialVars, teamVars, messagingVars, threadsVars, payrollVars, booksVars,
                jobsVars, admissionVars, poolVars, handlerVars, focus>>

OfficeInit ==
  /\ RequestsInit
  /\ SocialsInit /\ TeamInit /\ MessagingInit /\ ThreadsInit /\ PayrollInit /\ BooksInit /\ JobsInit
  /\ AdmissionInit /\ PoolInit
  /\ focus \in {"socials", "team", "messaging", "threads", "payroll", "books", "jobs", "admission", "hashing"}
  \* Where they may start differs only for the one in focus.
  /\ focus # "socials" => xToken.refresh = None
  /\ focus # "team" => LiveUsers = Emails
  /\ focus # "messaging" => reps = {}
  /\ focus # "threads" => \A u \in Members : In(u) <=> u = Creator
  /\ focus # "payroll" => rows = {}
  /\ focus # "jobs" => account = "trial" /\ mailing
  \* Redis only holds Jenna's quota and mail only matters to the contact form: each is
  \* checked with and without.
  /\ IF focus = "admission" THEN redis # brevo ELSE redis /\ brevo

OfficeNext ==
  \/ focus = "socials" /\ SocialsNext
     /\ UNCHANGED <<teamVars, messagingVars, threadsVars, payrollVars, booksVars, jobsVars, admissionVars, poolVars, focus>>
  \/ focus = "team" /\ TeamNext
     /\ UNCHANGED <<socialVars, messagingVars, threadsVars, payrollVars, booksVars, jobsVars, admissionVars, poolVars, focus>>
  \/ focus = "messaging" /\ MessagingNext
     /\ UNCHANGED <<socialVars, teamVars, threadsVars, payrollVars, booksVars, jobsVars, admissionVars, poolVars, focus>>
  \/ focus = "threads" /\ ThreadsNext
     /\ UNCHANGED <<socialVars, teamVars, messagingVars, payrollVars, booksVars, jobsVars, admissionVars, poolVars, focus>>
  \/ focus = "payroll" /\ PayrollNext
     /\ UNCHANGED <<socialVars, teamVars, messagingVars, threadsVars, booksVars, jobsVars, admissionVars, poolVars, focus>>
  \/ focus = "books" /\ BooksNext
     /\ UNCHANGED <<socialVars, teamVars, messagingVars, threadsVars, payrollVars, jobsVars, admissionVars, poolVars, focus>>
  \/ focus = "jobs" /\ JobsNext
     /\ UNCHANGED <<socialVars, teamVars, messagingVars, threadsVars, payrollVars, booksVars, admissionVars, poolVars, focus>>
  \/ focus = "admission" /\ AdmissionNext
     /\ UNCHANGED <<socialVars, teamVars, messagingVars, threadsVars, payrollVars, booksVars, jobsVars, poolVars, focus>>
  \/ focus = "hashing" /\ PoolNext
     /\ UNCHANGED <<socialVars, teamVars, messagingVars, threadsVars, payrollVars, booksVars, jobsVars, admissionVars, focus>>

OfficeSpec == OfficeInit /\ [][OfficeNext]_officeVars /\ PresenceFairness

\* BooksAddUp: the reports of months and longer ranges, the dashboard and the
\* wholesale page agree on the expenses, and a closed tax period is kept.  Their
\* sums need not be taken again in the states of the other components.
FiguresAgree == focus = "books" => BooksAddUp

\* AdmissionsBounded: no more comes through the rate limits and Jenna's quota
\* than they allow, and nothing is answered or served that should not be.
\* PoolSound: no password check hangs or gets another's answer.
ServerHolds ==
  /\ focus = "admission" => AdmissionsBounded
  /\ focus = "hashing" => PoolSound

=============================================================================
