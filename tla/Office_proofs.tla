--------------------------- MODULE Office_proofs ----------------------------
(***************************************************************************)
(* Proofs about Admission, Payroll and Books, and about the office they are*)
(* checked in, for any number of workers, requests, people, weeks, months  *)
(* and expenses, any limits and any time.                                  *)
(***************************************************************************)
EXTENDS MCOffice, Queues_proofs

-----------------------------------------------------------------------------
(* Sums: the fold over a set, taken apart.                                 *)

\* The function FoldFunctionOnSet computes with.
IsSum(g, f, S) == g = [s \in SUBSET S |->
   IF s = {} THEN 0 ELSE f[CHOOSE x \in s : TRUE] + g[s \ {CHOOSE x \in s : TRUE}]]

LEMMA SumChosen ==
  ASSUME NEW f, NEW S
  PROVE SumFunctionOnSet(f, S) = (CHOOSE g : IsSum(g, f, S))[S]
BY DEF SumFunctionOnSet, FoldFunctionOnSet, MapThenFoldSet, IsSum

Pick(s) == CHOOSE x \in s : TRUE
SumOf(f, S) == CHOOSE g : IsSum(g, f, S)

LEMMA SumUnique ==
  ASSUME NEW f, NEW S, IsFiniteSet(S), NEW g, NEW h, IsSum(g, f, S), IsSum(h, f, S)
  PROVE  g = h
<1> DEFINE Bad == {s \in SUBSET S : g[s] # h[s]}
<1>1. SUFFICES Bad = {}
  BY DEF IsSum
<1>2. SUFFICES ASSUME Bad # {} PROVE FALSE
  OBVIOUS
<1>3a. Bad \subseteq SUBSET S
  OBVIOUS
<1>3. PICK s \in Bad : \A y \in Bad : y \subseteq s => y = s
  <2> HIDE DEF Bad
  <2>1. QED
    BY <1>2, <1>3a, Smaller
<1>4. CASE s = {}
  BY <1>3, <1>4 DEF IsSum
<1>5. CASE s # {}
  <2>1. PICK c \in s : c = CHOOSE x \in s : TRUE
    BY <1>5
  <2>2. g[s \ {c}] = h[s \ {c}]
    BY <1>3, <2>1
  <2>3. g[s] = f[c] + g[s \ {c}] /\ h[s] = f[c] + h[s \ {c}]
    BY <1>3, <1>5, <2>1 DEF IsSum
  <2>4. QED
    BY <1>3, <2>2, <2>3
<1>6. QED
  BY <1>4, <1>5

LEMMA SumRestricted ==
  ASSUME NEW f, NEW S, NEW T \in SUBSET S, NEW g, IsSum(g, f, S)
  PROVE  IsSum([s \in SUBSET T |-> g[s]], f, T)
<1> DEFINE h == [s \in SUBSET T |-> g[s]]
<1>1. \A s \in SUBSET T : s # {} => (CHOOSE x \in s : TRUE) \in s
  OBVIOUS
<1>2. \A s \in SUBSET T : h[s] = IF s = {} THEN 0 ELSE f[CHOOSE x \in s : TRUE] + h[s \ {CHOOSE x \in s : TRUE}]
  BY <1>1 DEF IsSum
<1>3. QED
  BY <1>2 DEF IsSum

LEMMA SumExists ==
  ASSUME NEW f, NEW S, IsFiniteSet(S)
  PROVE  IsSum(SumOf(f, S), f, S)
<1> DEFINE Bad == {T \in SUBSET S : ~ \E g : IsSum(g, f, T)}
<1>1. SUFFICES Bad = {}
  BY DEF SumOf
<1>2. SUFFICES ASSUME Bad # {} PROVE FALSE
  OBVIOUS
<1>3a. Bad \subseteq SUBSET S
  OBVIOUS
<1>3. PICK T \in Bad : \A y \in Bad : y \subseteq T => y = T
  <2> HIDE DEF Bad
  <2>1. QED
    BY <1>2, <1>3a, Smaller
<1>4. \A U \in SUBSET T : U # T => IsSum(SumOf(f, U), f, U)
  BY <1>3 DEF SumOf
<1>5. \A U \in SUBSET T : IsFiniteSet(U)
  BY <1>3, FS_Subset
<1> DEFINE V(u) == SumOf(f, u)[u]
           g == [s \in SUBSET T |-> IF s = {} THEN 0 ELSE f[Pick(s)] + V(s \ {Pick(s)})]
<1>6. \A s \in SUBSET T : s # {} => Pick(s) \in s
  BY DEF Pick
<1>7. ASSUME NEW u \in SUBSET T, u # T
      PROVE  V(u) = IF u = {} THEN 0 ELSE f[Pick(u)] + V(u \ {Pick(u)})
  <2>1. CASE u = {}
    <3>1. IsSum(SumOf(f, u), f, u)
      BY <1>4, <1>7
    <3>2. QED
      BY <3>1, <2>1 DEF IsSum
  <2>2. CASE u # {}
    <3>0. IsSum(SumOf(f, u), f, u)
      BY <1>4, <1>7
    <3>1. PICK w : w = u \ {Pick(u)}
      OBVIOUS
    <3>2. V(u) = f[Pick(u)] + SumOf(f, u)[w]
      BY <3>0, <3>1, <2>2 DEF IsSum, Pick
    <3>3. w \in SUBSET u /\ w \in SUBSET T /\ w # T
      BY <3>1, <1>7
    <3>4. IsSum([s \in SUBSET w |-> SumOf(f, u)[s]], f, w)
      BY <3>0, <3>3, SumRestricted
    <3>5. IsSum(SumOf(f, w), f, w) /\ IsFiniteSet(w)
      BY <3>3, <1>4, <1>5
    <3>6. [s \in SUBSET w |-> SumOf(f, u)[s]] = SumOf(f, w)
      BY <3>4, <3>5, SumUnique
    <3>7. [s \in SUBSET w |-> SumOf(f, u)[s]][w] = SumOf(f, u)[w]
      OBVIOUS
    <3>8. QED
      BY <3>1, <3>2, <3>6, <3>7, <2>2
  <2>3. QED
    BY <2>1, <2>2
<1>8. ASSUME NEW s \in SUBSET T
      PROVE  g[s] = IF s = {} THEN 0 ELSE f[Pick(s)] + g[s \ {Pick(s)}]
  <2>1. CASE s = {}
    BY <2>1
  <2>2. CASE s # {}
    <3>1. PICK w : w = s \ {Pick(s)}
      OBVIOUS
    <3>2. w \in SUBSET T /\ w # T
      BY <3>1, <2>2, <1>6
    <3>3. V(w) = g[w]
      BY <1>7, <3>2
    <3>4. g[s] = f[Pick(s)] + V(w)
      BY <3>1, <2>2
    <3>5. QED
      BY <3>1, <3>3, <3>4, <2>2
  <2>3. QED
    BY <2>1, <2>2
<1>9. IsSum(g, f, T)
  <2>1. DOMAIN g = SUBSET T /\ g = [s \in SUBSET T |-> g[s]]
    OBVIOUS
  <2>2. \A s \in SUBSET T : g[s] = IF s = {} THEN 0 ELSE f[CHOOSE x \in s : TRUE] + g[s \ {CHOOSE x \in s : TRUE}]
    BY <1>8 DEF Pick
  <2> HIDE DEF g
  <2>3. QED
    BY <2>1, <2>2 DEF IsSum
<1>10. QED
  BY <1>3, <1>9

\* A sum is taken one member after the other.
LEMMA SumUnfolds ==
  ASSUME NEW f, NEW S, IsFiniteSet(S)
  PROVE  SumFunctionOnSet(f, S) =
           IF S = {} THEN 0 ELSE f[Pick(S)] + SumFunctionOnSet(f, S \ {Pick(S)})
<1>1. SumFunctionOnSet(f, S) = SumOf(f, S)[S] /\ IsSum(SumOf(f, S), f, S)
  BY SumChosen, SumExists DEF SumOf
<1>2. CASE S = {}
  BY <1>1, <1>2 DEF IsSum
<1>3. CASE S # {}
  <2>1. PICK w : w = S \ {Pick(S)}
    OBVIOUS
  <2>2. w \in SUBSET S /\ IsFiniteSet(w)
    BY <2>1, FS_Subset
  <2>3. SumFunctionOnSet(f, w) = SumOf(f, w)[w] /\ IsSum(SumOf(f, w), f, w)
    BY <2>2, SumChosen, SumExists DEF SumOf
  <2>4. IsSum([s \in SUBSET w |-> SumOf(f, S)[s]], f, w)
    BY <1>1, <2>2, SumRestricted
  <2>5. [s \in SUBSET w |-> SumOf(f, S)[s]] = SumOf(f, w)
    BY <2>2, <2>3, <2>4, SumUnique
  <2>6. [s \in SUBSET w |-> SumOf(f, S)[s]][w] = SumOf(f, S)[w]
    OBVIOUS
  <2>7. SumOf(f, S)[S] = f[Pick(S)] + SumOf(f, S)[w]
    BY <1>1, <1>3, <2>1 DEF IsSum, Pick
  <2>8. QED
    BY <1>1, <1>3, <2>1, <2>3, <2>5, <2>6, <2>7
<1>4. QED
  BY <1>2, <1>3

LEMMA SumType ==
  ASSUME NEW S, IsFiniteSet(S), NEW f, \A x \in S : f[x] \in Int
  PROVE  SumFunctionOnSet(f, S) \in Int
<1> DEFINE Bad == {T \in SUBSET S : SumFunctionOnSet(f, T) \notin Int}
<1>1. SUFFICES ASSUME Bad # {} PROVE FALSE
  OBVIOUS
<1>2a. Bad \subseteq SUBSET S
  OBVIOUS
<1>2. PICK T \in Bad : \A y \in Bad : y \subseteq T => y = T
  <2> HIDE DEF Bad
  <2>1. QED
    BY <1>1, <1>2a, Smaller
<1>3. IsFiniteSet(T)
  BY <1>2, FS_Subset
<1>4. T # {}
  <2>1. SUFFICES ASSUME T = {} PROVE FALSE
    OBVIOUS
  <2>2. SumFunctionOnSet(f, T) = 0
    BY <1>3, <2>1, SumUnfolds
  <2>3. QED
    BY <2>2
<1>5. Pick(T) \in T
  BY <1>4 DEF Pick
<1>6. T \ {Pick(T)} \notin Bad /\ T \ {Pick(T)} \in SUBSET S
  BY <1>2, <1>5
<1>7. QED
  BY <1>2, <1>3, <1>4, <1>5, <1>6, SumUnfolds

LEMMA SumTakeOut ==
  ASSUME NEW S, IsFiniteSet(S), NEW f, \A x \in S : f[x] \in Int, NEW c \in S
  PROVE  SumFunctionOnSet(f, S) = f[c] + SumFunctionOnSet(f, S \ {c})
<1> DEFINE Bad == {T \in SUBSET S : \E x \in T : SumFunctionOnSet(f, T) # f[x] + SumFunctionOnSet(f, T \ {x})}
<1>1. SUFFICES ASSUME Bad # {} PROVE FALSE
  OBVIOUS
<1>2a. Bad \subseteq SUBSET S
  OBVIOUS
<1>2. PICK T \in Bad : \A y \in Bad : y \subseteq T => y = T
  <2> HIDE DEF Bad
  <2>1. QED
    BY <1>1, <1>2a, Smaller
<1>3. PICK x \in T : SumFunctionOnSet(f, T) # f[x] + SumFunctionOnSet(f, T \ {x})
  BY <1>2
<1>4. \A U \in SUBSET T : IsFiniteSet(U) /\ SumFunctionOnSet(f, U) \in Int
  BY <1>2, FS_Subset, SumType
<1>5. PICK p \in T : p = Pick(T)
  BY <1>3 DEF Pick
<1>6. SumFunctionOnSet(f, T) = f[p] + SumFunctionOnSet(f, T \ {p})
  BY <1>3, <1>4, <1>5, SumUnfolds
<1>7. x # p
  BY <1>3, <1>6
<1>7a. ASSUME NEW u \in T, NEW v \in T, u # v
       PROVE  SumFunctionOnSet(f, T \ {u}) = f[v] + SumFunctionOnSet(f, (T \ {u}) \ {v})
  <2>1. T \ {u} \notin Bad
    BY <1>2, <1>7a
  <2>2. T \ {u} \in SUBSET S /\ v \in T \ {u}
    BY <1>7a
  <2>3. QED
    BY <2>1, <2>2
<1>8. SumFunctionOnSet(f, T \ {p}) = f[x] + SumFunctionOnSet(f, (T \ {p}) \ {x})
  BY <1>5, <1>7, <1>7a
<1>9. SumFunctionOnSet(f, T \ {x}) = f[p] + SumFunctionOnSet(f, (T \ {x}) \ {p})
  BY <1>5, <1>7, <1>7a
<1>10. (T \ {p}) \ {x} = (T \ {x}) \ {p} /\ (T \ {p}) \ {x} \in SUBSET T
  OBVIOUS
<1>11. PICK k \in Int : k = SumFunctionOnSet(f, (T \ {p}) \ {x})
  BY <1>4, <1>10
<1>12. SumFunctionOnSet(f, T) = f[p] + (f[x] + k) /\ SumFunctionOnSet(f, T \ {x}) = f[p] + k
  BY <1>6, <1>8, <1>9, <1>10, <1>11
<1>13. f[p] \in Int /\ f[x] \in Int
  BY <1>2
<1>14. QED
  BY <1>3, <1>12, <1>13

-----------------------------------------------------------------------------
(* Admission: its inductive invariant.                                     *)

LEMMA SumSame ==
  ASSUME NEW S, IsFiniteSet(S), NEW f, NEW g, \A x \in S : f[x] = g[x]
  PROVE  SumFunctionOnSet(f, S) = SumFunctionOnSet(g, S)
<1> DEFINE Bad == {T \in SUBSET S : SumFunctionOnSet(f, T) # SumFunctionOnSet(g, T)}
<1>1. SUFFICES ASSUME Bad # {} PROVE FALSE
  OBVIOUS
<1>2a. Bad \subseteq SUBSET S
  OBVIOUS
<1>2. PICK T \in Bad : \A y \in Bad : y \subseteq T => y = T
  <2> HIDE DEF Bad
  <2>1. QED
    BY <1>1, <1>2a, Smaller
<1>3. IsFiniteSet(T)
  BY <1>2, FS_Subset
<1>4. CASE T = {}
  <2>1. SumFunctionOnSet(f, T) = 0 /\ SumFunctionOnSet(g, T) = 0
    BY <1>3, <1>4, SumUnfolds
  <2>2. QED
    BY <1>2, <2>1
<1>5. CASE T # {}
  <2>1. PICK c \in T : c = Pick(T)
    BY <1>5 DEF Pick
  <2>2. T \ {c} \notin Bad /\ T \ {c} \in SUBSET S /\ f[c] = g[c]
    BY <1>2, <2>1
  <2>3. SumFunctionOnSet(f, T) = f[c] + SumFunctionOnSet(f, T \ {c})
    BY <1>3, <1>5, <2>1, SumUnfolds
  <2>4. SumFunctionOnSet(g, T) = g[c] + SumFunctionOnSet(g, T \ {c})
    BY <1>3, <1>5, <2>1, SumUnfolds
  <2>5. QED
    BY <1>2, <2>2, <2>3, <2>4
<1>6. QED
  BY <1>4, <1>5

\* One of the numbers is one greater, and so is their sum.
LEMMA SumBump ==
  ASSUME NEW S, IsFiniteSet(S), NEW f, NEW g, NEW c \in S, \A x \in S : f[x] \in Int,
         g[c] = f[c] + 1, \A x \in S \ {c} : g[x] = f[x]
  PROVE  SumFunctionOnSet(g, S) = SumFunctionOnSet(f, S) + 1
<1>1. \A x \in S : g[x] \in Int
  OBVIOUS
<1>2. IsFiniteSet(S \ {c}) /\ \A x \in S \ {c} : f[x] \in Int
  BY FS_Subset
<1>3. SumFunctionOnSet(f, S \ {c}) \in Int /\ SumFunctionOnSet(g, S \ {c}) = SumFunctionOnSet(f, S \ {c})
  BY <1>2, SumType, SumSame
<1>4. SumFunctionOnSet(f, S) = f[c] + SumFunctionOnSet(f, S \ {c})
  BY SumTakeOut
<1>5. SumFunctionOnSet(g, S) = g[c] + SumFunctionOnSet(g, S \ {c})
  BY <1>1, SumTakeOut
<1>6. f[c] \in Int
  OBVIOUS
<1>7. QED
  BY <1>3, <1>4, <1>5, <1>6

LEMMA SumZero ==
  ASSUME NEW S, IsFiniteSet(S), NEW f, \A x \in S : f[x] = 0
  PROVE  SumFunctionOnSet(f, S) = 0
<1> DEFINE Bad == {T \in SUBSET S : SumFunctionOnSet(f, T) # 0}
<1>1. SUFFICES ASSUME Bad # {} PROVE FALSE
  OBVIOUS
<1>2a. Bad \subseteq SUBSET S
  OBVIOUS
<1>2. PICK T \in Bad : \A y \in Bad : y \subseteq T => y = T
  <2> HIDE DEF Bad
  <2>1. QED
    BY <1>1, <1>2a, Smaller
<1>3. IsFiniteSet(T)
  BY <1>2, FS_Subset
<1>4. CASE T = {}
  <2>1. SumFunctionOnSet(f, T) = 0
    BY <1>3, <1>4, SumUnfolds
  <2>2. QED
    BY <1>2, <2>1
<1>5. CASE T # {}
  <2>1. PICK c \in T : c = Pick(T)
    BY <1>5 DEF Pick
  <2>2. T \ {c} \notin Bad /\ T \ {c} \in SUBSET S /\ f[c] = 0
    BY <1>2, <2>1
  <2>3. SumFunctionOnSet(f, T) = f[c] + SumFunctionOnSet(f, T \ {c})
    BY <1>3, <1>5, <2>1, SumUnfolds
  <2>4. QED
    BY <1>2, <2>2, <2>3
<1>6. QED
  BY <1>4, <1>5

LEMMA SumOfOne ==
  ASSUME NEW f, NEW c, f[c] \in Int
  PROVE  SumFunctionOnSet(f, {c}) = f[c]
<1>1. IsFiniteSet({c}) /\ IsFiniteSet({}) /\ {c} \ {c} = {} /\ Pick({c}) = c
  BY FS_Singleton, FS_EmptySet DEF Pick
<1>2. SumFunctionOnSet(f, {}) = 0
  BY <1>1, SumUnfolds
<1>3. SumFunctionOnSet(f, {c}) = f[c] + SumFunctionOnSet(f, {})
  BY <1>1, SumUnfolds
<1>4. QED
  BY <1>2, <1>3

Limits == {"api", "contact"}
LengthOf(limit) == IF limit = "api" THEN WindowLength ELSE WindowLength + 1
Least(a, b) == IF a <= b THEN a ELSE b

\* The rate limits: what a counter has admitted bounds what came through a span
\* of a window's time, by where the span begins.
Counted(limit, w) ==
  LET count == meter[<<limit, w>>]
      past == Most * restarts[w]
      start == count.reset - LengthOf(limit) IN
  /\ \A u \in Time : u > now => admitted[<<limit, w, u>>] = 0
  /\ \A t \in Time : Through(limit, w, t) <= 2 * Most - 1 + past
  /\ count.hits = 0 => /\ count.reset = 0
                       /\ \A t \in Time : Through(limit, w, t) <= Most - 1 + past
  /\ count.hits > 0 =>
       /\ start \in 0..now
       /\ \A t \in Time : t <= start /\ start < t + WindowLength =>
            Through(limit, w, t) <= Most - 1 + past + Least(count.hits, Most)
       /\ \A t \in Time : start < t => Through(limit, w, t) <= past + Least(count.hits, Most) - 1

\* The quota: the place where a call is counted bounds the calls admitted.
Consumed ==
  \A d \in Days :
    IF redis THEN Asked(Workers, d) <= Least(quota[<<None, d>>], Most)
    ELSE \A w \in Workers : asked[<<w, d>>] <= Least(quota[<<w, d>>], Most) + Most * restarts[w]

Awaited == {h \in Handlers : pc[h] = "reply" /\ ~local[h].same}

AdmRows ==
  /\ now \in Time /\ redis \in BOOLEAN /\ brevo \in BOOLEAN /\ standing \in Standings
  /\ meter \in [Limits \X Workers -> [hits : Nat, reset : Nat]]
  /\ restarts \in [Workers -> Nat] /\ inbox \in Nat /\ oks \in Nat /\ ignored \in Nat
  /\ quota \in [(Workers \cup {None}) \X Days -> Nat]
  /\ admitted \in [Limits \X Workers \X Time -> Nat]
  /\ asked \in [Workers \X Days -> Nat]
  /\ overdue = FALSE

AdmAwaits == {"access", "serve", "jenna", "expire", "ask", "inbound", "reply"}
\* What a request at await p carries, r; may says whether the dealership may use
\* the product.
AdmCarries(p, r, may) ==
  /\ p \in {"access", "serve", "jenna", "expire", "ask"} =>
       r \in [worker : Workers, then : {"serve", "jenna"}, ended : BOOLEAN]
  /\ p \in {"inbound", "reply"} => r \in [worker : Workers, same : BOOLEAN]
  /\ p = "inbound" => ~r.same
  /\ p = "serve" => may \/ r.ended
AdmRequests ==
  /\ pc \in [Handlers -> AdmAwaits \cup {"idle"}] /\ DOMAIN local = Handlers
  /\ \A h \in Handlers : AdmCarries(pc[h], local[h], mayWrite)

\* Where mail is configured, support has a mail for what was answered and what waits.
OksMailed == IsFiniteSet(Awaited) /\ (brevo => oks + Cardinality(Awaited) <= inbox + ignored)

AdmInv ==
  /\ AdmRows /\ AdmRequests /\ OksMailed /\ Consumed
  /\ \A limit \in Limits, w \in Workers : Counted(limit, w)

LEMMA SpanIsFinite ==
  ASSUME NEW t
  PROVE  IsFiniteSet(Span(t))
<1>1. IsFiniteSet(Time)
  BY FS_Interval, AdmissionAssumption DEF Time
<1>2. Span(t) \subseteq Time
  BY DEF Span
<1>3. QED
  BY <1>1, <1>2, FS_Subset

LEMMA ThroughSame ==
  ASSUME NEW l, NEW w, \A u \in Time : admitted'[<<l, w, u>>] = admitted[<<l, w, u>>], NEW t
  PROVE  Through(l, w, t)' = Through(l, w, t)
<1> DEFINE f == [u \in Span(t) |-> admitted[<<l, w, u>>]]
           g == [u \in Span(t) |-> admitted'[<<l, w, u>>]]
<1>1. \A u \in Span(t) : f[u] = g[u]
  BY DEF Span
<1>2. Span(t)' = Span(t)
  BY DEF Span, Time
<1>3. Through(l, w, t) = SumFunctionOnSet(f, Span(t)) /\ Through(l, w, t)' = SumFunctionOnSet(g, Span(t))
  BY <1>2 DEF Through
<1> HIDE DEF f, g
<1>4. QED
  BY <1>1, <1>3, SpanIsFinite, SumSame

LEMMA ThroughType ==
  ASSUME NEW l \in Limits, NEW w \in Workers, AdmRows, NEW t
  PROVE  Through(l, w, t) \in Int
<1> DEFINE f == [u \in Span(t) |-> admitted[<<l, w, u>>]]
<1>1. \A u \in Span(t) : f[u] \in Int
  BY DEF Span, AdmRows
<1>2. Through(l, w, t) = SumFunctionOnSet(f, Span(t))
  BY DEF Through
<1> HIDE DEF f
<1>3. QED
  BY <1>1, <1>2, SpanIsFinite, SumType

LEMMA ThroughBump ==
  ASSUME AdmRows, NEW l \in Limits, NEW w \in Workers,
         admitted' = [admitted EXCEPT ![<<l, w, now>>] = @ + 1], NEW t
  PROVE  Through(l, w, t)' = IF now \in Span(t) THEN Through(l, w, t) + 1 ELSE Through(l, w, t)
<1> DEFINE f == [u \in Span(t) |-> admitted[<<l, w, u>>]]
           g == [u \in Span(t) |-> admitted'[<<l, w, u>>]]
<1>1. \A u \in Span(t) : u \in Time /\ <<l, w, u>> \in DOMAIN admitted /\ admitted[<<l, w, u>>] \in Int
  BY DEF Span, AdmRows
<1>2. \A u \in Span(t) : f[u] \in Int
  BY <1>1
<1>3. \A u \in Span(t) : g[u] = IF u = now THEN f[u] + 1 ELSE f[u]
  BY <1>1
<1>4. Span(t)' = Span(t)
  BY DEF Span, Time
<1>5. Through(l, w, t) = SumFunctionOnSet(f, Span(t)) /\ Through(l, w, t)' = SumFunctionOnSet(g, Span(t))
  BY <1>4 DEF Through
<1> HIDE DEF f, g
<1>6. CASE now \in Span(t)
  <2>1. PICK c \in Span(t) : c = now
    BY <1>6
  <2>2. g[c] = f[c] + 1 /\ \A u \in Span(t) \ {c} : g[u] = f[u]
    BY <1>3, <2>1
  <2>3. SumFunctionOnSet(g, Span(t)) = SumFunctionOnSet(f, Span(t)) + 1
    BY <1>2, <2>2, SpanIsFinite, SumBump
  <2>4. QED
    BY <1>5, <1>6, <2>3
<1>7. CASE now \notin Span(t)
  <2>1. \A u \in Span(t) : f[u] = g[u]
    BY <1>3, <1>7
  <2>2. QED
    BY <1>5, <1>7, <2>1, SpanIsFinite, SumSame
<1>8. QED
  BY <1>6, <1>7

\* Nothing came through yet in the time to come.
LEMMA NothingAhead ==
  ASSUME AdmRows, NEW l \in Limits, NEW w \in Workers, \A u \in Time : u > now => admitted[<<l, w, u>>] = 0,
         NEW t \in Time, t > now
  PROVE  Through(l, w, t) = 0
<1> DEFINE f == [u \in Span(t) |-> admitted[<<l, w, u>>]]
<1>1. \A u \in Span(t) : u \in Time /\ u > now
  BY AdmissionAssumption DEF Span, AdmRows, Time
<1>2. \A u \in Span(t) : f[u] = 0
  BY <1>1
<1>3. Through(l, w, t) = SumFunctionOnSet(f, Span(t))
  BY DEF Through
<1> HIDE DEF f
<1>4. QED
  BY <1>2, <1>3, SpanIsFinite, SumZero

\* What does not come to a counter leaves what is known of it.
LEMMA CountedStays ==
  ASSUME AdmRows, NEW l \in Limits, NEW w \in Workers, Counted(l, w),
         meter'[<<l, w>>] = meter[<<l, w>>], restarts'[w] = restarts[w],
         \A u \in Time : admitted'[<<l, w, u>>] = admitted[<<l, w, u>>],
         now' \in Time, now <= now'
  PROVE  Counted(l, w)'
<1>1. \A t : Through(l, w, t)' = Through(l, w, t)
  BY ThroughSame
<1>2. Time' = Time /\ LengthOf(l)' = LengthOf(l)
  BY DEF Time, LengthOf
<1>3. now \in Nat /\ now' \in Nat /\ meter[<<l, w>>].reset \in Nat /\ LengthOf(l) \in Nat
  BY AdmissionAssumption DEF AdmRows, Time, LengthOf
<1>4. \A u \in Time : u > now' => u > now
  BY <1>3, AdmissionAssumption DEF Time
<1>5. 0..now \subseteq 0..now'
  BY <1>3
<1>6. QED
  BY <1>1, <1>2, <1>4, <1>5 DEF Counted

\* A request comes to a counter, the same one or a new window's first.
LEMMA HitKeeps ==
  ASSUME AdmRows, NEW l \in Limits, NEW w \in Workers, Counted(l, w),
         LET count == Hit(meter[<<l, w>>], LengthOf(l)) IN
           /\ meter' = [meter EXCEPT ![<<l, w>>] = count]
           /\ admitted' = IF count.hits <= Most THEN [admitted EXCEPT ![<<l, w, now>>] = @ + 1] ELSE admitted,
         UNCHANGED <<now, restarts>>
  PROVE  Counted(l, w)'
<1>1. PICK old \in [hits : Nat, reset : Nat] : old = meter[<<l, w>>]
  BY DEF AdmRows
<1>2. PICK new : new = Hit(old, LengthOf(l))
  OBVIOUS
<1>3. /\ meter' = [meter EXCEPT ![<<l, w>>] = new]
      /\ admitted' = IF new.hits <= Most THEN [admitted EXCEPT ![<<l, w, now>>] = @ + 1] ELSE admitted
  BY <1>1, <1>2
<1>4. PICK N \in Nat \ {0} : N = LengthOf(l) /\ N >= WindowLength
  BY AdmissionAssumption DEF LengthOf
<1>5. PICK past \in Nat : past = Most * restarts[w]
  BY AdmissionAssumption DEF AdmRows
<1>6. /\ now \in Nat /\ Most \in Nat /\ Most >= 1 /\ WindowLength \in Nat /\ WindowLength >= 1
      /\ Time \subseteq Nat /\ now \in Time
  BY AdmissionAssumption DEF AdmRows, Time
<1>7. new = IF old.reset <= now THEN [hits |-> 1, reset |-> now + N] ELSE [hits |-> old.hits + 1, reset |-> old.reset]
  <2>1. old = [hits |-> old.hits, reset |-> old.reset]
    OBVIOUS
  <2>2. [old EXCEPT !.hits = @ + 1] = [hits |-> old.hits + 1, reset |-> old.reset]
    BY <2>1
  <2>3. QED
    BY <1>2, <1>4, <2>2 DEF Hit
<1>8. meter'[<<l, w>>] = new
  BY <1>3 DEF AdmRows
\* What was known of the counter.
<1> DEFINE T(t) == Through(l, w, t)
           A(u) == admitted[<<l, w, u>>]
           start == old.reset - N
<1>9. /\ \A u \in Time : u > now => A(u) = 0
      /\ \A t \in Time : T(t) <= 2 * Most - 1 + past
      /\ old.hits = 0 => old.reset = 0 /\ \A t \in Time : T(t) <= Most - 1 + past
      /\ old.hits > 0 =>
           /\ start \in 0..now
           /\ \A t \in Time : t <= start /\ start < t + WindowLength => T(t) <= Most - 1 + past + Least(old.hits, Most)
           /\ \A t \in Time : start < t => T(t) <= past + Least(old.hits, Most) - 1
  BY <1>1, <1>4, <1>5 DEF Counted
<1>10. \A t \in Time : T(t) \in Int
  BY ThroughType
\* What came through now.
<1>11. PICK more \in {0, 1} : more = IF new.hits <= Most THEN 1 ELSE 0
  OBVIOUS
<1>12. \A t \in Time : T(t)' = IF t <= now /\ now < t + WindowLength THEN T(t) + more ELSE T(t)
  <2>1. TAKE t \in Time
  <2>2. now \in Span(t) <=> t <= now /\ now < t + WindowLength
    BY <1>6 DEF Span
  <2>3. CASE new.hits <= Most
    <3>1. admitted' = [admitted EXCEPT ![<<l, w, now>>] = @ + 1] /\ more = 1
      BY <1>3, <1>11, <2>3
    <3>2. T(t)' = IF now \in Span(t) THEN T(t) + 1 ELSE T(t)
      BY <3>1, ThroughBump
    <3>3. QED
      BY <2>2, <3>1, <3>2
  <2>4. CASE ~(new.hits <= Most)
    <3>1. admitted' = admitted /\ more = 0
      BY <1>3, <1>11, <2>4
    <3>2. T(t)' = T(t)
      BY <3>1, ThroughSame
    <3>3. QED
      BY <1>10, <3>1, <3>2
  <2>5. QED
    BY <2>3, <2>4
<1>13. \A t \in Time : t > now => T(t) = 0
  BY <1>9, NothingAhead
<1>14. \A u \in Time : u > now => A(u)' = 0
  <2>1. TAKE u \in Time
  <2>2. HAVE u > now
  <2>3. admitted'[<<l, w, u>>] = admitted[<<l, w, u>>]
    <3>1. <<l, w, u>> # <<l, w, now>>
      BY <1>6, <2>2
    <3>2. QED
      BY <1>3, <3>1 DEF AdmRows
  <2>4. QED
    BY <1>9, <2>2, <2>3
<1> HIDE DEF T, A
<1>15. CASE old.reset <= now
  <2>1. new.hits = 1 /\ new.reset = now + N /\ more = 1 /\ new.reset - N = now
    BY <1>4, <1>6, <1>7, <1>11, <1>15
  <2>2. Least(new.hits, Most) = 1
    BY <1>6, <2>1 DEF Least
  <2>3. \A t \in Time : t <= now /\ now < t + WindowLength => T(t) <= Most - 1 + past
    <3>1. TAKE t \in Time
    <3>2. HAVE t <= now /\ now < t + WindowLength
    <3>3. CASE old.hits = 0
      BY <1>9, <3>3
    <3>4. CASE old.hits > 0
      <4>1. start < t
        BY <1>4, <1>6, <1>15, <3>2
      <4>2. T(t) <= past + Least(old.hits, Most) - 1
        BY <1>9, <3>4, <4>1
      <4>3. Least(old.hits, Most) <= Most /\ Least(old.hits, Most) \in Int
        BY <1>6 DEF Least
      <4>4. QED
        BY <1>6, <1>10, <4>2, <4>3
    <3>5. QED
      BY <3>3, <3>4
  <2>4. \A t \in Time : t <= now /\ now < t + WindowLength => T(t)' <= Most - 1 + past + 1
    BY <1>6, <1>10, <1>12, <2>1, <2>3
  <2>5. \A t \in Time : now < t => T(t)' <= past + 1 - 1
    <3>1. TAKE t \in Time
    <3>2. HAVE now < t
    <3>3. T(t)' = 0
      BY <1>6, <1>12, <1>13, <3>2
    <3>4. QED
      BY <3>3
  <2>6. \A t \in Time : T(t)' <= 2 * Most - 1 + past
    <3>1. TAKE t \in Time
    <3>2. CASE t <= now /\ now < t + WindowLength
      <4>1. T(t)' <= Most - 1 + past + 1 /\ T(t)' \in Int
        BY <1>10, <1>12, <2>4, <3>2
      <4>2. QED
        BY <1>6, <4>1
    <3>3. CASE ~(t <= now /\ now < t + WindowLength)
      BY <1>9, <1>12, <3>3
    <3>4. QED
      BY <3>2, <3>3
  <2>7. now \in 0..now
    BY <1>6
  <2>8. new.hits > 0 /\ new.hits # 0
    BY <2>1
  <2> HIDE DEF start
  <2>9. QED
    <3>1. /\ \A u \in Time : u > now' => admitted'[<<l, w, u>>] = 0
          /\ \A t \in Time : Through(l, w, t)' <= 2 * Most - 1 + past
          /\ \A t \in Time : t <= now /\ now < t + WindowLength => Through(l, w, t)' <= Most - 1 + past + Least(new.hits, Most)
          /\ \A t \in Time : now < t => Through(l, w, t)' <= past + Least(new.hits, Most) - 1
      BY <1>14, <2>2, <2>4, <2>5, <2>6 DEF T, A
    <3>2. Time' = Time /\ LengthOf(l)' = N /\ past = Most * restarts'[w] /\ now' = now
      BY <1>4, <1>5 DEF Time, LengthOf
    <3>3. QED
      BY <1>8, <2>1, <2>7, <2>8, <3>1, <3>2 DEF Counted
<1>16. CASE ~(old.reset <= now)
  <2>1. new.hits = old.hits + 1 /\ new.reset = old.reset /\ old.hits > 0
    <3>1. old.hits # 0
      BY <1>6, <1>9, <1>16
    <3>2. QED
      BY <1>7, <1>16, <3>1
  <2>2. start \in 0..now /\ new.reset - N = start
    BY <1>9, <2>1
  <2>3. Least(new.hits, Most) = Least(old.hits, Most) + more /\ Least(old.hits, Most) \in Nat /\ Least(old.hits, Most) <= Most
        /\ Least(new.hits, Most) <= Most /\ Least(new.hits, Most) \in Nat
    BY <1>6, <1>11, <2>1 DEF Least
  <2>4. \A t \in Time : T(t)' <= T(t) + more
    BY <1>10, <1>12
  <2>5. \A t \in Time : T(t)' \in Int
    BY <1>10, <1>12
  <2>6. \A t \in Time : t <= start /\ start < t + WindowLength => T(t)' <= Most - 1 + past + Least(new.hits, Most)
    <3>1. TAKE t \in Time
    <3>2. HAVE t <= start /\ start < t + WindowLength
    <3>3. T(t) <= Most - 1 + past + Least(old.hits, Most) /\ T(t) \in Int
      BY <1>9, <1>10, <2>1, <3>2
    <3>4. QED
      BY <1>6, <2>3, <2>4, <2>5, <3>3
  <2>7. \A t \in Time : start < t => T(t)' <= past + Least(new.hits, Most) - 1
    <3>1. TAKE t \in Time
    <3>2. HAVE start < t
    <3>3. T(t) <= past + Least(old.hits, Most) - 1 /\ T(t) \in Int
      BY <1>9, <1>10, <2>1, <3>2
    <3>4. QED
      BY <1>6, <2>3, <2>4, <2>5, <3>3
  <2>8. \A t \in Time : T(t)' <= 2 * Most - 1 + past
    <3>1. TAKE t \in Time
    <3>2. CASE ~(t <= now /\ now < t + WindowLength)
      BY <1>9, <1>12, <3>2
    <3>3. CASE t <= now /\ now < t + WindowLength /\ t <= start
      <4>1. start < t + WindowLength
        BY <1>6, <2>2, <3>3
      <4>2. T(t)' <= Most - 1 + past + Least(new.hits, Most) /\ T(t)' \in Int
        BY <2>5, <2>6, <3>3, <4>1
      <4>3. QED
        BY <1>6, <2>3, <4>2
    <3>4. CASE start < t
      <4>1. T(t)' <= past + Least(new.hits, Most) - 1 /\ T(t)' \in Int
        BY <2>5, <2>7, <3>4
      <4>2. QED
        BY <1>6, <2>3, <4>1
    <3>5. t \in Int /\ start \in Int
      BY <1>6, <2>2
    <3>6. QED
      BY <3>2, <3>3, <3>4, <3>5
  <2>9. new.hits > 0 /\ new.hits # 0
    BY <2>1
  <2>10. QED
    <3>1. /\ \A u \in Time : u > now' => admitted'[<<l, w, u>>] = 0
          /\ \A t \in Time : Through(l, w, t)' <= 2 * Most - 1 + past
          /\ \A t \in Time : t <= start /\ start < t + WindowLength => Through(l, w, t)' <= Most - 1 + past + Least(new.hits, Most)
          /\ \A t \in Time : start < t => Through(l, w, t)' <= past + Least(new.hits, Most) - 1
      BY <1>14, <2>6, <2>7, <2>8 DEF T, A
    <3>2. Time' = Time /\ LengthOf(l)' = N /\ past = Most * restarts'[w] /\ now' = now
      BY <1>4, <1>5 DEF Time, LengthOf
    <3> HIDE DEF start
    <3>3. QED
      BY <1>8, <2>2, <2>9, <3>1, <3>2 DEF Counted
<1>17. QED
  BY <1>15, <1>16

\* The worker starts again: its counter is gone, and another window may begin.
LEMMA RestartKeeps ==
  ASSUME AdmRows, NEW l \in Limits, NEW w \in Workers, Counted(l, w),
         meter'[<<l, w>>] = Unused, restarts'[w] = restarts[w] + 1,
         UNCHANGED <<now, admitted>>
  PROVE  Counted(l, w)'
<1>1. PICK past \in Nat : past = Most * restarts[w]
  BY AdmissionAssumption DEF AdmRows
<1>2. Most * restarts'[w] = past + Most
  BY <1>1, AdmissionAssumption DEF AdmRows
<1>3. Most \in Nat /\ Most >= 1
  BY AdmissionAssumption
<1>4. \A t : Through(l, w, t)' = Through(l, w, t)
  BY ThroughSame
<1>5. \A t \in Time : Through(l, w, t) \in Int /\ Through(l, w, t) <= 2 * Most - 1 + past
  BY <1>1, ThroughType DEF Counted
<1>6. \A t \in Time : Through(l, w, t)' <= Most - 1 + (past + Most) /\ Through(l, w, t)' <= 2 * Most - 1 + (past + Most)
  BY <1>3, <1>4, <1>5
<1>7. \A u \in Time : u > now => admitted'[<<l, w, u>>] = 0
  BY DEF Counted
<1>8. meter'[<<l, w>>].hits = 0 /\ meter'[<<l, w>>].reset = 0
  BY DEF Unused
<1>9. Time' = Time
  BY DEF Time
<1>10. QED
  BY <1>2, <1>6, <1>7, <1>8, <1>9 DEF Counted

\* Handler h moves to await p, carrying r.
AdmMoves(h, p, r) ==
  /\ pc' \in [Handlers -> AdmAwaits \cup {"idle"}] /\ DOMAIN local' = Handlers
  /\ \A g \in Handlers : pc'[g] = IF g = h THEN p ELSE pc[g]
  /\ \A g \in Handlers : local'[g] = IF g = h THEN r ELSE local[g]

LEMMA BeginMoves ==
  ASSUME AdmRequests, NEW h \in Handlers, NEW p \in AdmAwaits, NEW r, Begin(h, p, r)
  PROVE  AdmMoves(h, p, r) /\ pc[h] = "idle"
BY DEF AdmRequests, Begin, AdmMoves

LEMMA GotoMoves ==
  ASSUME AdmRequests, NEW h \in Handlers, NEW p \in AdmAwaits, Goto(h, p)
  PROVE  AdmMoves(h, p, local[h])
BY DEF AdmRequests, Goto, AdmMoves

LEMMA AnswerMoves ==
  ASSUME AdmRequests, NEW h \in Handlers, Answer(h)
  PROVE  AdmMoves(h, "idle", Nothing)
BY DEF AdmRequests, Answer, AdmMoves

LEMMA RequestsAfter ==
  ASSUME AdmRequests, NEW h \in Handlers, NEW p, NEW r, AdmMoves(h, p, r), standing' = standing,
         AdmCarries(p, r, mayWrite)
  PROVE  AdmRequests'
<1>1. mayWrite' = mayWrite
  BY DEF mayWrite, canUseProduct
<1>2. ASSUME NEW g \in Handlers
      PROVE  AdmCarries(pc'[g], local'[g], mayWrite)
  <2>1. CASE g = h
    <3>1. pc'[g] = p /\ local'[g] = r
      BY <2>1 DEF AdmMoves
    <3>2. QED
      BY <3>1
  <2>2. CASE g # h
    <3>1. pc'[g] = pc[g] /\ local'[g] = local[g]
      BY <2>2 DEF AdmMoves
    <3>2. QED
      BY <3>1 DEF AdmRequests
  <2>3. QED
    BY <2>1, <2>2
<1>3. QED
  BY <1>1, <1>2 DEF AdmRequests, AdmMoves

LEMMA RequestsStay ==
  ASSUME AdmRequests, UNCHANGED <<pc, local, standing>>
  PROVE  AdmRequests'
<1>1. mayWrite' = mayWrite
  BY DEF mayWrite, canUseProduct
<1>2. QED
  BY <1>1 DEF AdmRequests

\* How many requests wait for their reply, after the move.
LEMMA AwaitedAfter ==
  ASSUME IsFiniteSet(Awaited), NEW h \in Handlers, NEW p, NEW r, AdmMoves(h, p, r)
  PROVE  /\ IsFiniteSet(Awaited') /\ Cardinality(Awaited) \in Nat /\ Cardinality(Awaited') \in Nat
         /\ h \in Awaited /\ ~(p = "reply" /\ ~r.same) => Cardinality(Awaited') = Cardinality(Awaited) - 1
         /\ h \notin Awaited /\ p = "reply" /\ ~r.same => Cardinality(Awaited') = Cardinality(Awaited) + 1
         /\ h \notin Awaited /\ ~(p = "reply" /\ ~r.same) => Cardinality(Awaited') = Cardinality(Awaited)
<1>1. PICK Q : Q = Awaited
  OBVIOUS
<1>2. PICK Q2 : Q2 = Awaited'
  OBVIOUS
<1>3. \A g \in Handlers \ {h} : g \in Q2 <=> g \in Q
  BY <1>1, <1>2 DEF Awaited, AdmMoves
<1>4. h \in Q2 <=> p = "reply" /\ ~r.same
  BY <1>2 DEF Awaited, AdmMoves
<1>5. Q \subseteq Handlers /\ Q2 \subseteq Handlers
  BY <1>1, <1>2 DEF Awaited
<1>6. IsFiniteSet(Q) /\ Cardinality(Q) \in Nat
  BY <1>1, FS_CardinalityType
<1>7. CASE h \in Q /\ h \notin Q2
  <2>1. Q2 = Q \ {h}
    BY <1>3, <1>5, <1>7
  <2>2. IsFiniteSet(Q2) /\ Cardinality(Q2) = Cardinality(Q) - 1 /\ Cardinality(Q2) \in Nat
    BY <1>6, <1>7, <2>1, FS_RemoveElement, FS_CardinalityType
  <2>3. QED
    BY <1>1, <1>2, <1>4, <1>6, <1>7, <2>2
<1>8. CASE h \notin Q /\ h \in Q2
  <2>1. Q2 = Q \cup {h}
    BY <1>3, <1>5, <1>8
  <2>2. IsFiniteSet(Q2) /\ Cardinality(Q2) = Cardinality(Q) + 1 /\ Cardinality(Q2) \in Nat
    BY <1>6, <1>8, <2>1, FS_AddElement, FS_CardinalityType
  <2>3. QED
    BY <1>1, <1>2, <1>4, <1>6, <1>8, <2>2
<1>9. CASE h \in Q <=> h \in Q2
  <2>1. Q2 = Q
    BY <1>3, <1>5, <1>9
  <2>2. QED
    BY <1>1, <1>2, <1>4, <1>6, <1>9, <2>1
<1>10. QED
  BY <1>7, <1>8, <1>9

LEMMA CountersStay ==
  ASSUME AdmInv, UNCHANGED <<meter, admitted, restarts>>, now' \in Time, now <= now'
  PROVE  \A l \in Limits, w \in Workers : Counted(l, w)'
BY CountedStays DEF AdmInv

LEMMA QuotaStays ==
  ASSUME Consumed, UNCHANGED <<quota, asked, redis, restarts>>
  PROVE  Consumed'
BY DEF Consumed, Asked, Days

\* A request comes to the limit l of worker w.
Comes(l, w) ==
  LET count == Hit(meter[<<l, w>>], LengthOf(l)) IN
    /\ meter' = [meter EXCEPT ![<<l, w>>] = count]
    /\ admitted' = IF count.hits <= Most THEN [admitted EXCEPT ![<<l, w, now>>] = @ + 1] ELSE admitted

LEMMA CountersAfter ==
  ASSUME AdmInv, NEW l \in Limits, NEW w \in Workers, Comes(l, w), UNCHANGED <<now, restarts>>
  PROVE  /\ \A m \in Limits, v \in Workers : Counted(m, v)'
         /\ meter' \in [Limits \X Workers -> [hits : Nat, reset : Nat]]
         /\ admitted' \in [Limits \X Workers \X Time -> Nat]
<1>1. AdmRows /\ now \in Time /\ now \in Nat
  BY DEF AdmInv, AdmRows, Time
<1>2. PICK old \in [hits : Nat, reset : Nat] : old = meter[<<l, w>>]
  BY <1>1 DEF AdmRows
<1>3. PICK new : new = Hit(old, LengthOf(l))
  OBVIOUS
<1>4. new \in [hits : Nat, reset : Nat]
  <2>1. LengthOf(l) \in Nat
    BY AdmissionAssumption DEF LengthOf
  <2>2. [old EXCEPT !.hits = @ + 1] \in [hits : Nat, reset : Nat]
    OBVIOUS
  <2>3. QED
    BY <1>1, <1>3, <2>1, <2>2 DEF Hit
<1>5. /\ meter' = [meter EXCEPT ![<<l, w>>] = new]
      /\ admitted' = IF new.hits <= Most THEN [admitted EXCEPT ![<<l, w, now>>] = @ + 1] ELSE admitted
  BY <1>2, <1>3 DEF Comes
<1>6. meter' \in [Limits \X Workers -> [hits : Nat, reset : Nat]]
  BY <1>1, <1>4, <1>5 DEF AdmRows
<1>7. admitted' \in [Limits \X Workers \X Time -> Nat]
  BY <1>1, <1>5 DEF AdmRows
<1>8. ASSUME NEW m \in Limits, NEW v \in Workers
      PROVE  Counted(m, v)'
  <2>1. Counted(m, v)
    BY DEF AdmInv
  <2>2. CASE m = l /\ v = w
    <3>1. Counted(l, w)'
      BY <1>1, <2>1, <2>2, HitKeeps DEF Comes
    <3>2. QED
      BY <2>2, <3>1
  <2>3. CASE ~(m = l /\ v = w)
    <3>1. <<m, v>> # <<l, w>> /\ \A u \in Time : <<m, v, u>> # <<l, w, now>>
      BY <2>3
    <3>2. meter'[<<m, v>>] = meter[<<m, v>>] /\ \A u \in Time : admitted'[<<m, v, u>>] = admitted[<<m, v, u>>]
      BY <1>1, <1>5, <3>1 DEF AdmRows
    <3>3. restarts'[v] = restarts[v] /\ now' \in Time /\ now <= now'
      BY <1>1
    <3>4. QED
      BY <1>1, <2>1, <3>2, <3>3, CountedStays
  <2>4. QED
    BY <2>2, <2>3
<1>9. QED
  BY <1>6, <1>7, <1>8

\* Jenna's call is counted.
LEMMA QuotaAfter ==
  ASSUME AdmInv, NEW w \in Workers, Consume(w), UNCHANGED <<now, redis, restarts>>
  PROVE  /\ Consumed'
         /\ quota' \in [(Workers \cup {None}) \X Days -> Nat] /\ asked' \in [Workers \X Days -> Nat]
<1>1. AdmRows /\ Consumed
  BY DEF AdmInv
<1>2. PICK p \in Workers \cup {None} : p = Place(w)
  BY DEF Place
<1>3. PICK d \in Days : d = Today
  <2>1. now \in 0..MaxTime /\ MaxTime \in Nat /\ DayLength \in Nat \ {0}
    BY <1>1, AdmissionAssumption DEF AdmRows, Time
  <2>2. now \div DayLength \in Nat /\ now \div DayLength <= MaxTime \div DayLength
    BY <2>1, Z3
  <2>3. MaxTime \div DayLength \in Nat
    BY <2>1
  <2>4. QED
    BY <2>2, <2>3 DEF Today, Days
<1>4. PICK used \in Nat : used = quota[<<p, d>>]
  BY <1>1 DEF AdmRows
<1>5. Used(w) = used + 1
  BY <1>2, <1>3, <1>4 DEF Used
<1>6. /\ quota' = [quota EXCEPT ![<<p, d>>] = used + 1]
      /\ asked' = IF used + 1 <= Most THEN [asked EXCEPT ![<<w, d>>] = @ + 1] ELSE asked
  BY <1>2, <1>3, <1>4, <1>5 DEF Consume
<1>7. quota' \in [(Workers \cup {None}) \X Days -> Nat] /\ asked' \in [Workers \X Days -> Nat]
  BY <1>1, <1>6 DEF AdmRows
<1>8. Most \in Nat
  BY AdmissionAssumption
<1>9. ASSUME NEW e \in Days, redis
      PROVE  Asked(Workers, e)' <= Least(quota'[<<None, e>>], Most)
  <2>1. Asked(Workers, e) <= Least(quota[<<None, e>>], Most)
    BY <1>1, <1>9 DEF Consumed
  <2>2. p = None
    BY <1>2, <1>9 DEF Place
  <2> DEFINE f == [v \in Workers |-> asked[<<v, e>>]]
             g == [v \in Workers |-> asked'[<<v, e>>]]
  <2>3. \A v \in Workers : f[v] \in Int
    BY <1>1 DEF AdmRows
  <2>4. IsFiniteSet(Workers)
    BY AdmissionAssumption
  <2>5. Asked(Workers, e) = SumFunctionOnSet(f, Workers) /\ Asked(Workers, e)' = SumFunctionOnSet(g, Workers)
    BY DEF Asked
  <2>6. CASE e = d /\ used + 1 <= Most
    <3>1. g[w] = f[w] + 1 /\ \A v \in Workers \ {w} : g[v] = f[v]
      BY <1>1, <1>6, <2>6 DEF AdmRows
    <3> HIDE DEF f, g
    <3>2. SumFunctionOnSet(g, Workers) = SumFunctionOnSet(f, Workers) + 1 /\ SumFunctionOnSet(f, Workers) \in Int
      BY <2>3, <2>4, <3>1, SumBump, SumType
    <3>3. quota'[<<None, e>>] = used + 1 /\ quota[<<None, e>>] = used
      BY <1>1, <1>4, <1>6, <2>2, <2>6 DEF AdmRows
    <3>4. QED
      BY <1>8, <2>1, <2>5, <2>6, <3>2, <3>3 DEF Least
  <2>7. CASE ~(e = d /\ used + 1 <= Most)
    <3>1. \A v \in Workers : g[v] = f[v]
      BY <1>1, <1>6, <2>7 DEF AdmRows
    <3> HIDE DEF f, g
    <3>2. SumFunctionOnSet(g, Workers) = SumFunctionOnSet(f, Workers) /\ SumFunctionOnSet(f, Workers) \in Int
      BY <2>3, <2>4, <3>1, SumSame, SumType
    <3>3. /\ quota[<<None, e>>] \in Nat /\ quota'[<<None, e>>] \in Nat
          /\ quota[<<None, e>>] <= quota'[<<None, e>>]
      <4>1. quota[<<None, e>>] \in Nat
        BY <1>1 DEF AdmRows
      <4>2. quota'[<<None, e>>] = quota[<<None, e>>] \/ quota'[<<None, e>>] = quota[<<None, e>>] + 1
        BY <1>1, <1>4, <1>6 DEF AdmRows
      <4>3. QED
        BY <4>1, <4>2
    <3>4. QED
      BY <1>8, <2>1, <2>5, <3>2, <3>3 DEF Least
  <2>8. QED
    BY <2>6, <2>7
<1>10. ASSUME NEW e \in Days, ~redis, NEW v \in Workers
       PROVE  asked'[<<v, e>>] <= Least(quota'[<<v, e>>], Most) + Most * restarts'[v]
  <2>1. asked[<<v, e>>] <= Least(quota[<<v, e>>], Most) + Most * restarts[v]
    BY <1>1, <1>10 DEF Consumed
  <2>2. p = w
    BY <1>2, <1>10 DEF Place
  <2>3. PICK past \in Nat : past = Most * restarts[v]
    BY <1>1, <1>8 DEF AdmRows
  <2>4. past = Most * restarts'[v]
    BY <2>3
  <2>5. asked[<<v, e>>] \in Nat /\ quota[<<v, e>>] \in Nat
    BY <1>1 DEF AdmRows
  <2>6. CASE v = w /\ e = d
    <3>1. quota'[<<v, e>>] = used + 1 /\ quota[<<v, e>>] = used
      BY <1>1, <1>4, <1>6, <2>2, <2>6 DEF AdmRows
    <3>2. asked'[<<v, e>>] = IF used + 1 <= Most THEN asked[<<v, e>>] + 1 ELSE asked[<<v, e>>]
      BY <1>1, <1>6, <2>6 DEF AdmRows
    <3>3. asked'[<<v, e>>] <= Least(quota'[<<v, e>>], Most) + past
      BY <1>8, <2>1, <2>3, <2>5, <3>1, <3>2 DEF Least
    <3>4. QED
      BY <2>4, <3>3
  <2>7. CASE ~(v = w /\ e = d)
    <3>1. <<v, e>> # <<w, d>>
      BY <2>7
    <3>2. quota'[<<v, e>>] = quota[<<v, e>>] /\ asked'[<<v, e>>] = asked[<<v, e>>]
      BY <1>1, <1>6, <2>2, <3>1 DEF AdmRows
    <3>3. QED
      BY <2>1, <2>3, <2>4, <3>2
  <2>8. QED
    BY <2>6, <2>7
<1>11. Days' = Days
  BY DEF Days
<1>12. QED
  BY <1>7, <1>9, <1>10, <1>11 DEF Consumed

\* Requests that do not wait for a reply, before and after, change no mail.
LEMMA MailedAfter ==
  ASSUME OksMailed, AdmRows, NEW h \in Handlers, NEW p, NEW r, AdmMoves(h, p, r),
         h \notin Awaited, ~(p = "reply" /\ ~r.same), oks' \in Nat, inbox' \in Nat,
         UNCHANGED <<brevo, ignored>>, NEW n \in Nat, brevo => inbox' >= inbox + n /\ oks' <= oks + n
  PROVE  OksMailed'
<1>1. IsFiniteSet(Awaited)
  BY DEF OksMailed
<1>2. /\ IsFiniteSet(Awaited') /\ Cardinality(Awaited) \in Nat
      /\ Cardinality(Awaited') = Cardinality(Awaited)
  BY <1>1, AwaitedAfter
<1>3. oks \in Nat /\ inbox \in Nat /\ ignored \in Nat
  BY DEF AdmRows
<1>4. ASSUME brevo'
      PROVE  oks' + Cardinality(Awaited') <= inbox' + ignored'
  <2>1. brevo
    BY <1>4
  <2>2. oks + Cardinality(Awaited) <= inbox + ignored
    BY <2>1 DEF OksMailed
  <2>3. inbox' >= inbox + n /\ oks' <= oks + n /\ ignored' = ignored
    BY <2>1
  <2>4. QED
    BY <1>2, <1>3, <2>2, <2>3
<1>5. QED
  BY <1>2, <1>4 DEF OksMailed

LEMMA MailedStays ==
  ASSUME OksMailed, UNCHANGED <<pc, local, brevo, oks, inbox, ignored>>
  PROVE  OksMailed'
<1>1. Awaited' = Awaited
  BY DEF Awaited
<1>2. QED
  BY <1>1 DEF OksMailed

LEMMA ComesApi ==
  ASSUME NEW w \in Workers, Increment(w)
  PROVE  Comes("api", w)
<1>1. LengthOf("api") = WindowLength
  BY DEF LengthOf
<1>2. QED
  BY <1>1 DEF Comes, Increment

LEMMA ComesContact ==
  ASSUME NEW w \in Workers, CheckRateLimit(w)
  PROVE  Comes("contact", w)
<1>1. LengthOf("contact") = WindowLength + 1
  BY DEF LengthOf
<1>2. QED
  BY <1>1 DEF Comes, CheckRateLimit

LEMMA ReadKeeps ==
  ASSUME AdmInv, NEW w \in Workers, Read(w)
  PROVE  AdmInv'
<1>1. Comes("api", w) /\ UNCHANGED <<pc, local>>
      /\ UNCHANGED <<now, standing, redis, quota, brevo, inbox, asked, oks, ignored, restarts, overdue>>
  BY ComesApi DEF Read, AnswerAtOnce, mailVars
<1>2. /\ \A m \in Limits, v \in Workers : Counted(m, v)'
      /\ meter' \in [Limits \X Workers -> [hits : Nat, reset : Nat]]
      /\ admitted' \in [Limits \X Workers \X Time -> Nat]
  BY <1>1, CountersAfter DEF Limits
<1>3. AdmRows'
  BY <1>1, <1>2 DEF AdmInv, AdmRows, Time, Days
<1>4. AdmRequests' /\ OksMailed' /\ Consumed'
  BY <1>1, RequestsStay, MailedStays, QuotaStays DEF AdmInv
<1>5. QED
  BY <1>2, <1>3, <1>4 DEF AdmInv, Limits

LEMMA WriteKeeps ==
  ASSUME AdmInv, NEW h \in Handlers, Write(h)
  PROVE  AdmInv'
<1>0. UNCHANGED <<now, standing, meter, redis, quota, brevo, inbox, admitted, asked, oks, ignored, restarts, overdue>>
  BY DEF Write, admissionVars
<1>1. PICK w \in Workers : \E then \in {"serve", "jenna"} : Begin(h, "access", [worker |-> w, then |-> then, ended |-> FALSE])
  BY DEF Write
<1>2. PICK then \in {"serve", "jenna"} : Begin(h, "access", [worker |-> w, then |-> then, ended |-> FALSE])
  BY <1>1
<1>3. PICK r \in [worker : Workers, then : {"serve", "jenna"}, ended : BOOLEAN] : r = [worker |-> w, then |-> then, ended |-> FALSE]
  OBVIOUS
<1>4. Begin(h, "access", r)
  BY <1>2, <1>3
<1>5. AdmMoves(h, "access", r) /\ pc[h] = "idle"
  BY <1>4, BeginMoves DEF AdmInv, AdmAwaits
<1>6. AdmCarries("access", r, mayWrite)
  BY DEF AdmCarries
<1>7. AdmRequests'
  BY <1>0, <1>5, <1>6, RequestsAfter DEF AdmInv
<1>8. OksMailed'
  <2>1. h \notin Awaited
    BY <1>5 DEF Awaited
  <2>2. oks \in Nat /\ inbox \in Nat
    BY DEF AdmInv, AdmRows
  <2>3. /\ oks' \in Nat /\ inbox' \in Nat /\ inbox' >= inbox + 0 /\ oks' <= oks + 0
        /\ UNCHANGED <<brevo, ignored>>
    BY <1>0, <2>2
  <2>4. OksMailed /\ AdmRows
    BY DEF AdmInv
  <2>5. ~("access" = "reply" /\ ~r.same)
    OBVIOUS
  <2>6. QED
    BY <1>5, <2>1, <2>3, <2>4, <2>5, MailedAfter, SMTT(30)
<1>9. AdmRows' /\ Consumed'
  BY <1>0, QuotaStays DEF AdmInv, AdmRows, Time, Days
<1>10. \A l \in Limits, v \in Workers : Counted(l, v)'
  <2>1. now \in Time /\ now <= now
    BY DEF AdmInv, AdmRows, Time
  <2>2. QED
    BY <1>0, <2>1, CountersStay
<1>11. QED
  BY <1>7, <1>8, <1>9, <1>10 DEF AdmInv, Limits

\* A handler that waits for no reply moves, and nothing is mailed.
LEMMA MoveKeeps ==
  ASSUME AdmInv, NEW h \in Handlers, NEW p, NEW r, AdmMoves(h, p, r),
         pc[h] # "reply", p # "reply", AdmCarries(p, r, mayWrite), UNCHANGED <<standing, brevo, oks, inbox, ignored>>
  PROVE  AdmRequests' /\ OksMailed'
<1>1. AdmRequests'
  BY RequestsAfter DEF AdmInv
<1>2. h \notin Awaited
  BY DEF Awaited
<1>3. oks \in Nat /\ inbox \in Nat
  BY DEF AdmInv, AdmRows
<1>4. oks' \in Nat /\ inbox' \in Nat /\ inbox' >= inbox + 0 /\ oks' <= oks + 0
  BY <1>3
<1>5. QED
  BY <1>1, <1>2, <1>4, MailedAfter DEF AdmInv

LEMMA CountsStay ==
  ASSUME AdmInv, UNCHANGED <<now, meter, admitted, restarts, quota, asked, redis>>
  PROVE  Consumed' /\ \A l \in Limits, v \in Workers : Counted(l, v)'
<1>1. now \in Time /\ now <= now
  BY DEF AdmInv, AdmRows, Time
<1>2. QED
  BY <1>1, CountersStay, QuotaStays DEF AdmInv

LEMMA requireProductAccessKeeps ==
  ASSUME AdmInv, NEW h \in Handlers, requireProductAccess(h)
  PROVE  AdmInv'
<1>1. pc[h] = "access" /\ UNCHANGED <<now, standing, redis, quota, brevo, inbox, asked, oks, ignored, restarts, overdue>>
  BY DEF requireProductAccess, mailVars
<1>2. PICK r : r = local[h]
  OBVIOUS
<1>3. r \in [worker : Workers, then : {"serve", "jenna"}, ended : BOOLEAN]
  BY <1>1, <1>2 DEF AdmInv, AdmRequests, AdmCarries
<1>4. CASE ~mayWrite
  <2>1. Answer(h) /\ UNCHANGED <<meter, admitted>>
    BY <1>4 DEF requireProductAccess
  <2>2. AdmMoves(h, "idle", Nothing) /\ AdmCarries("idle", Nothing, mayWrite)
    BY <2>1, AnswerMoves DEF AdmInv, AdmCarries
  <2>3. AdmRequests' /\ OksMailed'
    BY <1>1, <2>2, MoveKeeps
  <2>4. Consumed' /\ \A l \in Limits, v \in Workers : Counted(l, v)'
    BY <1>1, <2>1, CountsStay
  <2>5. AdmRows'
    BY <1>1, <2>1 DEF AdmInv, AdmRows, Time, Days
  <2>6. QED
    BY <2>3, <2>4, <2>5 DEF AdmInv, Limits
<1>5. CASE mayWrite
  <2>1. /\ Increment(local[h].worker)
        /\ IF Admitted THEN Goto(h, local[h].then) ELSE Answer(h)
    BY <1>5 DEF requireProductAccess
  <2>2. PICK w \in Workers : w = r.worker
    BY <1>3
  <2>3. Comes("api", w)
    BY <1>2, <2>1, <2>2, ComesApi
  <2>4. /\ \A m \in Limits, v \in Workers : Counted(m, v)'
        /\ meter' \in [Limits \X Workers -> [hits : Nat, reset : Nat]]
        /\ admitted' \in [Limits \X Workers \X Time -> Nat]
    BY <1>1, <2>3, CountersAfter DEF Limits
  <2>5. AdmRows' /\ Consumed'
    BY <1>1, <2>4, QuotaStays DEF AdmInv, AdmRows, Time, Days
  <2>6. AdmRequests' /\ OksMailed'
    <3>1. CASE Admitted
      <4>1. PICK p \in {"serve", "jenna"} : p = local[h].then
        BY <1>2, <1>3
      <4>2. Goto(h, p)
        BY <2>1, <3>1, <4>1
      <4>3. AdmMoves(h, p, local[h])
        BY <4>1, <4>2, GotoMoves DEF AdmInv, AdmAwaits
      <4>4. AdmCarries(p, local[h], mayWrite)
        BY <1>2, <1>3, <1>5, <4>1 DEF AdmCarries
      <4>5. pc[h] # "reply" /\ p # "reply"
        BY <1>1, <4>1
      <4>6. QED
        BY <1>1, <4>3, <4>4, <4>5, MoveKeeps
    <3>2. CASE ~Admitted
      <4>1. AdmMoves(h, "idle", Nothing) /\ AdmCarries("idle", Nothing, mayWrite)
        BY <2>1, <3>2, AnswerMoves DEF AdmInv, AdmCarries
      <4>2. QED
        BY <1>1, <4>1, MoveKeeps
    <3>3. QED
      BY <3>1, <3>2
  <2>7. QED
    BY <2>4, <2>5, <2>6 DEF AdmInv, Limits
<1>6. QED
  BY <1>4, <1>5

LEMMA ServeKeeps ==
  ASSUME AdmInv, NEW h \in Handlers, Serve(h)
  PROVE  AdmInv'
<1>1. /\ pc[h] = "serve" /\ Answer(h)
      /\ overdue' = (overdue \/ (~mayWrite /\ ~local[h].ended))
      /\ UNCHANGED <<now, standing, meter, redis, quota, brevo, inbox, admitted, asked, oks, ignored, restarts>>
  BY DEF Serve, mailVars
<1>2. AdmMoves(h, "idle", Nothing) /\ AdmCarries("idle", Nothing, mayWrite)
  BY <1>1, AnswerMoves DEF AdmInv, AdmCarries
<1>3. AdmRequests' /\ OksMailed'
  BY <1>1, <1>2, MoveKeeps
<1>4. Consumed' /\ \A l \in Limits, v \in Workers : Counted(l, v)'
  BY <1>1, CountsStay
\* The paywall let it in, or the dealership's standing ended after that.
<1>5. mayWrite \/ local[h].ended
  BY <1>1 DEF AdmInv, AdmRequests, AdmCarries
<1>6. overdue' = FALSE
  BY <1>1, <1>5 DEF AdmInv, AdmRows
<1>7. AdmRows'
  BY <1>1, <1>6 DEF AdmInv, AdmRows, Time, Days
<1>8. QED
  BY <1>3, <1>4, <1>7 DEF AdmInv, Limits

LEMMA StandingChangeKeeps ==
  ASSUME AdmInv, StandingChange
  PROVE  AdmInv'
<1>1. PICK s \in Standings : standing' = s
  BY DEF StandingChange
<1>2. /\ local' = [h \in Handlers |->
           IF pc[h] = "serve" /\ ~mayWrite' THEN [local[h] EXCEPT !.ended = TRUE] ELSE local[h]]
      /\ UNCHANGED <<now, meter, redis, quota, brevo, inbox, admitted, asked, oks, ignored, restarts, overdue, pc>>
  BY DEF StandingChange, mailVars
<1> DEFINE may == standing' \in {"trial", "active", "gone"}
<1>4. \A g \in Handlers : local'[g] = IF pc[g] = "serve" /\ ~may THEN [local[g] EXCEPT !.ended = TRUE] ELSE local[g]
  BY <1>2 DEF mayWrite, canUseProduct
<1>5. ASSUME NEW g \in Handlers
      PROVE  AdmCarries(pc[g], local'[g], may)
  <2>1. AdmCarries(pc[g], local[g], mayWrite)
    BY DEF AdmInv, AdmRequests
  <2>2. CASE pc[g] = "serve" /\ ~may
    <3>1. PICK row \in [worker : Workers, then : {"serve", "jenna"}, ended : BOOLEAN] : row = local[g]
      BY <2>1, <2>2 DEF AdmCarries
    <3>2. PICK b \in BOOLEAN : b = TRUE
      OBVIOUS
    <3>3. local'[g] = [row EXCEPT !.ended = b]
      BY <1>4, <2>2, <3>1, <3>2
    <3>4. local'[g] \in [worker : Workers, then : {"serve", "jenna"}, ended : BOOLEAN] /\ local'[g].ended = b
      BY <3>3
    <3>5. QED
      BY <2>2, <3>2, <3>4 DEF AdmCarries
  <2>3. CASE ~(pc[g] = "serve" /\ ~may)
    <3>1. local'[g] = local[g]
      BY <1>4, <2>3
    <3>2. QED
      BY <2>1, <2>3, <3>1 DEF AdmCarries
  <2>4. QED
    BY <2>2, <2>3
<1>6. AdmRequests'
  <2>1. DOMAIN local' = Handlers /\ pc' \in [Handlers -> AdmAwaits \cup {"idle"}]
    BY <1>2 DEF AdmInv, AdmRequests
  <2>2. \A g \in Handlers : AdmCarries(pc'[g], local'[g], may)
    BY <1>2, <1>5
  <2>3. QED
    BY <2>1, <2>2 DEF AdmRequests, mayWrite, canUseProduct
<1>7. OksMailed'
  <2>1. \A g \in Handlers : pc[g] = "reply" => local'[g] = local[g]
    BY <1>4
  <2>2. Awaited' = Awaited
    BY <1>2, <2>1 DEF Awaited
  <2>3. QED
    BY <1>2, <2>2 DEF AdmInv, OksMailed
<1>8. Consumed' /\ \A l \in Limits, v \in Workers : Counted(l, v)'
  BY <1>2, CountsStay
<1>9. AdmRows'
  BY <1>1, <1>2 DEF AdmInv, AdmRows, Time, Days, Standings
<1>10. QED
  BY <1>6, <1>7, <1>8, <1>9 DEF AdmInv, Limits

LEMMA AskJennaKeeps ==
  ASSUME AdmInv, NEW h \in Handlers, AskJenna(h)
  PROVE  AdmInv'
<1>1. PICK w : w = local[h].worker
  OBVIOUS
<1>2. /\ pc[h] = "jenna" /\ Consume(w)
      /\ IF Used(w) > Most THEN Answer(h) ELSE Goto(h, IF redis /\ Used(w) = 1 THEN "expire" ELSE "ask")
      /\ UNCHANGED <<now, standing, meter, redis, brevo, inbox, admitted, oks, ignored, restarts, overdue>>
  BY <1>1 DEF AskJenna, mailVars
<1>3. local[h] \in [worker : Workers, then : {"serve", "jenna"}, ended : BOOLEAN] /\ w \in Workers
  BY <1>1, <1>2 DEF AdmInv, AdmRequests, AdmCarries
<1>4. /\ Consumed'
      /\ quota' \in [(Workers \cup {None}) \X Days -> Nat] /\ asked' \in [Workers \X Days -> Nat]
  BY <1>2, <1>3, QuotaAfter
<1>5. \A l \in Limits, v \in Workers : Counted(l, v)'
  <2>1. now \in Time /\ now <= now
    BY DEF AdmInv, AdmRows, Time
  <2>2. QED
    BY <1>2, <2>1, CountersStay
<1>6. AdmRows'
  BY <1>2, <1>4 DEF AdmInv, AdmRows, Time, Days
<1>7. AdmRequests' /\ OksMailed'
  <2>1. CASE Used(w) > Most
    <3>1. AdmMoves(h, "idle", Nothing) /\ AdmCarries("idle", Nothing, mayWrite)
      BY <1>2, <2>1, AnswerMoves DEF AdmInv, AdmCarries
    <3>2. QED
      BY <1>2, <3>1, MoveKeeps
  <2>2. CASE ~(Used(w) > Most)
    <3>1. PICK p \in {"expire", "ask"} : Goto(h, p)
      BY <1>2, <2>2
    <3>2. AdmMoves(h, p, local[h])
      BY <3>1, GotoMoves DEF AdmInv, AdmAwaits
    <3>3. AdmCarries(p, local[h], mayWrite)
      BY <1>3, <3>1 DEF AdmCarries
    <3>4. pc[h] # "reply" /\ p # "reply"
      BY <1>2, <3>1
    <3>5. QED
      BY <1>2, <3>2, <3>3, <3>4, MoveKeeps
  <2>3. QED
    BY <2>1, <2>2
<1>8. QED
  BY <1>4, <1>5, <1>6, <1>7 DEF AdmInv, Limits

LEMMA ExpireKeeps ==
  ASSUME AdmInv, NEW h \in Handlers, Expire(h)
  PROVE  AdmInv'
<1>1. pc[h] = "expire" /\ Goto(h, "ask")
      /\ UNCHANGED <<now, standing, meter, redis, quota, brevo, inbox, admitted, asked, oks, ignored, restarts, overdue>>
  BY DEF Expire, admissionVars
<1>2. AdmMoves(h, "ask", local[h])
  BY <1>1, GotoMoves DEF AdmInv, AdmAwaits
<1>3. AdmCarries("ask", local[h], mayWrite)
  BY <1>1 DEF AdmInv, AdmRequests, AdmCarries
<1>4. AdmRequests' /\ OksMailed'
  BY <1>1, <1>2, <1>3, MoveKeeps
<1>5. AdmRows' /\ Consumed' /\ \A l \in Limits, v \in Workers : Counted(l, v)'
  BY <1>1, CountsStay DEF AdmInv, AdmRows, Time, Days
<1>6. QED
  BY <1>4, <1>5 DEF AdmInv, Limits

LEMMA ChatKeeps ==
  ASSUME AdmInv, NEW h \in Handlers, Chat(h)
  PROVE  AdmInv'
<1>1. pc[h] = "ask" /\ Answer(h)
      /\ UNCHANGED <<now, standing, meter, redis, quota, brevo, inbox, admitted, asked, oks, ignored, restarts, overdue>>
  BY DEF Chat, admissionVars
<1>2. AdmMoves(h, "idle", Nothing) /\ AdmCarries("idle", Nothing, mayWrite)
  BY <1>1, AnswerMoves DEF AdmInv, AdmCarries
<1>3. AdmRequests' /\ OksMailed'
  BY <1>1, <1>2, MoveKeeps
<1>4. AdmRows' /\ Consumed' /\ \A l \in Limits, v \in Workers : Counted(l, v)'
  BY <1>1, CountsStay DEF AdmInv, AdmRows, Time, Days
<1>5. QED
  BY <1>3, <1>4 DEF AdmInv, Limits

LEMMA IgnoreContactKeeps ==
  ASSUME AdmInv, IgnoreContact
  PROVE  AdmInv'
<1>1. /\ oks' = oks + 1 /\ ignored' = ignored + 1 /\ UNCHANGED <<pc, local>>
      /\ UNCHANGED <<now, standing, meter, redis, quota, brevo, inbox, admitted, asked, restarts, overdue>>
  BY DEF IgnoreContact, AnswerAtOnce
<1>2. oks \in Nat /\ inbox \in Nat /\ ignored \in Nat
  BY DEF AdmInv, AdmRows
<1>3. OksMailed'
  <2>1. Awaited' = Awaited
    BY <1>1 DEF Awaited
  <2>2. IsFiniteSet(Awaited) /\ Cardinality(Awaited) \in Nat
    BY FS_CardinalityType DEF AdmInv, OksMailed
  <2>3. ASSUME brevo'
        PROVE  oks' + Cardinality(Awaited') <= inbox' + ignored'
    <3>1. oks + Cardinality(Awaited) <= inbox + ignored
      BY <1>1, <2>3 DEF AdmInv, OksMailed
    <3>2. QED
      BY <1>1, <1>2, <2>1, <2>2, <3>1
  <2>4. QED
    BY <2>1, <2>2, <2>3 DEF OksMailed
<1>4. AdmRequests'
  BY <1>1, RequestsStay DEF AdmInv
<1>5. Consumed' /\ \A l \in Limits, v \in Workers : Counted(l, v)'
  BY <1>1, CountsStay
<1>6. AdmRows'
  BY <1>1, <1>2 DEF AdmInv, AdmRows, Time, Days
<1>7. QED
  BY <1>3, <1>4, <1>5, <1>6 DEF AdmInv, Limits

LEMMA SubmitContactKeeps ==
  ASSUME AdmInv, NEW h \in Handlers, SubmitContact(h)
  PROVE  AdmInv'
<1>1. PICK w \in Workers : \E same \in BOOLEAN :
        /\ CheckRateLimit(w)
        /\ IF Admitted THEN Begin(h, IF same THEN "reply" ELSE "inbound", [worker |-> w, same |-> same])
           ELSE AnswerAtOnce
        /\ UNCHANGED <<now, standing, redis, quota, brevo, inbox, asked, oks, ignored, restarts, overdue>>
  BY DEF SubmitContact, mailVars
<1>2. PICK same \in BOOLEAN :
        /\ CheckRateLimit(w)
        /\ IF Admitted THEN Begin(h, IF same THEN "reply" ELSE "inbound", [worker |-> w, same |-> same])
           ELSE AnswerAtOnce
        /\ UNCHANGED <<now, standing, redis, quota, brevo, inbox, asked, oks, ignored, restarts, overdue>>
  BY <1>1
<1>3. /\ \A l \in Limits, v \in Workers : Counted(l, v)'
      /\ meter' \in [Limits \X Workers -> [hits : Nat, reset : Nat]]
      /\ admitted' \in [Limits \X Workers \X Time -> Nat]
  BY <1>2, ComesContact, CountersAfter DEF Limits
<1>4. AdmRows' /\ Consumed'
  BY <1>2, <1>3, QuotaStays DEF AdmInv, AdmRows, Time, Days
<1>5. AdmRequests' /\ OksMailed'
  <2>1. CASE Admitted
    <3>1. PICK r \in [worker : Workers, same : BOOLEAN] : r = [worker |-> w, same |-> same]
      OBVIOUS
    <3>2. PICK p \in {"reply", "inbound"} : p = IF same THEN "reply" ELSE "inbound"
      OBVIOUS
    <3>3. Begin(h, p, r)
      BY <1>2, <2>1, <3>1, <3>2
    <3>4. AdmMoves(h, p, r) /\ pc[h] = "idle"
      BY <3>2, <3>3, BeginMoves DEF AdmInv, AdmAwaits
    <3>5. r.same = same
      BY <3>1
    <3>6. AdmCarries(p, r, mayWrite)
      BY <3>2, <3>5 DEF AdmCarries
    <3>7. AdmRequests'
      BY <1>2, <3>4, <3>6, RequestsAfter DEF AdmInv
    <3>8. h \notin Awaited /\ ~(p = "reply" /\ ~r.same)
      BY <3>2, <3>4, <3>5 DEF Awaited
    <3>9. oks \in Nat /\ inbox \in Nat
      BY DEF AdmInv, AdmRows
    <3>10. oks' \in Nat /\ inbox' \in Nat /\ inbox' >= inbox + 0 /\ oks' <= oks + 0
      BY <1>2, <3>9
    <3>11. OksMailed'
      <4>1. OksMailed /\ AdmRows /\ UNCHANGED <<brevo, ignored>>
        BY <1>2 DEF AdmInv
      <4>2. QED
        BY <3>4, <3>8, <3>10, <4>1, MailedAfter, SMTT(30)
    <3>12. QED
      BY <3>7, <3>11
  <2>2. CASE ~Admitted
    <3>1. UNCHANGED <<pc, local>>
      BY <1>2, <2>2 DEF AnswerAtOnce
    <3>2. QED
      BY <1>2, <3>1, RequestsStay, MailedStays DEF AdmInv
  <2>3. QED
    BY <2>1, <2>2
<1>6. QED
  BY <1>3, <1>4, <1>5 DEF AdmInv, Limits

LEMMA MailSupportKeeps ==
  ASSUME AdmInv, NEW h \in Handlers, MailSupport(h)
  PROVE  AdmInv'
<1>1. /\ pc[h] = "inbound" /\ inbox' = (IF brevo THEN inbox + 1 ELSE inbox) /\ Goto(h, "reply")
      /\ UNCHANGED <<now, standing, meter, redis, brevo, quota, admitted, asked, oks, ignored, restarts, overdue>>
  BY DEF MailSupport, Received
<1>2. AdmMoves(h, "reply", local[h])
  BY <1>1, GotoMoves DEF AdmInv, AdmAwaits
<1>3. local[h] \in [worker : Workers, same : BOOLEAN] /\ ~local[h].same
  BY <1>1 DEF AdmInv, AdmRequests, AdmCarries
<1>4. AdmRequests'
  <2>1. AdmCarries("reply", local[h], mayWrite)
    BY <1>3 DEF AdmCarries
  <2>2. QED
    BY <1>1, <1>2, <2>1, RequestsAfter DEF AdmInv
<1>5. /\ oks \in Nat /\ inbox \in Nat /\ ignored \in Nat /\ IsFiniteSet(Awaited)
      /\ brevo => oks + Cardinality(Awaited) <= inbox + ignored
  BY DEF AdmInv, AdmRows, OksMailed
<1>6. h \notin Awaited
  BY <1>1 DEF Awaited
<1>7. /\ IsFiniteSet(Awaited') /\ Cardinality(Awaited) \in Nat
      /\ Cardinality(Awaited') = Cardinality(Awaited) + 1
  BY <1>2, <1>3, <1>5, <1>6, AwaitedAfter
<1>8. OksMailed'
  <2>1. ASSUME brevo'
        PROVE  oks' + Cardinality(Awaited') <= inbox' + ignored'
    <3>1. inbox' = inbox + 1 /\ oks + Cardinality(Awaited) <= inbox + ignored
      BY <1>1, <1>5, <2>1
    <3>2. QED
      BY <1>1, <1>5, <1>7, <3>1
  <2>2. QED
    BY <1>7, <2>1 DEF OksMailed
<1>9. Consumed' /\ \A l \in Limits, v \in Workers : Counted(l, v)'
  BY <1>1, CountsStay
<1>9a. inbox' \in Nat
  BY <1>1, <1>5
<1>10. AdmRows'
  BY <1>1, <1>9a DEF AdmInv, AdmRows, Time, Days
<1>11. QED
  BY <1>4, <1>8, <1>9, <1>10 DEF AdmInv, Limits

LEMMA MailSenderKeeps ==
  ASSUME AdmInv, NEW h \in Handlers, MailSender(h)
  PROVE  AdmInv'
<1>1. /\ pc[h] = "reply" /\ Answer(h)
      /\ UNCHANGED <<now, standing, meter, redis, ignored, brevo, quota, admitted, asked, restarts, overdue>>
  BY DEF MailSender
<1>2. local[h] \in [worker : Workers, same : BOOLEAN]
  BY <1>1 DEF AdmInv, AdmRequests, AdmCarries
<1>3. PICK same \in BOOLEAN : same = local[h].same
  BY <1>2
<1>4. PICK fails \in BOOLEAN :
        /\ inbox' = IF same /\ ~fails THEN Received(inbox) ELSE inbox
        /\ oks' = IF same /\ fails THEN oks ELSE oks + 1
  BY <1>3 DEF MailSender, AdmInv, AdmRows
<1>4a. (brevo => Received(inbox) = inbox + 1) /\ (~brevo => Received(inbox) = inbox)
  BY DEF Received
<1>5. AdmMoves(h, "idle", Nothing) /\ AdmCarries("idle", Nothing, mayWrite)
  BY <1>1, AnswerMoves DEF AdmInv, AdmCarries
<1>6. AdmRequests'
  BY <1>1, <1>5, RequestsAfter DEF AdmInv
<1>7. /\ oks \in Nat /\ inbox \in Nat /\ ignored \in Nat /\ IsFiniteSet(Awaited)
      /\ brevo => oks + Cardinality(Awaited) <= inbox + ignored
  BY DEF AdmInv, AdmRows, OksMailed
<1>8. oks' \in Nat /\ inbox' \in Nat
  <2>1. Received(inbox) \in Nat
    BY <1>7 DEF Received
  <2>2. QED
    BY <1>4, <1>7, <2>1
<1>9. OksMailed'
  <2>1. CASE same
    <3>1. h \notin Awaited
      BY <1>3, <2>1 DEF Awaited
    <3>2. PICK n \in Nat : brevo => inbox' >= inbox + n /\ oks' <= oks + n
      <4>1. CASE ~fails
        <5>1. brevo => inbox' >= inbox + 1 /\ oks' <= oks + 1
          BY <1>4, <1>4a, <1>7, <2>1, <4>1
        <5>2. QED
          BY <5>1
      <4>2. CASE fails
        <5>1. brevo => inbox' >= inbox + 0 /\ oks' <= oks + 0
          BY <1>4, <1>7, <2>1, <4>2
        <5>2. QED
          BY <5>1
      <4>3. QED
        BY <4>1, <4>2
    <3>3. QED
      BY <1>1, <1>5, <1>8, <3>1, <3>2, MailedAfter DEF AdmInv
\* Its mail is there already, and it is awaited no more.
  <2>2. CASE ~same
    <3>1. h \in Awaited
      BY <1>1, <1>3, <2>2 DEF Awaited
    <3>2. /\ IsFiniteSet(Awaited') /\ Cardinality(Awaited) \in Nat
          /\ Cardinality(Awaited') = Cardinality(Awaited) - 1 /\ Cardinality(Awaited') \in Nat
      BY <1>5, <1>7, <3>1, AwaitedAfter
    <3>3. inbox' = inbox /\ oks' = oks + 1
      BY <1>4, <2>2
    <3>4. ASSUME brevo'
          PROVE  oks' + Cardinality(Awaited') <= inbox' + ignored'
      <4>1. oks + Cardinality(Awaited) <= inbox + ignored
        BY <1>1, <1>7, <3>4
      <4>2. QED
        BY <1>1, <1>7, <3>2, <3>3, <4>1
    <3>5. QED
      BY <3>2, <3>4 DEF OksMailed
  <2>3. QED
    BY <2>1, <2>2
<1>10. Consumed' /\ \A l \in Limits, v \in Workers : Counted(l, v)'
  BY <1>1, CountsStay
<1>11. AdmRows'
  BY <1>1, <1>8 DEF AdmInv, AdmRows, Time, Days
<1>12. QED
  BY <1>6, <1>9, <1>10, <1>11 DEF AdmInv, Limits

LEMMA TickKeeps ==
  ASSUME AdmInv, Tick
  PROVE  AdmInv'
<1>1. /\ now < MaxTime /\ now' = now + 1
      /\ UNCHANGED <<standing, meter, redis, quota, brevo, inbox, admitted, asked, oks, ignored, restarts, overdue, pc, local>>
  BY DEF Tick, handlerVars, mailVars
<1>2. now' \in Time /\ now <= now'
  BY <1>1, AdmissionAssumption DEF AdmInv, AdmRows, Time
<1>3. AdmRequests' /\ OksMailed' /\ Consumed' /\ \A l \in Limits, v \in Workers : Counted(l, v)'
  BY <1>1, <1>2, RequestsStay, MailedStays, QuotaStays, CountersStay DEF AdmInv
<1>4. AdmRows'
  BY <1>1, <1>2 DEF AdmInv, AdmRows, Time, Days
<1>5. QED
  BY <1>3, <1>4 DEF AdmInv, Limits

LEMMA AdmissionFailKeeps ==
  ASSUME AdmInv, NEW h \in Handlers, AdmissionFail(h)
  PROVE  AdmInv'
<1>1. /\ inbox' \in {inbox, Received(inbox)} /\ Answer(h)
      /\ UNCHANGED <<now, standing, meter, redis, brevo, quota, admitted, asked, oks, ignored, restarts, overdue>>
  BY DEF AdmissionFail
<1>2. AdmMoves(h, "idle", Nothing) /\ AdmCarries("idle", Nothing, mayWrite)
  BY <1>1, AnswerMoves DEF AdmInv, AdmCarries
<1>3. AdmRequests'
  BY <1>1, <1>2, RequestsAfter DEF AdmInv
<1>4. /\ oks \in Nat /\ inbox \in Nat /\ ignored \in Nat /\ IsFiniteSet(Awaited)
      /\ brevo => oks + Cardinality(Awaited) <= inbox + ignored
  BY DEF AdmInv, AdmRows, OksMailed
<1>8. inbox' \in Nat
  BY <1>1, <1>4 DEF Received
<1>5. /\ IsFiniteSet(Awaited') /\ Cardinality(Awaited) \in Nat /\ Cardinality(Awaited') \in Nat
      /\ Cardinality(Awaited') <= Cardinality(Awaited)
  BY <1>2, <1>4, AwaitedAfter
<1>6. OksMailed'
  <2>1. ASSUME brevo'
        PROVE  oks' + Cardinality(Awaited') <= inbox' + ignored'
    <3>1. oks + Cardinality(Awaited) <= inbox + ignored /\ brevo
      BY <1>1, <1>4, <2>1
    <3>2. inbox' >= inbox
      BY <1>1, <1>4, <1>8, <3>1 DEF Received
    <3>3. QED
      BY <1>1, <1>4, <1>5, <1>8, <3>1, <3>2
  <2>2. QED
    BY <1>5, <2>1 DEF OksMailed
<1>7. Consumed' /\ \A l \in Limits, v \in Workers : Counted(l, v)'
  BY <1>1, CountsStay
<1>9. AdmRows'
  BY <1>1, <1>8 DEF AdmInv, AdmRows, Time, Days
<1>10. QED
  BY <1>3, <1>6, <1>7, <1>9 DEF AdmInv, Limits

LEMMA AdmRestartKeeps ==
  ASSUME AdmInv, NEW w \in Workers, Restart(w)
  PROVE  AdmInv'
<1>1. /\ restarts' = [restarts EXCEPT ![w] = @ + 1]
      /\ meter' = [m \in DOMAIN meter |-> IF m[2] = w THEN Unused ELSE meter[m]]
      /\ quota' = [q \in DOMAIN quota |-> IF q[1] = w THEN 0 ELSE quota[q]]
      /\ UNCHANGED <<now, standing, redis, brevo, inbox, admitted, asked, oks, ignored, overdue>>
  BY DEF Restart, mailVars
<1>2. PICK dead : dead = {h \in InFlight : local[h].worker = w}
  OBVIOUS
<1>3. /\ pc' = [h \in Handlers |-> IF h \in dead THEN "idle" ELSE pc[h]]
      /\ local' = [h \in Handlers |-> IF h \in dead THEN Nothing ELSE local[h]]
  BY <1>2 DEF Restart
<1>4. AdmRows /\ Most \in Nat
  BY AdmissionAssumption DEF AdmInv
<1>5. Unused \in [hits : Nat, reset : Nat]
  BY DEF Unused
<1>6. restarts' \in [Workers -> Nat] /\ restarts'[w] = restarts[w] + 1
      /\ \A v \in Workers : v # w => restarts'[v] = restarts[v]
  BY <1>1, <1>4 DEF AdmRows
<1>7. /\ \A l \in Limits, v \in Workers : meter'[<<l, v>>] = IF v = w THEN Unused ELSE meter[<<l, v>>]
      /\ DOMAIN meter' = Limits \X Workers
  BY <1>1, <1>4 DEF AdmRows
<1>8. meter' \in [Limits \X Workers -> [hits : Nat, reset : Nat]]
  BY <1>1, <1>4, <1>5 DEF AdmRows
<1>9. /\ \A v \in Workers \cup {None}, d \in Days : quota'[<<v, d>>] = IF v = w THEN 0 ELSE quota[<<v, d>>]
      /\ quota' \in [(Workers \cup {None}) \X Days -> Nat]
  BY <1>1, <1>4 DEF AdmRows
<1>10. AdmRows'
  BY <1>1, <1>4, <1>6, <1>8, <1>9 DEF AdmRows, Time, Days
<1>11. ASSUME NEW l \in Limits, NEW v \in Workers
       PROVE  Counted(l, v)'
  <2>1. Counted(l, v)
    BY DEF AdmInv
  <2>2. CASE v = w
    <3>1. meter'[<<l, v>>] = Unused /\ restarts'[v] = restarts[v] + 1 /\ UNCHANGED <<now, admitted>>
      BY <1>1, <1>6, <1>7, <2>2
    <3>2. QED
      BY <1>4, <2>1, <3>1, RestartKeeps
  <2>3. CASE v # w
    <3>1. meter'[<<l, v>>] = meter[<<l, v>>] /\ restarts'[v] = restarts[v]
      BY <1>6, <1>7, <2>3
    <3>2. now' \in Time /\ now <= now'
      BY <1>1, <1>4 DEF AdmRows, Time
    <3>3. \A u \in Time : admitted'[<<l, v, u>>] = admitted[<<l, v, u>>]
      BY <1>1
    <3>4. QED
      BY <1>4, <2>1, <3>1, <3>2, <3>3, CountedStays
  <2>4. QED
    BY <2>2, <2>3
<1>12. Consumed'
  <2>1. ASSUME NEW d \in Days, redis
        PROVE  Asked(Workers, d)' <= Least(quota'[<<None, d>>], Most)
    <3>1. Asked(Workers, d) <= Least(quota[<<None, d>>], Most)
      BY <2>1 DEF AdmInv, Consumed
    <3>2. quota'[<<None, d>>] = quota[<<None, d>>]
      BY <1>9, AdmissionAssumption
    <3>3. Asked(Workers, d)' = Asked(Workers, d)
      BY <1>1 DEF Asked
    <3>4. QED
      BY <3>1, <3>2, <3>3
  <2>2. ASSUME NEW d \in Days, ~redis, NEW v \in Workers
        PROVE  asked'[<<v, d>>] <= Least(quota'[<<v, d>>], Most) + Most * restarts'[v]
    <3>1. asked[<<v, d>>] <= Least(quota[<<v, d>>], Most) + Most * restarts[v]
      BY <2>2 DEF AdmInv, Consumed
    <3>2. PICK past \in Nat : past = Most * restarts[v]
      BY <1>4 DEF AdmRows
    <3>3. asked'[<<v, d>>] = asked[<<v, d>>] /\ asked[<<v, d>>] \in Nat /\ quota[<<v, d>>] \in Nat
      BY <1>1, <1>4 DEF AdmRows
    <3>4. CASE v = w
      <4>1. restarts[v] \in Nat /\ restarts'[v] = restarts[v] + 1
        BY <1>4, <1>6, <3>4 DEF AdmRows
      <4>2. Most * restarts'[v] = past + Most
        BY <1>4, <3>2, <4>1
      <4>3. quota'[<<v, d>>] = 0
        BY <1>9, <3>4
      <4>4. Least(quota'[<<v, d>>], Most) = 0 /\ Least(quota[<<v, d>>], Most) <= Most
            /\ Least(quota[<<v, d>>], Most) \in Nat
        BY <1>4, <3>3, <4>3 DEF Least
      <4>5. QED
        BY <1>4, <3>1, <3>2, <3>3, <4>2, <4>4
    <3>5. CASE v # w
      <4>1. restarts'[v] = restarts[v] /\ quota'[<<v, d>>] = quota[<<v, d>>]
        BY <1>6, <1>9, <3>5
      <4>2. QED
        BY <3>1, <3>3, <4>1
    <3>6. QED
      BY <3>4, <3>5
  <2>3. Days' = Days /\ redis' = redis
    BY <1>1 DEF Days
  <2>4. QED
    BY <2>1, <2>2, <2>3 DEF Consumed
<1>13. AdmRequests'
  <2>1. mayWrite' = mayWrite
    BY <1>1 DEF mayWrite, canUseProduct
  <2>2. pc' \in [Handlers -> AdmAwaits \cup {"idle"}] /\ DOMAIN local' = Handlers
    BY <1>3 DEF AdmInv, AdmRequests
  <2>3. ASSUME NEW g \in Handlers
        PROVE  AdmCarries(pc'[g], local'[g], mayWrite)
    <3>1. AdmCarries(pc[g], local[g], mayWrite)
      BY DEF AdmInv, AdmRequests
    <3>2. AdmCarries("idle", Nothing, mayWrite)
      BY DEF AdmCarries
    <3>3. CASE g \in dead
      <4>1. pc'[g] = "idle" /\ local'[g] = Nothing
        BY <1>3, <3>3
      <4>2. QED
        BY <3>2, <4>1
    <3>4. CASE g \notin dead
      <4>1. pc'[g] = pc[g] /\ local'[g] = local[g]
        BY <1>3, <3>4
      <4>2. QED
        BY <3>1, <4>1
    <3>5. QED
      BY <3>3, <3>4
  <2>4. QED
    BY <2>1, <2>2, <2>3 DEF AdmRequests
<1>14. OksMailed'
  <2>1. Awaited' \subseteq Awaited
    BY <1>3 DEF Awaited
  <2>2. PICK Q : Q = Awaited
    OBVIOUS
  <2>3. PICK Q2 : Q2 = Awaited'
    OBVIOUS
  <2>4. /\ IsFiniteSet(Q) /\ oks \in Nat /\ inbox \in Nat /\ ignored \in Nat
        /\ brevo => oks + Cardinality(Q) <= inbox + ignored
    BY <2>2 DEF AdmInv, AdmRows, OksMailed
  <2>5. IsFiniteSet(Q2) /\ Cardinality(Q2) <= Cardinality(Q) /\ Cardinality(Q) \in Nat /\ Cardinality(Q2) \in Nat
    BY <2>1, <2>2, <2>3, <2>4, FS_Subset, FS_CardinalityType
  <2>6. brevo => oks + Cardinality(Q2) <= inbox + ignored
    BY <2>4, <2>5
  <2>7. QED
    BY <1>1, <2>3, <2>5, <2>6 DEF OksMailed
<1>15. QED
  BY <1>10, <1>11, <1>12, <1>13, <1>14 DEF AdmInv, Limits

LEMMA AdmStarts ==
  ASSUME AdmissionInit, RequestsInit
  PROVE  AdmInv
<1>1. /\ now = 0 /\ standing = "trial" /\ redis \in BOOLEAN /\ brevo \in BOOLEAN
      /\ meter = [m \in Limits \X Workers |-> Unused]
      /\ quota = [q \in (Workers \cup {None}) \X Days |-> 0]
      /\ admitted = [a \in Limits \X Workers \X Time |-> 0]
      /\ asked = [a \in Workers \X Days |-> 0]
      /\ inbox = 0 /\ oks = 0 /\ ignored = 0 /\ restarts = [w \in Workers |-> 0] /\ overdue = FALSE
  BY DEF AdmissionInit, Limits
<1>2. pc = [h \in Handlers |-> "idle"] /\ local = [h \in Handlers |-> Nothing]
  BY DEF RequestsInit
<1>3. Most \in Nat /\ Most >= 1
  BY AdmissionAssumption
<1>4. AdmRows
  <2>1. 0 \in Time
    BY AdmissionAssumption DEF Time
  <2>2. Unused \in [hits : Nat, reset : Nat]
    BY DEF Unused
  <2>3. QED
    BY <1>1, <2>1, <2>2 DEF AdmRows, Standings
<1>5. AdmRequests
  BY <1>2 DEF AdmRequests, AdmCarries
<1>6. OksMailed
  <2>1. Awaited = {}
    BY <1>2 DEF Awaited
  <2>2. IsFiniteSet(Awaited) /\ Cardinality(Awaited) = 0
    BY <2>1, FS_EmptySet
  <2>3. QED
    BY <1>1, <2>2 DEF OksMailed
<1>7. Consumed
  <2>1. ASSUME NEW d \in Days, redis
        PROVE  Asked(Workers, d) <= Least(quota[<<None, d>>], Most)
    <3> DEFINE f == [w \in Workers |-> asked[<<w, d>>]]
    <3>1. \A w \in Workers : f[w] = 0
      BY <1>1
    <3>2. Asked(Workers, d) = SumFunctionOnSet(f, Workers)
      BY DEF Asked
    <3> HIDE DEF f
    <3>3. Asked(Workers, d) = 0
      BY <3>1, <3>2, AdmissionAssumption, SumZero
    <3>4. quota[<<None, d>>] = 0
      BY <1>1
    <3>5. QED
      BY <1>3, <3>3, <3>4 DEF Least
  <2>2. ASSUME NEW d \in Days, NEW v \in Workers
        PROVE  asked[<<v, d>>] <= Least(quota[<<v, d>>], Most) + Most * restarts[v]
    <3>1. asked[<<v, d>>] = 0 /\ quota[<<v, d>>] = 0 /\ restarts[v] = 0
      BY <1>1
    <3>2. QED
      BY <1>3, <3>1 DEF Least
  <2>3. QED
    BY <2>1, <2>2 DEF Consumed
<1>8. ASSUME NEW l \in Limits, NEW w \in Workers
      PROVE  Counted(l, w)
  <2>1. \A u \in Time : admitted[<<l, w, u>>] = 0
    BY <1>1
  <2>2. \A t \in Time : Through(l, w, t) = 0
    <3>1. TAKE t \in Time
    <3> DEFINE f == [u \in Span(t) |-> admitted[<<l, w, u>>]]
    <3>2. \A u \in Span(t) : f[u] = 0
      BY <2>1 DEF Span
    <3>3. Through(l, w, t) = SumFunctionOnSet(f, Span(t))
      BY DEF Through
    <3> HIDE DEF f
    <3>4. QED
      BY <3>2, <3>3, SpanIsFinite, SumZero
  <2>3. meter[<<l, w>>].hits = 0 /\ meter[<<l, w>>].reset = 0 /\ restarts[w] = 0
    BY <1>1 DEF Unused
  <2>4. Most * restarts[w] = 0
    BY <1>3, <2>3
  <2>5. QED
    BY <1>3, <2>1, <2>2, <2>3, <2>4 DEF Counted
<1>9. QED
  BY <1>4, <1>5, <1>6, <1>7, <1>8 DEF AdmInv

LEMMA AdmStandsStill ==
  ASSUME AdmInv, UNCHANGED <<admissionVars, handlerVars>>
  PROVE  AdmInv'
<1>1. UNCHANGED <<now, standing, meter, redis, quota, brevo, inbox, admitted, asked, oks, ignored, restarts, overdue, pc, local>>
  BY DEF admissionVars, handlerVars
<1>2. now \in Time /\ now <= now
  BY DEF AdmInv, AdmRows, Time
<1>3. AdmRequests' /\ OksMailed' /\ Consumed' /\ \A l \in Limits, v \in Workers : Counted(l, v)'
  BY <1>1, <1>2, RequestsStay, MailedStays, CountsStay DEF AdmInv
<1>4. AdmRows'
  BY <1>1 DEF AdmInv, AdmRows, Time, Days
<1>5. QED
  BY <1>3, <1>4 DEF AdmInv, Limits

LEMMA AdmStep ==
  ASSUME AdmInv, AdmissionNext
  PROVE  AdmInv'
<1>1. CASE StandingChange \/ IgnoreContact \/ Tick
  BY <1>1, StandingChangeKeeps, IgnoreContactKeeps, TickKeeps
<1>2. CASE \E w \in Workers : Read(w) \/ Restart(w)
  BY <1>2, ReadKeeps, AdmRestartKeeps
<1>3. ASSUME NEW h \in Handlers,
             \/ Write(h) \/ requireProductAccess(h) \/ Serve(h)
             \/ AskJenna(h) \/ Expire(h) \/ Chat(h)
             \/ SubmitContact(h) \/ MailSupport(h) \/ MailSender(h)
             \/ AdmissionFail(h)
      PROVE  AdmInv'
  BY <1>3, WriteKeeps, requireProductAccessKeeps, ServeKeeps, AskJennaKeeps, ExpireKeeps, ChatKeeps,
     SubmitContactKeeps, MailSupportKeeps, MailSenderKeeps, AdmissionFailKeeps
<1>4. QED
  BY <1>1, <1>2, <1>3 DEF AdmissionNext

LEMMA AdmissionIsBounded ==
  ASSUME AdmInv
  PROVE  AdmissionsBounded
<1>1. AdmRows /\ Most \in Nat /\ Most >= 1
  BY AdmissionAssumption DEF AdmInv
<1>2. ASSUME NEW m \in DOMAIN meter, NEW t \in Time
      PROVE  Through(m[1], m[2], t) <= 2 * Most - 1 + Most * restarts[m[2]]
  <2>1. m[1] \in Limits /\ m[2] \in Workers
    BY <1>1 DEF AdmRows
  <2>2. PICK l \in Limits : l = m[1]
    BY <2>1
  <2>3. PICK w \in Workers : w = m[2]
    BY <2>1
  <2>4. Counted(l, w)
    BY DEF AdmInv
  <2>5. Through(l, w, t) <= 2 * Most - 1 + Most * restarts[w]
    BY <2>4 DEF Counted
  <2>6. QED
    BY <2>2, <2>3, <2>5
<1>3. ASSUME NEW d \in Days, redis
      PROVE  Asked(Workers, d) <= Most
  <2>1. Asked(Workers, d) <= Least(quota[<<None, d>>], Most)
    BY <1>3 DEF AdmInv, Consumed
  <2>2. quota[<<None, d>>] \in Nat
    BY <1>1 DEF AdmRows
  <2> DEFINE f == [w \in Workers |-> asked[<<w, d>>]]
  <2>3. Asked(Workers, d) = SumFunctionOnSet(f, Workers) /\ \A w \in Workers : f[w] \in Int
    BY <1>1 DEF Asked, AdmRows
  <2> HIDE DEF f
  <2>4. Asked(Workers, d) \in Int
    BY <2>3, AdmissionAssumption, SumType
  <2>5. QED
    BY <1>1, <2>1, <2>2, <2>4 DEF Least
<1>4. ASSUME NEW d \in Days, ~redis, NEW w \in Workers
      PROVE  Asked({w}, d) <= Most * (1 + restarts[w])
  <2>1. asked[<<w, d>>] <= Least(quota[<<w, d>>], Most) + Most * restarts[w]
    BY <1>4 DEF AdmInv, Consumed
  <2>2. quota[<<w, d>>] \in Nat /\ asked[<<w, d>>] \in Nat /\ restarts[w] \in Nat
    BY <1>1 DEF AdmRows
  <2> DEFINE f == [v \in {w} |-> asked[<<v, d>>]]
  <2>3. Asked({w}, d) = SumFunctionOnSet(f, {w}) /\ f[w] = asked[<<w, d>>]
    BY DEF Asked
  <2> HIDE DEF f
  <2>4. Asked({w}, d) = asked[<<w, d>>]
    <3>1. f[w] \in Int
      BY <2>2, <2>3
    <3>2. SumFunctionOnSet(f, {w}) = f[w]
      BY <3>1, SumOfOne
    <3>3. QED
      BY <2>3, <3>2
  <2>5. PICK past \in Nat : past = Most * restarts[w]
    BY <1>1, <2>2
  <2>6. Most * (1 + restarts[w]) = Most + past
    BY <1>1, <2>2, <2>5
  <2>7. QED
    BY <1>1, <2>1, <2>2, <2>4, <2>5, <2>6 DEF Least
<1>5. brevo => oks <= inbox + ignored
  <2>1. /\ oks \in Nat /\ inbox \in Nat /\ ignored \in Nat /\ IsFiniteSet(Awaited)
        /\ brevo => oks + Cardinality(Awaited) <= inbox + ignored
    BY DEF AdmInv, AdmRows, OksMailed
  <2>2. Cardinality(Awaited) \in Nat
    BY <2>1, FS_CardinalityType
  <2>3. QED
    BY <2>1, <2>2
<1>6. ~overdue
  BY <1>1 DEF AdmRows
<1>7. QED
  BY <1>2, <1>3, <1>4, <1>5, <1>6 DEF AdmissionsBounded

\* With any number of workers, any limit, window and length of time, restarts and all:
\* the rate limits and Jenna's quota let no more through than they allow, an answer ok
\* has its mail where mail is configured and the honeypot empty, and no write is served
\* to a dealership that is found and may not use the product (HybridRateLimitStore,
\* assertAndConsumeJennaQuota, submitContact, requireProductAccess).
THEOREM AdmissionsAreBounded == AdmissionSpec => []AdmissionsBounded
<1>1. AdmissionInit /\ RequestsInit => AdmInv
  BY AdmStarts
<1>2. AdmInv /\ [AdmissionNext]_<<admissionVars, handlerVars>> => AdmInv'
  BY AdmStep, AdmStandsStill
<1>3. AdmInv => AdmissionsBounded
  BY AdmissionIsBounded
<1>4. QED
  BY <1>1, <1>2, <1>3, PTL DEF AdmissionSpec

-----------------------------------------------------------------------------
(* Payroll: its inductive invariant.                                       *)

Persons == {"staff", "rep"} \X StaffEmails
RowType == [id : Nat, who : Persons, terms : Terms, gone : BOOLEAN]
PlainItem == [row : Nat, who : Persons \cup {None}, amount : Nat]
SignedItem == [by : Nat, row : Nat, who : Persons \cup {None}, amount : Nat]
RunType == [id : Nat \X Nat, date : Nat, auto : BOOLEAN, status : {"draft", "paid"},
            items : SUBSET SignedItem, total : {Total(items) : items \in SUBSET SignedItem}]
PaidOnce(items) == \A i, j \in items : i.who = j.who => i = j \/ i.who \in rushed \cup {None}

\* What a request about a member of staff or a sales rep carries: the look for
\* its email, or an overlapping request, says that nobody else has it.
StaffCarries(p, r) ==
  /\ p = "staff" => /\ r \in [who : {"staff"} \X StaffEmails, id : Nat, terms : Terms]
                    /\ r.who \in rushed \/ \A s \in rows : s.who = r.who /\ ~s.gone => s.id = r.id
  /\ p = "rep" => r \in [who : {"rep"} \X StaffEmails, id : Nat, terms : Terms]
StaffSide ==
  /\ rows \subseteq RowType /\ IsFiniteSet(rows)
  /\ \A r, s \in rows : r.who = s.who /\ ~r.gone /\ ~s.gone => r = s \/ r.who \in rushed
  /\ \A r, s \in rows : r.who = s.who /\ r.who[1] = "rep" => r = s
  /\ \A g \in Handlers : StaffCarries(pc[g], local[g])
  /\ \A g, k \in Handlers : g # k /\ pc[g] = "staff" /\ pc[k] = "staff" /\ local[g].who = local[k].who =>
       local[g].who \in rushed

\* What a request about runs carries.
RunCarries(p, r) ==
  /\ p = "persist" =>
       /\ {"dates", "people", "no"} \subseteq DOMAIN r /\ r.no \in Nat /\ r.no <= begun /\ r.dates \subseteq 1..Weeks
       /\ \A d \in r.dates :
            /\ r.people[d] \subseteq PlainItem /\ IsFiniteSet(r.people[d]) /\ PaidOnce(r.people[d])
            /\ \A s \in runs : (s.auto /\ s.date = d => d \in doubled) /\ s.id # <<r.no, d>>
  /\ p \in {"updateRun", "newItems", "deleteRun"} =>
       "run" \in DOMAIN r /\ r.run \in Nat \X Nat /\ r.run[1] <= begun
  /\ p \in {"updateRun", "newItems"} =>
       {"payload", "no"} \subseteq DOMAIN r /\ r.payload \in Payloads /\ r.no \in Nat
  /\ p = "newItems" =>
       /\ "seen" \in DOMAIN r /\ r.payload.items # None
       /\ r.run \in torn \/ \A s \in runs : s.id = r.run => s.items \subseteq r.seen
  /\ p = "deleteRun" => \A s \in runs : s.id = r.run /\ s.status = "paid" => r.run \in torn
\* What two requests about runs carry.
RunsApart(p, r, q, s) ==
  /\ p = "persist" /\ q = "persist" => r.no # s.no /\ r.dates \cap s.dates \subseteq doubled
  /\ p = "persist" /\ q \in {"updateRun", "newItems", "deleteRun"} => \A d \in r.dates : s.run # <<r.no, d>>
  /\ p = "newItems" /\ q = "newItems" /\ r.run = s.run => r.run \in torn
RunSide ==
  /\ begun \in Nat /\ runs \subseteq RunType
  /\ \A r, s \in runs : r.id = s.id => r = s
  /\ \A r, s \in runs : r.auto /\ s.auto /\ r.date = s.date => r = s \/ r.date \in doubled
  /\ \A r \in runs : r.id[1] <= begun /\ (r.total = Total(r.items) \/ r.id \in torn) /\ PaidOnce(r.items)
  /\ erased \subseteq torn
  /\ \A g \in Handlers : RunCarries(pc[g], local[g])
  /\ \A g, k \in Handlers : g # k => RunsApart(pc[g], local[g], pc[k], local[k])

PayAwaits == {"staff", "rep", "persist", "updateRun", "newItems", "deleteRun"}
PayInv ==
  /\ pc \in [Handlers -> PayAwaits \cup {"idle"}] /\ DOMAIN local = Handlers
  /\ StaffSide /\ RunSide

\* Handler h moves to await p, carrying r.
PayMoves(h, p, r) ==
  /\ pc' \in [Handlers -> PayAwaits \cup {"idle"}] /\ DOMAIN local' = Handlers
  /\ \A g \in Handlers : pc'[g] = IF g = h THEN p ELSE pc[g]
  /\ \A g \in Handlers : local'[g] = IF g = h THEN r ELSE local[g]

LEMMA PayBegins ==
  ASSUME PayInv, NEW h \in Handlers, NEW p \in PayAwaits, NEW r, Begin(h, p, r)
  PROVE  PayMoves(h, p, r) /\ pc[h] = "idle" /\ begun' = begun + 1 /\ begun' \in Nat
BY DEF PayInv, RunSide, Begin, PayMoves

LEMMA PayAnswers ==
  ASSUME PayInv, NEW h \in Handlers, Answer(h)
  PROVE  PayMoves(h, "idle", Nothing) /\ begun' = begun /\ begun' \in Nat
BY DEF PayInv, RunSide, Answer, PayMoves

\* The requests of the other kind go on.
LEMMA StaffSideStays ==
  ASSUME PayInv, rows' = rows, rushed' = rushed,
         \A g \in Handlers : (pc'[g] = pc[g] /\ local'[g] = local[g]) \/ pc'[g] \notin {"staff", "rep"}
  PROVE  StaffSide'
<1>1. StaffSide
  BY DEF PayInv
<1>2. ASSUME NEW g \in Handlers
      PROVE  StaffCarries(pc[g], local[g])'
  <2>1. PICK p, r : p = pc'[g] /\ r = local'[g]
    OBVIOUS
  <2>2. StaffCarries(p, r)
    <3>1. CASE pc'[g] = pc[g] /\ local'[g] = local[g]
      BY <1>1, <2>1, <3>1 DEF StaffSide
    <3>2. CASE pc'[g] \notin {"staff", "rep"}
      BY <2>1, <3>2 DEF StaffCarries
    <3>3. QED
      BY <3>1, <3>2
  <2>3. QED
    BY <2>1, <2>2 DEF StaffCarries
<1>3. QED
  BY <1>1, <1>2 DEF StaffSide

LEMMA RunSideStays ==
  ASSUME PayInv, UNCHANGED <<runs, doubled, torn, erased>>, begun' \in Nat, begun <= begun', rushed \subseteq rushed',
         \A g \in Handlers : (pc'[g] = pc[g] /\ local'[g] = local[g]) \/ pc'[g] \in {"staff", "rep", "idle"}
  PROVE  RunSide'
<1>1. RunSide /\ begun \in Nat
  BY DEF PayInv, RunSide
<1>2. ASSUME NEW items, PaidOnce(items)
      PROVE  PaidOnce(items)'
  BY <1>2 DEF PaidOnce
<1>3. ASSUME NEW n \in Nat, n <= begun
      PROVE  n <= begun'
  BY <1>1, <1>3
<1>4. ASSUME NEW g \in Handlers
      PROVE  RunCarries(pc[g], local[g])'
  <2>1. PICK p, r : p = pc'[g] /\ r = local'[g]
    OBVIOUS
  <2>2. RunCarries(p, r)
    <3>1. CASE pc'[g] = pc[g] /\ local'[g] = local[g]
      BY <1>1, <2>1, <3>1 DEF RunSide
    <3>2. CASE pc'[g] \in {"staff", "rep", "idle"}
      BY <2>1, <3>2 DEF RunCarries
    <3>3. QED
      BY <3>1, <3>2
  <2>3. p = "persist" =>
          /\ {"dates", "people", "no"} \subseteq DOMAIN r /\ r.no \in Nat /\ r.no <= begun' /\ r.dates \subseteq 1..Weeks
          /\ \A d \in r.dates :
               /\ r.people[d] \subseteq PlainItem /\ IsFiniteSet(r.people[d]) /\ PaidOnce(r.people[d])'
               /\ \A s \in runs : (s.auto /\ s.date = d => d \in doubled) /\ s.id # <<r.no, d>>
    BY <1>2, <1>3, <2>2 DEF RunCarries
  <2>4. p \in {"updateRun", "newItems", "deleteRun"} =>
          "run" \in DOMAIN r /\ r.run \in Nat \X Nat /\ r.run[1] <= begun'
    BY <1>3, <2>2 DEF RunCarries
  <2>5. QED
    BY <2>1, <2>2, <2>3, <2>4 DEF RunCarries, PaidOnce
<1>5. ASSUME NEW g \in Handlers, NEW k \in Handlers, g # k
      PROVE  RunsApart(pc[g], local[g], pc[k], local[k])'
  <2>1. PICK p, r : p = pc'[g] /\ r = local'[g]
    OBVIOUS
  <2>2. PICK q, s : q = pc'[k] /\ s = local'[k]
    OBVIOUS
  <2>3. RunsApart(p, r, q, s)
    <3>1. CASE p \in {"staff", "rep", "idle"} \/ q \in {"staff", "rep", "idle"}
      BY <3>1 DEF RunsApart
    <3>2. CASE ~(p \in {"staff", "rep", "idle"} \/ q \in {"staff", "rep", "idle"})
      <4>1. p = pc[g] /\ r = local[g] /\ q = pc[k] /\ s = local[k]
        BY <2>1, <2>2, <3>2
      <4>2. QED
        BY <1>1, <1>5, <4>1 DEF RunSide
    <3>3. QED
      BY <3>1, <3>2
  <2>4. QED
    BY <2>1, <2>2, <2>3 DEF RunsApart
<1>6. ASSUME NEW r \in runs
      PROVE  r.id[1] <= begun' /\ (r.total = Total(r.items) \/ r.id \in torn) /\ PaidOnce(r.items)'
  <2>1. r.id[1] \in Nat /\ r.id[1] <= begun /\ (r.total = Total(r.items) \/ r.id \in torn) /\ PaidOnce(r.items)
    BY <1>1 DEF RunSide, RunType
  <2>2. QED
    BY <1>2, <1>3, <2>1
<1>7. QED
  BY <1>1, <1>4, <1>5, <1>6 DEF RunSide, PaidOnce

LEMMA StaffSideAfter ==
  ASSUME PayInv, NEW h \in Handlers, NEW p, NEW r, PayMoves(h, p, r), rushed \subseteq rushed',
         rows' \subseteq RowType, IsFiniteSet(rows'),
         \A a, b \in rows' : a.who = b.who /\ ~a.gone /\ ~b.gone => a = b \/ a.who \in rushed',
         \A a, b \in rows' : a.who = b.who /\ a.who[1] = "rep" => a = b,
         p = "staff" => /\ r \in [who : {"staff"} \X StaffEmails, id : Nat, terms : Terms]
                        /\ r.who \in rushed' \/ \A s \in rows' : s.who = r.who /\ ~s.gone => s.id = r.id,
         p = "rep" => r \in [who : {"rep"} \X StaffEmails, id : Nat, terms : Terms],
         \A g \in Handlers \ {h} : pc[g] = "staff" =>
           local[g].who \in rushed' \/ \A s \in rows' : s.who = local[g].who /\ ~s.gone => s.id = local[g].id,
         \A g \in Handlers \ {h} : pc[g] = "staff" /\ p = "staff" /\ local[g].who = r.who => r.who \in rushed'
  PROVE  StaffSide'
<1>1. StaffSide
  BY DEF PayInv
<1>2. ASSUME NEW g \in Handlers
      PROVE  StaffCarries(pc[g], local[g])'
  <2>1. CASE g = h
    <3>1. pc'[g] = p /\ local'[g] = r
      BY <2>1 DEF PayMoves
    <3>2. QED
      BY <3>1 DEF StaffCarries
  <2>2. CASE g # h
    <3>1. pc'[g] = pc[g] /\ local'[g] = local[g]
      BY <2>2 DEF PayMoves
    <3>2. StaffCarries(pc[g], local[g])
      BY <1>1 DEF StaffSide
    <3>3. g \in Handlers \ {h}
      BY <2>2
    <3>4. QED
      BY <3>1, <3>2, <3>3 DEF StaffCarries
  <2>3. QED
    BY <2>1, <2>2
<1>3. ASSUME NEW g \in Handlers, NEW k \in Handlers, g # k, pc'[g] = "staff", pc'[k] = "staff", local'[g].who = local'[k].who
      PROVE  local'[g].who \in rushed'
  <2>1. CASE g = h
    <3>1. p = "staff" /\ r.who = local[k].who /\ pc[k] = "staff" /\ local'[g].who = r.who
      BY <1>3, <2>1 DEF PayMoves
    <3>2. QED
      BY <1>3, <2>1, <3>1
  <2>2. CASE k = h
    <3>1. p = "staff" /\ r.who = local[g].who /\ pc[g] = "staff" /\ local'[g].who = r.who
      BY <1>3, <2>2 DEF PayMoves
    <3>2. QED
      BY <1>3, <2>2, <3>1
  <2>3. CASE g # h /\ k # h
    <3>1. pc[g] = "staff" /\ pc[k] = "staff" /\ local[g].who = local[k].who /\ local'[g].who = local[g].who
      BY <1>3, <2>3 DEF PayMoves
    <3>2. QED
      BY <1>1, <1>3, <3>1 DEF StaffSide
  <2>4. QED
    BY <2>1, <2>2, <2>3
<1>4. QED
  BY <1>2, <1>3 DEF StaffSide

LEMMA StaffFindKeeps ==
  ASSUME PayInv, NEW h \in Handlers, NEW email \in StaffEmails, NEW id \in Nat, NEW terms \in Terms,
         StaffFind(h, email, id, terms)
  PROVE  PayInv'
<1>1. PICK who \in {"staff"} \X StaffEmails : who = <<"staff", email>>
  OBVIOUS
<1>2. PICK r \in [who : {"staff"} \X StaffEmails, id : Nat, terms : Terms] : r = [who |-> who, id |-> id, terms |-> terms]
  OBVIOUS
<1>3. /\ {s \in Named(who) : s.id # id} = {}
      /\ Begin(h, "staff", r) /\ Rush(h, {"staff"}, who)
      /\ UNCHANGED <<rows, runs, doubled, torn, erased>>
  BY <1>1, <1>2 DEF StaffFind, payroll
<1>4. PayMoves(h, "staff", r) /\ pc[h] = "idle" /\ begun' = begun + 1 /\ begun' \in Nat
  BY <1>3, PayBegins DEF PayAwaits
<1>5. rushed \subseteq rushed'
  BY <1>3 DEF Rush
<1>6. \A g \in Handlers \ {h} : pc[g] = "staff" /\ local[g].who = who => who \in rushed'
  <2>1. TAKE g \in Handlers \ {h}
  <2>2. HAVE pc[g] = "staff" /\ local[g].who = who
  <2>3. g \in Others(h, {"staff"}, "who", who)
    BY <2>2 DEF Others
  <2>4. QED
    BY <1>3, <2>3 DEF Rush
<1>7. r.who = who /\ r.id = id
  BY <1>2
<1>8. \A s \in rows : s.who = who /\ ~s.gone => s.id = id
  BY <1>3 DEF Named, Live
<1>9. StaffSide
  BY DEF PayInv
<1>10. StaffSide'
  <2>1. /\ rows' \subseteq RowType /\ IsFiniteSet(rows')
        /\ \A a, b \in rows' : a.who = b.who /\ ~a.gone /\ ~b.gone => a = b \/ a.who \in rushed'
        /\ \A a, b \in rows' : a.who = b.who /\ a.who[1] = "rep" => a = b
    BY <1>3, <1>5, <1>9 DEF StaffSide
  <2>2. \A s \in rows' : s.who = r.who /\ ~s.gone => s.id = r.id
    BY <1>3, <1>7, <1>8
  <2>3. ASSUME NEW g \in Handlers \ {h}, pc[g] = "staff"
        PROVE  local[g].who \in rushed' \/ \A s \in rows' : s.who = local[g].who /\ ~s.gone => s.id = local[g].id
    <3>1. StaffCarries(pc[g], local[g])
      BY <1>9 DEF StaffSide
    <3>2. QED
      BY <1>3, <1>5, <2>3, <3>1 DEF StaffCarries
  <2>4. \A g \in Handlers \ {h} : pc[g] = "staff" /\ local[g].who = r.who => r.who \in rushed'
    BY <1>6, <1>7
  <2>5. QED
    BY <1>4, <1>5, <2>1, <2>2, <2>3, <2>4, StaffSideAfter
<1>11. RunSide'
  <2>1. \A g \in Handlers : (pc'[g] = pc[g] /\ local'[g] = local[g]) \/ pc'[g] \in {"staff", "rep", "idle"}
    BY <1>4 DEF PayMoves
  <2>2. begun <= begun'
    BY <1>4 DEF PayInv, RunSide
  <2>3. QED
    BY <1>3, <1>4, <1>5, <2>1, <2>2, RunSideStays
<1>12. QED
  BY <1>4, <1>10, <1>11 DEF PayInv, PayMoves

LEMMA StaffWriteKeeps ==
  ASSUME PayInv, NEW h \in Handlers, StaffWrite(h)
  PROVE  PayInv'
<1>1. PICK s : s = local[h]
  OBVIOUS
<1>2. pc[h] = "staff" /\ Answer(h) /\ UNCHANGED <<runs, rushed, doubled, torn, erased>>
  BY DEF StaffWrite
<1>3. StaffSide
  BY DEF PayInv
<1>4. StaffCarries("staff", s)
  BY <1>1, <1>2, <1>3 DEF StaffSide
<1>5. s \in [who : {"staff"} \X StaffEmails, id : Nat, terms : Terms]
      /\ (s.who \in rushed \/ \A x \in rows : x.who = s.who /\ ~x.gone => x.id = s.id)
  BY <1>4 DEF StaffCarries
<1>6. PICK gone \in BOOLEAN : gone <=> \E r \in rows : r.id = s.id /\ r.gone
  <2>1. CASE \E r \in rows : r.id = s.id /\ r.gone
    <3>1. TRUE <=> \E r \in rows : r.id = s.id /\ r.gone
      BY <2>1
    <3>2. QED
      BY <3>1
  <2>2. CASE ~\E r \in rows : r.id = s.id /\ r.gone
    <3>1. FALSE <=> \E r \in rows : r.id = s.id /\ r.gone
      BY <2>2
    <3>2. QED
      BY <3>1
  <2>3. QED
    BY <2>1, <2>2
<1>7. PICK new : new = [id |-> s.id, who |-> s.who, terms |-> s.terms, gone |-> gone]
  OBVIOUS
<1>8. new \in RowType /\ new.who = s.who /\ new.id = s.id /\ new.who[1] = "staff"
  BY <1>5, <1>7 DEF RowType, Persons
<1>9. rows' = {r \in rows : r.id # s.id} \cup {new}
  BY <1>1, <1>6, <1>7 DEF StaffWrite
<1>10. PayMoves(h, "idle", Nothing) /\ begun' = begun /\ begun' \in Nat
  BY <1>2, PayAnswers
<1>11. rows' \subseteq RowType
  BY <1>3, <1>8, <1>9 DEF StaffSide
<1>12. IsFiniteSet(rows')
  <2>1. IsFiniteSet({r \in rows : r.id # s.id})
    BY <1>3, FS_Subset DEF StaffSide
  <2>2. QED
    BY <1>9, <2>1, FS_AddElement
<1>13. ASSUME NEW a \in rows', NEW b \in rows', a.who = b.who, ~a.gone, ~b.gone
       PROVE  a = b \/ a.who \in rushed'
  <2>1. CASE a # new /\ b # new
    BY <1>2, <1>3, <1>9, <1>13, <2>1 DEF StaffSide
  <2>2. CASE a = new \/ b = new
    BY <1>2, <1>5, <1>8, <1>9, <1>13, <2>2
  <2>3. QED
    BY <2>1, <2>2
<1>14. ASSUME NEW a \in rows', NEW b \in rows', a.who = b.who, a.who[1] = "rep"
       PROVE  a = b
  <2>1. a # new /\ b # new
    BY <1>8, <1>14
  <2>2. QED
    BY <1>3, <1>9, <1>14, <2>1 DEF StaffSide
<1>15. ASSUME NEW g \in Handlers \ {h}, pc[g] = "staff"
       PROVE  local[g].who \in rushed' \/ \A x \in rows' : x.who = local[g].who /\ ~x.gone => x.id = local[g].id
  <2>1. local[g].who \in rushed \/ \A x \in rows : x.who = local[g].who /\ ~x.gone => x.id = local[g].id
    <3>1. StaffCarries(pc[g], local[g])
      BY <1>3 DEF StaffSide
    <3>2. QED
      BY <1>15, <3>1 DEF StaffCarries
  <2>2. CASE local[g].who = s.who
    <3>1. local[g].who \in rushed
      BY <1>1, <1>2, <1>3, <1>15, <2>2 DEF StaffSide
    <3>2. QED
      BY <1>2, <3>1
  <2>3. CASE local[g].who # s.who
    <3>1. \A x \in rows' : x.who = local[g].who => x \in rows
      BY <1>8, <1>9, <2>3
    <3>2. QED
      BY <1>2, <2>1, <3>1
  <2>4. QED
    BY <2>2, <2>3
<1>16. StaffSide'
  <2>1. rushed \subseteq rushed'
    BY <1>2
  <2>2. \A g \in Handlers \ {h} : pc[g] = "staff" =>
          local[g].who \in rushed' \/ \A x \in rows' : x.who = local[g].who /\ ~x.gone => x.id = local[g].id
    BY <1>15
  <2>3. QED
    BY <1>10, <1>11, <1>12, <1>13, <1>14, <2>1, <2>2, StaffSideAfter
<1>17. RunSide'
  <2>1. \A g \in Handlers : (pc'[g] = pc[g] /\ local'[g] = local[g]) \/ pc'[g] \in {"staff", "rep", "idle"}
    BY <1>10 DEF PayMoves
  <2>2. begun <= begun' /\ rushed \subseteq rushed'
    BY <1>2, <1>10
  <2>3. QED
    BY <1>2, <1>10, <2>1, <2>2, RunSideStays
<1>18. QED
  BY <1>10, <1>16, <1>17 DEF PayInv, PayMoves

LEMMA FindLoginIdentityKeeps ==
  ASSUME PayInv, NEW h \in Handlers, NEW email \in StaffEmails, NEW terms \in Terms, FindLoginIdentity(h, email, terms)
  PROVE  PayInv'
<1>1. PICK r : r = [who |-> <<"rep", email>>, id |-> begun + 1, terms |-> terms]
  OBVIOUS
<1>2. Begin(h, "rep", r) /\ UNCHANGED <<rows, runs, rushed, doubled, torn, erased>>
  BY <1>1 DEF FindLoginIdentity, payrollVars, payroll
<1>3. PayMoves(h, "rep", r) /\ begun' = begun + 1 /\ begun' \in Nat
  BY <1>2, PayBegins DEF PayAwaits
<1>4. r \in [who : {"rep"} \X StaffEmails, id : Nat, terms : Terms]
  BY <1>1 DEF PayInv, RunSide
<1>5. StaffSide
  BY DEF PayInv
<1>6. StaffSide'
  <2>1. /\ rows' \subseteq RowType /\ IsFiniteSet(rows')
        /\ \A a, b \in rows' : a.who = b.who /\ ~a.gone /\ ~b.gone => a = b \/ a.who \in rushed'
        /\ \A a, b \in rows' : a.who = b.who /\ a.who[1] = "rep" => a = b
    BY <1>2, <1>5 DEF StaffSide
  <2>2. ASSUME NEW g \in Handlers \ {h}, pc[g] = "staff"
        PROVE  local[g].who \in rushed' \/ \A s \in rows' : s.who = local[g].who /\ ~s.gone => s.id = local[g].id
    <3>1. StaffCarries(pc[g], local[g])
      BY <1>5 DEF StaffSide
    <3>2. QED
      BY <1>2, <2>2, <3>1 DEF StaffCarries
  <2>3. \A g \in Handlers \ {h} : pc[g] = "staff" =>
          local[g].who \in rushed' \/ \A s \in rows' : s.who = local[g].who /\ ~s.gone => s.id = local[g].id
    BY <2>2
  <2>4. rushed \subseteq rushed'
    BY <1>2
  <2>5. QED
    BY <1>3, <1>4, <2>1, <2>3, <2>4, StaffSideAfter
<1>7. RunSide'
  <2>1. \A g \in Handlers : (pc'[g] = pc[g] /\ local'[g] = local[g]) \/ pc'[g] \in {"staff", "rep", "idle"}
    BY <1>3 DEF PayMoves
  <2>2. begun <= begun' /\ rushed \subseteq rushed'
    BY <1>2, <1>3 DEF PayInv, RunSide
  <2>3. QED
    BY <1>2, <1>3, <2>1, <2>2, RunSideStays
<1>8. QED
  BY <1>3, <1>6, <1>7 DEF PayInv, PayMoves

LEMMA CreateSalesRepKeeps ==
  ASSUME PayInv, NEW h \in Handlers, CreateSalesRep(h)
  PROVE  PayInv'
<1>1. PICK s : s = local[h]
  OBVIOUS
<1>2. pc[h] = "rep" /\ Answer(h) /\ UNCHANGED <<runs, rushed, doubled, torn, erased>>
  BY DEF CreateSalesRep
<1>3. StaffSide
  BY DEF PayInv
<1>4. s \in [who : {"rep"} \X StaffEmails, id : Nat, terms : Terms]
  <2>1. StaffCarries("rep", s)
    BY <1>1, <1>2, <1>3 DEF StaffSide
  <2>2. QED
    BY <2>1 DEF StaffCarries
<1>5. PICK b \in BOOLEAN : b = FALSE
  OBVIOUS
<1>6. PICK new : new = [id |-> s.id, who |-> s.who, terms |-> s.terms, gone |-> b]
  OBVIOUS
<1>7. new \in RowType /\ new.who = s.who /\ new.who[1] = "rep"
  BY <1>4, <1>6 DEF RowType, Persons
<1>8. rows' = IF \E r \in rows : r.who = s.who THEN rows ELSE rows \cup {new}
  BY <1>1, <1>5, <1>6 DEF CreateSalesRep
<1>9. PayMoves(h, "idle", Nothing) /\ begun' = begun /\ begun' \in Nat
  BY <1>2, PayAnswers
<1>10. rows' \subseteq RowType
  BY <1>3, <1>7, <1>8 DEF StaffSide
<1>11. IsFiniteSet(rows')
  <2>1. IsFiniteSet(rows) /\ IsFiniteSet(rows \cup {new})
    BY <1>3, FS_AddElement DEF StaffSide
  <2>2. QED
    BY <1>8, <2>1
<1>12. ASSUME NEW x \in rows', NEW y \in rows', x.who = y.who
       PROVE  /\ ~x.gone /\ ~y.gone => x = y \/ x.who \in rushed'
              /\ x.who[1] = "rep" => x = y
  <2>1. CASE x \in rows /\ y \in rows
    BY <1>2, <1>3, <1>12, <2>1 DEF StaffSide
  <2>2. CASE ~(x \in rows /\ y \in rows)
    <3>1. (x = new \/ y = new) /\ (\A r \in rows : r.who # s.who)
      BY <1>8, <2>2
    <3>2. x = y
      BY <1>7, <1>8, <1>12, <3>1
    <3>3. QED
      BY <3>2
  <2>3. QED
    BY <2>1, <2>2
<1>13. ASSUME NEW g \in Handlers \ {h}, pc[g] = "staff"
       PROVE  local[g].who \in rushed' \/ \A x \in rows' : x.who = local[g].who /\ ~x.gone => x.id = local[g].id
  <2>1. StaffCarries("staff", local[g])
    BY <1>3, <1>13 DEF StaffSide
  <2>2. /\ local[g].who[1] = "staff"
        /\ local[g].who \in rushed \/ \A x \in rows : x.who = local[g].who /\ ~x.gone => x.id = local[g].id
    BY <2>1 DEF StaffCarries
  <2>3. \A x \in rows' : x.who = local[g].who => x \in rows
    BY <1>7, <1>8, <2>2
  <2>4. QED
    BY <1>2, <2>2, <2>3
<1>14. StaffSide'
  <2>1. rushed \subseteq rushed'
    BY <1>2
  <2>2. \A g \in Handlers \ {h} : pc[g] = "staff" =>
          local[g].who \in rushed' \/ \A x \in rows' : x.who = local[g].who /\ ~x.gone => x.id = local[g].id
    BY <1>13
  <2>3. /\ \A x, y \in rows' : x.who = y.who /\ ~x.gone /\ ~y.gone => x = y \/ x.who \in rushed'
        /\ \A x, y \in rows' : x.who = y.who /\ x.who[1] = "rep" => x = y
    BY <1>12
  <2>4. QED
    BY <1>9, <1>10, <1>11, <2>1, <2>2, <2>3, StaffSideAfter
<1>15. RunSide'
  <2>1. \A g \in Handlers : (pc'[g] = pc[g] /\ local'[g] = local[g]) \/ pc'[g] \in {"staff", "rep", "idle"}
    BY <1>9 DEF PayMoves
  <2>2. begun <= begun' /\ rushed \subseteq rushed'
    BY <1>2, <1>9
  <2>3. QED
    BY <1>2, <1>9, <2>1, <2>2, RunSideStays
<1>16. QED
  BY <1>9, <1>14, <1>15 DEF PayInv, PayMoves

\* A row is written in place: the same person, and not hired again.
LEMMA RowWriteKeeps ==
  ASSUME PayInv, NEW r \in Live, NEW s \in RowType, RowWrite(r, s), s.who = r.who, s.id = r.id
  PROVE  PayInv'
<1>1. /\ begun' = begun + 1 /\ rows' = (rows \ {r}) \cup {s}
      /\ UNCHANGED <<runs, rushed, doubled, torn, erased, pc, local>>
  BY DEF RowWrite
<1>2. StaffSide /\ begun \in Nat /\ r \in rows /\ ~r.gone
  BY DEF PayInv, RunSide, Live
<1>3. rows' \subseteq RowType
  BY <1>1, <1>2 DEF StaffSide
<1>4. IsFiniteSet(rows')
  <2>1. IsFiniteSet(rows \ {r})
    BY <1>2, FS_Subset DEF StaffSide
  <2>2. QED
    BY <1>1, <2>1, FS_AddElement
<1>5. ASSUME NEW x \in rows', NEW y \in rows', x.who = y.who
      PROVE  /\ ~x.gone /\ ~y.gone => x = y \/ x.who \in rushed'
             /\ x.who[1] = "rep" => x = y
  <2>1. PICK x0 \in rows : IF x = s THEN x0 = r ELSE x0 = x /\ x # r
    BY <1>1, <1>2
  <2>2. PICK y0 \in rows : IF y = s THEN y0 = r ELSE y0 = y /\ y # r
    BY <1>1, <1>2
  <2>3. x0.who = x.who /\ y0.who = y.who /\ (~x.gone => ~x0.gone) /\ (~y.gone => ~y0.gone)
    BY <1>2, <2>1, <2>2
  <2>4. x0 = y0 => x = y
    BY <2>1, <2>2
  <2>5. /\ ~x0.gone /\ ~y0.gone => x0 = y0 \/ x0.who \in rushed
        /\ x0.who[1] = "rep" => x0 = y0
    BY <1>2, <1>5, <2>3 DEF StaffSide
  <2>6. QED
    BY <1>1, <2>3, <2>4, <2>5
<1>6. ASSUME NEW g \in Handlers
      PROVE  StaffCarries(pc[g], local[g])'
  <2>1. StaffCarries(pc[g], local[g]) /\ pc'[g] = pc[g] /\ local'[g] = local[g]
    BY <1>1, <1>2 DEF StaffSide
  <2>2. ASSUME \A x \in rows : x.who = local[g].who /\ ~x.gone => x.id = local[g].id,
               NEW x \in rows', x.who = local[g].who, ~x.gone
        PROVE  x.id = local[g].id
    <3>1. CASE x = s
      BY <1>2, <2>2, <3>1
    <3>2. CASE x # s
      BY <1>1, <2>2, <3>2
    <3>3. QED
      BY <3>1, <3>2
  <2>3. QED
    BY <1>1, <1>2, <2>1, <2>2 DEF StaffCarries
<1>7. StaffSide'
  BY <1>1, <1>2, <1>3, <1>4, <1>5, <1>6 DEF StaffSide
<1>8. RunSide'
  BY <1>1, <1>2, RunSideStays
<1>9. QED
  BY <1>1, <1>7, <1>8 DEF PayInv

LEMMA StaffStep ==
  ASSUME PayInv, StaffNext
  PROVE  PayInv'
<1>1. StaffSide /\ begun \in Nat
  BY DEF PayInv, RunSide
<1>2. ASSUME NEW r \in rows, DeleteStaff(r) \/ ArchiveSalesRep(r)
      PROVE  PayInv'
  <2>1. PICK s : s = [r EXCEPT !.gone = TRUE]
    OBVIOUS
  <2>2. r \in RowType
    BY <1>1 DEF StaffSide
  <2>3. PICK b \in BOOLEAN : b = TRUE
    OBVIOUS
  <2>4. s = [r EXCEPT !.gone = b]
    BY <2>1, <2>3
  <2>5. s \in RowType /\ s.who = r.who /\ s.id = r.id
    BY <2>2, <2>4 DEF RowType
  <2>6. r \in Live /\ RowWrite(r, s)
    BY <1>2, <2>1 DEF DeleteStaff, ArchiveSalesRep
  <2>7. QED
    BY <2>5, <2>6, RowWriteKeeps
<1>3. ASSUME NEW r \in rows, NEW t \in Terms, UpdateSalesRep(r, t)
      PROVE  PayInv'
  <2>1. PICK s : s = [r EXCEPT !.terms = t]
    OBVIOUS
  <2>2. r \in RowType
    BY <1>1 DEF StaffSide
  <2>3. s \in RowType /\ s.who = r.who /\ s.id = r.id
    BY <2>1, <2>2 DEF RowType
  <2>4. r \in Live /\ RowWrite(r, s)
    BY <1>3, <2>1 DEF UpdateSalesRep
  <2>5. QED
    BY <2>3, <2>4, RowWriteKeeps
<1>4. ASSUME NEW h \in Handlers, NEW e \in StaffEmails, NEW t \in Terms,
             CreateStaff(h, e, t) \/ FindLoginIdentity(h, e, t)
      PROVE  PayInv'
  <2>1. begun + 1 \in Nat
    BY <1>1
  <2>2. QED
    BY <1>4, <2>1, StaffFindKeeps, FindLoginIdentityKeeps DEF CreateStaff
<1>5. ASSUME NEW h \in Handlers, NEW e \in StaffEmails, NEW t \in Terms, NEW r \in rows, UpdateStaff(h, r, e, t)
      PROVE  PayInv'
  <2>1. r.id \in Nat
    BY <1>1 DEF StaffSide, RowType
  <2>2. QED
    BY <1>5, <2>1, StaffFindKeeps DEF UpdateStaff
<1>6. QED
  BY <1>2, <1>3, <1>4, <1>5, StaffWriteKeeps, CreateSalesRepKeeps DEF StaffNext

\* The numbers of one set are those of another, renamed.
LEMMA SumImage ==
  ASSUME NEW A, IsFiniteSet(A), NEW f, NEW e, NEW g, \A x \in A : f[x] \in Int /\ g[e[x]] = f[x],
         \A x, y \in A : e[x] = e[y] => x = y
  PROVE  LET B == {e[x] : x \in A} IN IsFiniteSet(B) /\ SumFunctionOnSet(g, B) = SumFunctionOnSet(f, A)
<1> DEFINE Img(T) == {e[x] : x \in T}
           Bad == {T \in SUBSET A : ~(IsFiniteSet(Img(T)) /\ SumFunctionOnSet(g, Img(T)) = SumFunctionOnSet(f, T))}
<1>1. SUFFICES ASSUME Bad # {} PROVE FALSE
  OBVIOUS
<1>2a. Bad \subseteq SUBSET A
  OBVIOUS
<1>2. PICK T \in Bad : \A y \in Bad : y \subseteq T => y = T
  <2> HIDE DEF Bad
  <2>1. QED
    BY <1>1, <1>2a, Smaller
<1>3. IsFiniteSet(T) /\ T \subseteq A
  BY <1>2, FS_Subset
<1>4. CASE T = {}
  <2>1. PICK I : I = Img(T)
    OBVIOUS
  <2>2. I = {} /\ IsFiniteSet(I)
    BY <1>4, <2>1, FS_EmptySet
  <2>3. SumFunctionOnSet(g, I) = 0 /\ SumFunctionOnSet(f, T) = 0
    BY <1>3, <1>4, <2>2, SumUnfolds
  <2>4. QED
    BY <1>2, <2>1, <2>2, <2>3
<1>5. CASE T # {}
  <2>1. PICK c \in T : TRUE
    BY <1>5
  <2>2. PICK U : U = T \ {c}
    OBVIOUS
  <2>3. U \notin Bad /\ U \in SUBSET A
    BY <1>2, <1>3, <2>1, <2>2
  <2>4. PICK I : I = Img(T)
    OBVIOUS
  <2>5. PICK J : J = Img(U)
    OBVIOUS
  <2>6. IsFiniteSet(J) /\ SumFunctionOnSet(g, J) = SumFunctionOnSet(f, U)
    BY <2>3, <2>5
  <2>7. I = J \cup {e[c]} /\ e[c] \notin J
    BY <1>3, <2>1, <2>2, <2>4, <2>5
  <2>8. IsFiniteSet(I) /\ I \ {e[c]} = J /\ e[c] \in I
    BY <2>6, <2>7, FS_AddElement
  <2>9. \A y \in I : g[y] \in Int
    BY <1>3, <2>4
  <2>10. \A x \in T : f[x] \in Int
    BY <1>3
  <2> HIDE DEF Bad, Img
  <2>11. SumFunctionOnSet(g, I) = g[e[c]] + SumFunctionOnSet(g, J)
    BY <2>8, <2>9, SumTakeOut
  <2>12. SumFunctionOnSet(f, T) = f[c] + SumFunctionOnSet(f, U)
    BY <1>3, <2>1, <2>2, <2>10, SumTakeOut
  <2>13. g[e[c]] = f[c]
    BY <1>3, <2>1
  <2>14. IsFiniteSet(Img(T)) /\ SumFunctionOnSet(g, Img(T)) = SumFunctionOnSet(f, T)
    BY <2>4, <2>6, <2>8, <2>11, <2>12, <2>13
  <2>15. QED
    BY <1>2, <2>14 DEF Bad
<1>6. QED
  BY <1>4, <1>5

\* Items as they are stored come to what they came to before.
LEMMA SignedTotal ==
  ASSUME NEW no \in Nat, NEW items \in SUBSET PlainItem, IsFiniteSet(items)
  PROVE  /\ Signed(no, items) \in SUBSET SignedItem
         /\ Total(Signed(no, items)) = Total(items)
         /\ \A s \in Signed(no, items) : \E i \in items : s.who = i.who
         /\ PaidOnce(items) => PaidOnce(Signed(no, items))
<1> DEFINE e == [i \in items |-> [by |-> no, row |-> i.row, who |-> i.who, amount |-> i.amount]]
           f == [i \in items |-> i.amount]
<1>1. \A i \in items : i = [row |-> i.row, who |-> i.who, amount |-> i.amount] /\ i.amount \in Int
  BY DEF PlainItem
<1>2. ASSUME NEW i \in items
      PROVE  With([by |-> no], i) = e[i]
  <2>1. DOMAIN i = {"row", "who", "amount"} /\ DOMAIN [by |-> no] = {"by"}
    BY DEF PlainItem
  <2>2. PICK m : m = [by |-> no]
    OBVIOUS
  <2>3. PICK w : w = With(m, i)
    OBVIOUS
  <2>4. w = [x \in DOMAIN m \cup DOMAIN i |-> IF x \in DOMAIN m THEN m[x] ELSE i[x]]
    BY <2>3 DEF With
  <2>5. DOMAIN m = {"by"} /\ m["by"] = no
    BY <2>2
  <2>6. w = [by |-> no, row |-> i.row, who |-> i.who, amount |-> i.amount]
    BY <2>1, <2>4, <2>5
  <2>7. QED
    BY <2>2, <2>3, <2>6
<1>3. PICK B : B = {e[i] : i \in items}
  OBVIOUS
<1>4. B = Signed(no, items)
  BY <1>2, <1>3, ZenonT(60) DEF Signed
<1>5. \A i \in items : e[i] \in SignedItem /\ e[i].who = i.who /\ e[i].amount = i.amount
  BY DEF PlainItem, SignedItem
<1>6. \A i, j \in items : e[i] = e[j] => i = j
  <2>1. TAKE i, j \in items
  <2>2. HAVE e[i] = e[j]
  <2>3. i.row = j.row /\ i.who = j.who /\ i.amount = j.amount
    BY <2>2
  <2>4. QED
    BY <1>1, <2>3
<1> DEFINE g == [i \in B |-> i.amount]
<1>7. \A i \in items : e[i] \in B /\ g[e[i]] = f[i] /\ f[i] \in Int
  BY <1>1, <1>3, <1>5
<1>8. Total(items) = SumFunctionOnSet(f, items) /\ Total(B) = SumFunctionOnSet(g, B)
  BY DEF Total, SumFunction
<1> HIDE DEF e, f, g
<1>9. SumFunctionOnSet(g, B) = SumFunctionOnSet(f, items)
  BY <1>3, <1>6, <1>7, SumImage
<1>10. B \in SUBSET SignedItem /\ \A s \in B : \E i \in items : s.who = i.who
  BY <1>3, <1>5
<1>11. PaidOnce(items) => PaidOnce(B)
  BY <1>3, <1>5, <1>6 DEF PaidOnce
<1>12. QED
  BY <1>4, <1>8, <1>9, <1>10, <1>11

\* What is stored and remembered of the runs.
RunsKept ==
  /\ runs \subseteq RunType
  /\ \A r, s \in runs : r.id = s.id => r = s
  /\ \A r, s \in runs : r.auto /\ s.auto /\ r.date = s.date => r = s \/ r.date \in doubled
  /\ \A r \in runs : r.id[1] <= begun /\ (r.total = Total(r.items) \/ r.id \in torn) /\ PaidOnce(r.items)
  /\ erased \subseteq torn

LEMMA RunSideAfter ==
  ASSUME PayInv, NEW h \in Handlers, NEW p, NEW r, PayMoves(h, p, r), begun' \in Nat, RunsKept', RunCarries(p, r)',
         \A g \in Handlers \ {h} : \A q, s : q = pc[g] /\ s = local[g] =>
           RunCarries(q, s)' /\ RunsApart(p, r, q, s)' /\ RunsApart(q, s, p, r)',
         doubled \subseteq doubled', torn \subseteq torn'
  PROVE  RunSide'
<1>1. RunSide
  BY DEF PayInv
<1>2. ASSUME NEW g \in Handlers
      PROVE  RunCarries(pc[g], local[g])'
  <2>1. CASE g = h
    <3>1. pc'[g] = p /\ local'[g] = r
      BY <2>1 DEF PayMoves
    <3>2. QED
      BY <3>1 DEF RunCarries, PaidOnce
  <2>2. CASE g # h
    <3>1. pc'[g] = pc[g] /\ local'[g] = local[g]
      BY <2>2 DEF PayMoves
    <3>2. PICK q, s : q = pc[g] /\ s = local[g]
      OBVIOUS
    <3>3. g \in Handlers \ {h}
      BY <2>2
    <3>4. RunCarries(q, s)'
      BY <3>2, <3>3
    <3>5. QED
      BY <3>1, <3>2, <3>4 DEF RunCarries, PaidOnce
  <2>3. QED
    BY <2>1, <2>2
<1>3. ASSUME NEW g \in Handlers, NEW k \in Handlers, g # k
      PROVE  RunsApart(pc[g], local[g], pc[k], local[k])'
  <2>1. PICK q, s : q = pc[g] /\ s = local[g]
    OBVIOUS
  <2>2. PICK t, u : t = pc[k] /\ u = local[k]
    OBVIOUS
  <2>3. CASE g = h
    <3>1. k \in Handlers \ {h} /\ pc'[k] = t /\ local'[k] = u /\ pc'[g] = p /\ local'[g] = r
      BY <1>3, <2>2, <2>3 DEF PayMoves
    <3>2. RunsApart(p, r, t, u)'
      BY <2>2, <3>1
    <3>3. QED
      BY <3>1, <3>2 DEF RunsApart
  <2>4. CASE k = h
    <3>1. g \in Handlers \ {h} /\ pc'[g] = q /\ local'[g] = s /\ pc'[k] = p /\ local'[k] = r
      BY <1>3, <2>1, <2>4 DEF PayMoves
    <3>2. RunsApart(q, s, p, r)'
      BY <2>1, <3>1
    <3>3. QED
      BY <3>1, <3>2 DEF RunsApart
  <2>5. CASE g # h /\ k # h
    <3>1. pc'[g] = q /\ local'[g] = s /\ pc'[k] = t /\ local'[k] = u
      BY <2>1, <2>2, <2>5 DEF PayMoves
    <3>2. RunsApart(q, s, t, u)
      BY <1>1, <1>3, <2>1, <2>2 DEF RunSide
    <3>3. QED
      BY <3>1, <3>2 DEF RunsApart
  <2>6. QED
    BY <2>3, <2>4, <2>5
<1>4. QED
  BY <1>2, <1>3 DEF RunSide, RunsKept

\* What two other requests carry still fits when more is remembered.
LEMMA ApartStays ==
  ASSUME NEW p, NEW r, NEW q, NEW s, RunsApart(p, r, q, s), doubled \subseteq doubled', torn \subseteq torn'
  PROVE  RunsApart(p, r, q, s)'
BY DEF RunsApart

\* What a request carries still fits when runs are deleted.
LEMMA CarriesStays ==
  ASSUME NEW p, NEW r, RunCarries(p, r), runs' \subseteq runs, doubled \subseteq doubled', torn \subseteq torn',
         rushed \subseteq rushed', begun \in Nat, begun' \in Nat, begun <= begun'
  PROVE  RunCarries(p, r)'
<1>1. ASSUME NEW items, PaidOnce(items)
      PROVE  PaidOnce(items)'
  BY <1>1 DEF PaidOnce
<1>2. ASSUME NEW n \in Nat, n <= begun
      PROVE  n <= begun'
  BY <1>2
<1>3. p = "persist" =>
        /\ {"dates", "people", "no"} \subseteq DOMAIN r /\ r.no \in Nat /\ r.no <= begun' /\ r.dates \subseteq 1..Weeks
        /\ \A d \in r.dates :
             /\ r.people[d] \subseteq PlainItem /\ IsFiniteSet(r.people[d]) /\ PaidOnce(r.people[d])'
             /\ \A s \in runs' : (s.auto /\ s.date = d => d \in doubled') /\ s.id # <<r.no, d>>
  BY <1>1, <1>2 DEF RunCarries
<1>4. p \in {"updateRun", "newItems", "deleteRun"} =>
        "run" \in DOMAIN r /\ r.run \in Nat \X Nat /\ r.run[1] <= begun'
  BY <1>2 DEF RunCarries
<1>5. QED
  BY <1>3, <1>4 DEF RunCarries, PaidOnce

LEMMA KeptStays ==
  ASSUME RunsKept, runs' \subseteq runs, doubled \subseteq doubled', torn \subseteq torn', erased' \subseteq torn',
         rushed \subseteq rushed', begun \in Nat, begun' \in Nat, begun <= begun'
  PROVE  RunsKept'
<1>1. ASSUME NEW items, PaidOnce(items)
      PROVE  PaidOnce(items)'
  BY <1>1 DEF PaidOnce
<1>2. ASSUME NEW r \in runs'
      PROVE  r.id[1] <= begun' /\ (r.total = Total(r.items) \/ r.id \in torn') /\ PaidOnce(r.items)'
  <2>1. r \in runs /\ r.id[1] \in Nat /\ r.id[1] <= begun /\ (r.total = Total(r.items) \/ r.id \in torn) /\ PaidOnce(r.items)
    BY DEF RunsKept, RunType
  <2>2. r.id[1] <= begun'
    BY <2>1
  <2>3. QED
    BY <1>1, <2>1, <2>2
<1>3. QED
  BY <1>2 DEF RunsKept, PaidOnce

\* Nothing is written: a request moves, or ends.
LEMMA NothingWritten ==
  ASSUME PayInv, NEW h \in Handlers, NEW p, NEW r, PayMoves(h, p, r), p \notin {"staff", "rep"},
         runs' \subseteq runs, UNCHANGED <<rows, rushed>>, doubled \subseteq doubled', torn \subseteq torn', erased' \subseteq torn',
         begun' \in Nat, begun <= begun', RunCarries(p, r)',
         \A g \in Handlers \ {h} : \A q, s : q = pc[g] /\ s = local[g] /\ RunCarries(q, s) =>
           RunsApart(p, r, q, s)' /\ RunsApart(q, s, p, r)'
  PROVE  PayInv'
<1>1. RunSide /\ RunsKept /\ begun \in Nat
  BY DEF PayInv, RunSide, RunsKept
<1>2. RunsKept'
  BY <1>1, KeptStays
<1>3. ASSUME NEW g \in Handlers \ {h}, NEW q, NEW s, q = pc[g], s = local[g]
      PROVE  RunCarries(q, s)' /\ RunsApart(p, r, q, s)' /\ RunsApart(q, s, p, r)'
  <2>1. RunCarries(q, s)
    BY <1>1, <1>3 DEF RunSide
  <2>2. RunCarries(q, s)'
    BY <1>1, <2>1, CarriesStays
  <2>3. QED
    BY <1>3, <2>1, <2>2
<1>4. \A g \in Handlers \ {h} : \A q, s : q = pc[g] /\ s = local[g] =>
        RunCarries(q, s)' /\ RunsApart(p, r, q, s)' /\ RunsApart(q, s, p, r)'
  BY <1>3
<1>5. RunSide'
  BY <1>2, <1>4, RunSideAfter
<1>6. StaffSide'
  <2>1. \A g \in Handlers : (pc'[g] = pc[g] /\ local'[g] = local[g]) \/ pc'[g] \notin {"staff", "rep"}
    BY DEF PayMoves
  <2>2. QED
    BY <2>1, StaffSideStays
<1>7. QED
  BY <1>5, <1>6 DEF PayInv, PayMoves

LEMMA IdleFits ==
  ASSUME NEW r, NEW q, NEW s
  PROVE  RunCarries("idle", r)' /\ RunsApart("idle", r, q, s)' /\ RunsApart(q, s, "idle", r)'
BY DEF RunCarries, RunsApart

LEMMA PeopleOnce ==
  ASSUME StaffSide, NEW d
  PROVE  People(d) \subseteq PlainItem /\ IsFiniteSet(People(d)) /\ PaidOnce(People(d))
<1> DEFINE A == {s \in Live : IsPayday(s.terms, d) /\ s.terms.pay > 0}
           item(r) == [row |-> r.id, who |-> r.who, amount |-> PaycheckAmount(r.terms)]
<1>1. A \subseteq rows /\ \A r \in A : ~r.gone /\ r \in RowType
  BY DEF StaffSide, Live
<1>2. People(d) = {item(r) : r \in A}
  BY DEF People
<1>3. \A r \in A : item(r) \in PlainItem
  <2>1. TAKE r \in A
  <2>2. r.id \in Nat /\ r.who \in Persons /\ r.terms \in Terms
    BY <1>1 DEF RowType
  <2>3. r.terms.pay \in {0, 1}
    BY <2>2 DEF Terms
  <2>4. PaycheckAmount(r.terms) \in Nat
    BY <2>3 DEF PaycheckAmount
  <2>5. QED
    BY <2>2, <2>4 DEF PlainItem
<1>4. IsFiniteSet(A)
  BY <1>1, FS_Subset DEF StaffSide
<1>5. PICK e : e = [r \in A |-> item(r)]
  OBVIOUS
<1>6. PICK S : S = A
  OBVIOUS
<1>7. PICK T : T = People(d)
  OBVIOUS
<1>8. e \in Surjection(S, T)
  BY <1>2, <1>5, <1>6, <1>7 DEF Surjection
<1>9. IsFiniteSet(T)
  BY <1>4, <1>6, <1>8, FS_Surjection
<1>10. PaidOnce(People(d))
  <2>1. ASSUME NEW i \in People(d), NEW j \in People(d), i.who = j.who
        PROVE  i = j \/ i.who \in rushed \cup {None}
    <3>1. PICK a \in A : i = item(a)
      BY <1>2
    <3>2. PICK b \in A : j = item(b)
      BY <1>2
    <3>3. a.who = b.who /\ i.who = a.who
      BY <2>1, <3>1, <3>2
    <3>4. a = b \/ a.who \in rushed
      BY <1>1, <3>3 DEF StaffSide
    <3>5. QED
      BY <3>1, <3>2, <3>3, <3>4
  <2>2. QED
    BY <2>1 DEF PaidOnce
<1>11. QED
  BY <1>2, <1>3, <1>7, <1>9, <1>10

LEMMA GetPayrollHistoryKeeps ==
  ASSUME PayInv, NEW h \in Handlers, NEW year \in Nat, NEW upto \in Nat, GetPayrollHistory(h, year, upto)
  PROVE  PayInv'
<1>1. PICK dates : dates = Missing(year, upto)
  OBVIOUS
<1>2. PICK people : people = [d \in dates |-> People(d)]
  OBVIOUS
<1>3. PICK no : no = begun + 1
  OBVIOUS
<1>4. PICK r : r = [dates |-> dates, people |-> people, no |-> no]
  OBVIOUS
<1>5. /\ Begin(h, "persist", r) /\ doubled' = doubled \cup Repeated(h, dates, year)
      /\ UNCHANGED <<rows, runs, rushed, torn, erased>>
  BY <1>1, <1>2, <1>3, <1>4 DEF GetPayrollHistory, payroll
<1>6. PayMoves(h, "persist", r) /\ begun' = begun + 1 /\ begun' \in Nat
  BY <1>5, PayBegins DEF PayAwaits
<1>7. {"dates", "people", "no"} \subseteq DOMAIN r /\ r.dates = dates /\ r.people = people /\ r.no = no
  BY <1>4
<1>8. StaffSide /\ RunSide /\ begun \in Nat
  BY DEF PayInv, RunSide
<1>9. dates \subseteq 1..Weeks
  BY <1>1 DEF Missing
<1>10. \A s \in runs : s.id \in Nat \X Nat /\ s.id[1] <= begun
  BY <1>8 DEF RunSide, RunType
<1>11. ASSUME NEW d \in dates
       PROVE  /\ people[d] \subseteq PlainItem /\ IsFiniteSet(people[d]) /\ PaidOnce(people[d])
              /\ \A s \in runs : (s.auto /\ s.date = d => d \in doubled') /\ s.id # <<no, d>>
  <2>1. people[d] = People(d)
    BY <1>2
  <2>2. \A s \in runs : s.id # <<no, d>>
    BY <1>3, <1>8, <1>10
  <2>3. CASE Year(d) = year
    <3>1. Automatic(d) = {}
      BY <1>1, <2>3 DEF Missing
    <3>2. \A s \in runs : ~(s.auto /\ s.date = d)
      BY <3>1 DEF Automatic
    <3>3. QED
      BY <1>8, <2>1, <2>2, <3>2, PeopleOnce
  <2>4. CASE Year(d) # year
    <3>1. d \in doubled'
      BY <1>5, <2>4 DEF Repeated
    <3>2. QED
      BY <1>8, <2>1, <2>2, <3>1, PeopleOnce
  <2>5. QED
    BY <2>3, <2>4
<1>12. RunCarries("persist", r)'
  <2>1. no \in Nat /\ no <= begun'
    BY <1>3, <1>6
  <2>2. \A d \in dates : PaidOnce(people[d])'
    BY <1>5, <1>11 DEF PaidOnce
  <2>3. \A d \in dates : \A s \in runs' : (s.auto /\ s.date = d => d \in doubled') /\ s.id # <<no, d>>
    BY <1>5, <1>11
  <2>4. QED
    BY <1>7, <1>9, <1>11, <2>1, <2>2, <2>3 DEF RunCarries, PaidOnce
<1>13. ASSUME NEW g \in Handlers \ {h}, NEW q, NEW s, q = pc[g], s = local[g], RunCarries(q, s)
       PROVE  RunsApart("persist", r, q, s)' /\ RunsApart(q, s, "persist", r)'
  <2>1. CASE q = "persist"
    <3>1. s.no \in Nat /\ s.no <= begun
      BY <1>13, <2>1 DEF RunCarries
    <3>2. r.no # s.no
      BY <1>3, <1>7, <1>8, <3>1
    <3>3. \A d \in dates : d \in s.dates => d \in doubled'
      BY <1>5, <1>13, <2>1 DEF Repeated
    <3>4. QED
      BY <1>7, <2>1, <3>2, <3>3 DEF RunsApart
  <2>2. CASE q \in {"updateRun", "newItems", "deleteRun"}
    <3>1. s.run \in Nat \X Nat /\ s.run[1] <= begun
      BY <1>13, <2>2 DEF RunCarries
    <3>2. \A d \in dates : s.run # <<no, d>>
      BY <1>3, <1>8, <3>1
    <3>3. QED
      BY <1>7, <2>2, <3>2 DEF RunsApart
  <2>3. CASE q \notin {"persist", "updateRun", "newItems", "deleteRun"}
    BY <2>3 DEF RunsApart
  <2>4. QED
    BY <2>1, <2>2, <2>3
<1>14. QED
  <2>1. \A g \in Handlers \ {h} : \A q, s : q = pc[g] /\ s = local[g] /\ RunCarries(q, s) =>
          RunsApart("persist", r, q, s)' /\ RunsApart(q, s, "persist", r)'
    BY <1>13
  <2>2. runs' \subseteq runs /\ doubled \subseteq doubled' /\ torn \subseteq torn' /\ erased' \subseteq torn'
    BY <1>5, <1>8 DEF RunSide
  <2>3. begun <= begun'
    BY <1>6, <1>8
  <2>4. QED
    BY <1>5, <1>6, <1>12, <2>1, <2>2, <2>3, NothingWritten

\* A request ends, and what it did touched no run but to delete some.
LEMMA EndKeeps ==
  ASSUME PayInv, NEW h \in Handlers, Answer(h), runs' \subseteq runs, erased' \subseteq torn,
         UNCHANGED <<rows, rushed, doubled, torn>>
  PROVE  PayInv'
<1>1. PayMoves(h, "idle", Nothing) /\ begun' = begun /\ begun' \in Nat /\ begun <= begun'
  BY PayAnswers
<1>2. RunCarries("idle", Nothing)'
  BY IdleFits
<1>3. \A g \in Handlers \ {h} : \A q, s : q = pc[g] /\ s = local[g] /\ RunCarries(q, s) =>
        RunsApart("idle", Nothing, q, s)' /\ RunsApart(q, s, "idle", Nothing)'
  BY IdleFits
<1>4. QED
  BY <1>1, <1>2, <1>3, NothingWritten

LEMMA HistoryEndKeeps ==
  ASSUME PayInv, NEW h \in Handlers, HistoryEnd(h) \/ PayrollFail(h)
  PROVE  PayInv'
<1>1. Answer(h) /\ UNCHANGED <<rows, runs, rushed, doubled, torn, erased>>
  BY DEF HistoryEnd, PayrollFail, payrollVars, payroll
<1>2. erased' \subseteq torn
  BY <1>1 DEF PayInv, RunSide
<1>3. QED
  BY <1>1, <1>2, EndKeeps

LEMMA DeletePayrollRunKeeps ==
  ASSUME PayInv, NEW h \in Handlers, DeletePayrollRun(h)
  PROVE  PayInv'
<1>1. PICK r : r = local[h]
  OBVIOUS
<1>2. /\ pc[h] = "deleteRun" /\ Answer(h)
      /\ runs' = {s \in runs : s.id # r.run}
      /\ erased' = IF Stored(r.run) /\ Run(r.run).status = "paid" THEN erased \cup {r.run} ELSE erased
      /\ UNCHANGED <<rows, rushed, doubled, torn>>
  BY <1>1 DEF DeletePayrollRun
<1>3. RunSide
  BY DEF PayInv
<1>4. \A s \in runs : s.id = r.run /\ s.status = "paid" => r.run \in torn
  <2>1. RunCarries("deleteRun", r)
    BY <1>1, <1>2, <1>3 DEF RunSide
  <2>2. QED
    BY <2>1 DEF RunCarries
<1>5. Stored(r.run) => Run(r.run) \in runs /\ Run(r.run).id = r.run
  BY DEF Stored, Run
<1>6. erased' \subseteq torn
  BY <1>2, <1>3, <1>4, <1>5 DEF RunSide
<1>7. QED
  BY <1>2, <1>6, EndKeeps

\* A stored run is found by its id.
LEMMA RunFound ==
  ASSUME RunSide, NEW r \in runs
  PROVE  Stored(r.id) /\ Run(r.id) = r
<1>1. Run(r.id) \in runs /\ Run(r.id).id = r.id
  BY DEF Run
<1>2. QED
  BY <1>1 DEF Stored, RunSide

LEMMA UpdateFindKeeps ==
  ASSUME PayInv, NEW h \in Handlers, NEW run \in runs, NEW p \in Payloads, UpdateFind(h, run, p)
  PROVE  PayInv'
<1>1. PICK id : id = run.id
  OBVIOUS
<1>2. PICK no : no = begun + 1
  OBVIOUS
<1>3. PICK r : r = [run |-> id, payload |-> p, no |-> no]
  OBVIOUS
<1>4. Begin(h, "updateRun", r) /\ UNCHANGED <<rows, runs, rushed, doubled, torn, erased>>
  BY <1>1, <1>2, <1>3 DEF UpdateFind, payrollVars, payroll
<1>5. PayMoves(h, "updateRun", r) /\ begun' = begun + 1 /\ begun' \in Nat
  BY <1>4, PayBegins DEF PayAwaits
<1>6. RunSide /\ begun \in Nat
  BY DEF PayInv, RunSide
<1>7. id \in Nat \X Nat /\ id[1] <= begun
  BY <1>1, <1>6 DEF RunSide, RunType
<1>8. {"run", "payload", "no"} \subseteq DOMAIN r /\ r.run = id /\ r.payload = p /\ r.no = no
  BY <1>3
<1>9. RunCarries("updateRun", r)'
  <2>1. id[1] <= begun' /\ no \in Nat
    BY <1>2, <1>5, <1>6, <1>7
  <2>2. QED
    BY <1>7, <1>8, <2>1 DEF RunCarries
<1>10. ASSUME NEW g \in Handlers \ {h}, NEW q, NEW s, RunCarries(q, s)
       PROVE  RunsApart("updateRun", r, q, s)' /\ RunsApart(q, s, "updateRun", r)'
  <2>1. q = "persist" => \A d \in s.dates : id # <<s.no, d>>
    BY <1>1, <1>10 DEF RunCarries
  <2>2. QED
    BY <1>8, <2>1 DEF RunsApart
<1>11. QED
  <2>1. \A g \in Handlers \ {h} : \A q, s : q = pc[g] /\ s = local[g] /\ RunCarries(q, s) =>
          RunsApart("updateRun", r, q, s)' /\ RunsApart(q, s, "updateRun", r)'
    BY <1>10
  <2>2. runs' \subseteq runs /\ doubled \subseteq doubled' /\ torn \subseteq torn' /\ erased' \subseteq torn'
    BY <1>4, <1>6 DEF RunSide
  <2>3. begun <= begun'
    BY <1>5, <1>6
  <2>4. QED
    BY <1>4, <1>5, <1>9, <2>1, <2>2, <2>3, NothingWritten

LEMMA DeleteFindKeeps ==
  ASSUME PayInv, NEW h \in Handlers, NEW run \in runs, DeleteFind(h, run)
  PROVE  PayInv'
<1>1. PICK id : id = run.id
  OBVIOUS
<1>2. PICK r : r = [run |-> id]
  OBVIOUS
<1>3. Begin(h, "deleteRun", r) /\ UNCHANGED <<rows, runs, rushed, doubled, torn, erased>> /\ run.status # "paid"
  BY <1>1, <1>2 DEF DeleteFind, payrollVars, payroll
<1>4. PayMoves(h, "deleteRun", r) /\ begun' = begun + 1 /\ begun' \in Nat
  BY <1>3, PayBegins DEF PayAwaits
<1>5. RunSide /\ begun \in Nat
  BY DEF PayInv, RunSide
<1>6. id \in Nat \X Nat /\ id[1] <= begun
  BY <1>1, <1>5 DEF RunSide, RunType
<1>7. {"run"} \subseteq DOMAIN r /\ r.run = id
  BY <1>2
<1>8. RunCarries("deleteRun", r)'
  <2>1. id[1] <= begun'
    BY <1>4, <1>5, <1>6
  <2>2. \A s \in runs : s.id = id => s = run
    BY <1>1, <1>5 DEF RunSide
  <2>3. \A s \in runs' : s.id = id /\ s.status = "paid" => FALSE
    BY <1>3, <2>2
  <2>4. QED
    BY <1>6, <1>7, <2>1, <2>3 DEF RunCarries
<1>9. ASSUME NEW g \in Handlers \ {h}, NEW q, NEW s, RunCarries(q, s)
      PROVE  RunsApart("deleteRun", r, q, s)' /\ RunsApart(q, s, "deleteRun", r)'
  <2>1. q = "persist" => \A d \in s.dates : id # <<s.no, d>>
    BY <1>1, <1>9 DEF RunCarries
  <2>2. QED
    BY <1>7, <2>1 DEF RunsApart
<1>10. QED
  <2>1. \A g \in Handlers \ {h} : \A q, s : q = pc[g] /\ s = local[g] /\ RunCarries(q, s) =>
          RunsApart("deleteRun", r, q, s)' /\ RunsApart(q, s, "deleteRun", r)'
    BY <1>9
  <2>2. runs' \subseteq runs /\ doubled \subseteq doubled' /\ torn \subseteq torn' /\ erased' \subseteq torn'
    BY <1>3, <1>5 DEF RunSide
  <2>3. begun <= begun'
    BY <1>4, <1>5
  <2>4. QED
    BY <1>3, <1>4, <1>8, <2>1, <2>2, <2>3, NothingWritten

\* What a request carries on with.
LEMMA PayCarriesOn ==
  ASSUME PayInv, NEW h \in Handlers, NEW p \in PayAwaits, NEW more, Carry(h, p, more)
  PROVE  PayMoves(h, p, With(more, local[h])) /\ begun' = begun /\ begun' \in Nat
BY DEF PayInv, RunSide, Carry, PayMoves

LEMMA UpdateDeleteItemsKeeps ==
  ASSUME PayInv, NEW h \in Handlers, UpdateDeleteItems(h)
  PROVE  PayInv'
<1>1. PICK old : old = local[h]
  OBVIOUS
<1>2. PICK seen : seen = IF Stored(old.run) THEN Run(old.run).items ELSE {}
  OBVIOUS
<1>3. PICK more : more = [seen |-> seen]
  OBVIOUS
<1>4. /\ pc[h] = "updateRun" /\ old.payload.items # None /\ Carry(h, "newItems", more)
      /\ torn' = IF Others(h, {"newItems"}, "run", old.run) = {} THEN torn ELSE torn \cup {old.run}
      /\ UNCHANGED <<rows, runs, rushed, doubled, erased>>
  BY <1>1, <1>2, <1>3 DEF UpdateDeleteItems, payroll
<1>5. PICK r : r = With(more, old)
  OBVIOUS
<1>6. PayMoves(h, "newItems", r) /\ begun' = begun /\ begun' \in Nat
  BY <1>1, <1>4, <1>5, PayCarriesOn DEF PayAwaits
<1>7. RunSide /\ begun \in Nat
  BY DEF PayInv, RunSide
<1>8. RunCarries("updateRun", old)
  BY <1>1, <1>4, <1>7 DEF RunSide
<1>9. /\ {"run", "payload", "no", "seen"} \subseteq DOMAIN r
      /\ r.run = old.run /\ r.payload = old.payload /\ r.no = old.no /\ r.seen = seen
  <2>1. DOMAIN more = {"seen"} /\ more["seen"] = seen
    BY <1>3
  <2>2. r = [x \in DOMAIN more \cup DOMAIN old |-> IF x \in DOMAIN more THEN more[x] ELSE old[x]]
    BY <1>5 DEF With
  <2>3. {"run", "payload", "no"} \subseteq DOMAIN old
    BY <1>8 DEF RunCarries
  <2>4. QED
    BY <2>1, <2>2, <2>3
<1>10. \A s \in runs : s.id = old.run => s.items \subseteq seen
  <2>1. TAKE s \in runs
  <2>2. HAVE s.id = old.run
  <2>3. Stored(old.run) /\ Run(old.run) = s
    BY <1>7, <2>2, RunFound
  <2>4. QED
    BY <1>2, <2>3
<1>11. RunCarries("newItems", r)'
  <2>1. \A s \in runs' : s.id = r.run => s.items \subseteq r.seen
    BY <1>4, <1>9, <1>10
  <2>2. r.run \in Nat \X Nat /\ r.run[1] <= begun' /\ r.payload \in Payloads /\ r.no \in Nat /\ r.payload.items # None
    BY <1>4, <1>6, <1>8, <1>9 DEF RunCarries
  <2>3. QED
    BY <1>9, <2>1, <2>2 DEF RunCarries
<1>12. ASSUME NEW g \in Handlers \ {h}, NEW q, NEW s, q = pc[g], s = local[g]
       PROVE  RunsApart("newItems", r, q, s)' /\ RunsApart(q, s, "newItems", r)'
  <2>1. q = "persist" => \A d \in s.dates : r.run # <<s.no, d>>
    <3>1. RunsApart(q, s, "updateRun", old)
      BY <1>1, <1>4, <1>7, <1>12 DEF RunSide
    <3>2. QED
      BY <1>9, <3>1 DEF RunsApart
  <2>2. q = "newItems" /\ s.run = r.run => r.run \in torn'
    BY <1>4, <1>9, <1>12 DEF Others
  <2>3. QED
    BY <2>1, <2>2 DEF RunsApart
<1>13. QED
  <2>1. \A g \in Handlers \ {h} : \A q, s : q = pc[g] /\ s = local[g] /\ RunCarries(q, s) =>
          RunsApart("newItems", r, q, s)' /\ RunsApart(q, s, "newItems", r)'
    BY <1>12
  <2>2. runs' \subseteq runs /\ doubled \subseteq doubled' /\ torn \subseteq torn' /\ erased' \subseteq torn'
    BY <1>4, <1>7 DEF RunSide
  <2>3. begun <= begun'
    BY <1>6, <1>7
  <2>4. QED
    BY <1>4, <1>6, <1>11, <2>1, <2>2, <2>3, NothingWritten

\* The run that is stored with these items.
LEMMA RunStored ==
  ASSUME NEW no \in Nat, NEW d \in Nat, NEW auto \in BOOLEAN, NEW status \in {"draft", "paid"},
         NEW items \in SUBSET PlainItem, IsFiniteSet(items), PaidOnce(items), NEW new,
         new = [id |-> <<no, d>>, date |-> d, auto |-> auto, status |-> status,
                items |-> Signed(no, items), total |-> Total(items)]
  PROVE  /\ new \in RunType /\ new.id = <<no, d>> /\ new.date = d /\ new.auto = auto
         /\ new.total = Total(new.items) /\ PaidOnce(new.items)
<1>1. PICK signed \in SUBSET SignedItem : signed = Signed(no, items)
  BY SignedTotal
<1>2. PaidOnce(signed) /\ Total(signed) = Total(items)
  BY <1>1, SignedTotal
<1>3. PICK total \in {Total(x) : x \in SUBSET SignedItem} : total = Total(signed)
  OBVIOUS
<1>4. new = [id |-> <<no, d>>, date |-> d, auto |-> auto, status |-> status, items |-> signed, total |-> total]
  BY <1>1, <1>2, <1>3
<1>5. new \in RunType
  BY <1>4 DEF RunType
<1>6. QED
  BY <1>2, <1>3, <1>4, <1>5

LEMMA KeptWithNew ==
  ASSUME RunsKept, NEW new \in RunType, runs' \subseteq runs \cup {new}, \A s \in runs : s.id # new.id,
         new.auto => \A s \in runs : s.auto /\ s.date = new.date => new.date \in doubled,
         new.id[1] <= begun', new.total = Total(new.items), PaidOnce(new.items),
         begun \in Nat, begun' \in Nat, begun <= begun', UNCHANGED <<rushed, doubled, torn, erased>>
  PROVE  RunsKept'
<1>1. ASSUME NEW items, PaidOnce(items)
      PROVE  PaidOnce(items)'
  BY <1>1 DEF PaidOnce
<1>2. ASSUME NEW r \in runs'
      PROVE  r.id[1] <= begun' /\ (r.total = Total(r.items) \/ r.id \in torn') /\ PaidOnce(r.items)'
  <2>1. CASE r = new
    BY <1>1, <2>1
  <2>2. CASE r # new
    <3>1. r \in runs /\ r.id[1] \in Nat /\ r.id[1] <= begun /\ (r.total = Total(r.items) \/ r.id \in torn) /\ PaidOnce(r.items)
      BY <2>2 DEF RunsKept, RunType
    <3>2. r.id[1] <= begun'
      BY <3>1
    <3>3. QED
      BY <1>1, <3>1, <3>2
  <2>3. QED
    BY <2>1, <2>2
<1>3. runs' \subseteq RunType /\ erased' \subseteq torn'
  BY DEF RunsKept
<1>4. ASSUME NEW r \in runs', NEW s \in runs', r.id = s.id
      PROVE  r = s
  BY <1>4 DEF RunsKept
<1>5. ASSUME NEW r \in runs', NEW s \in runs', r.auto, s.auto, r.date = s.date
      PROVE  r = s \/ r.date \in doubled'
  <2>1. CASE r \in runs /\ s \in runs
    BY <1>5, <2>1 DEF RunsKept
  <2>2. CASE r = new /\ s \in runs
    BY <1>5, <2>2
  <2>3. CASE r \in runs /\ s = new
    BY <1>5, <2>3
  <2>4. CASE r = new /\ s = new
    BY <2>4
  <2>5. QED
    BY <2>1, <2>2, <2>3, <2>4
<1>6. QED
  BY <1>2, <1>3, <1>4, <1>5 DEF RunsKept, PaidOnce

LEMMA CarriesWithNew ==
  ASSUME NEW p, NEW r, RunCarries(p, r), NEW new, runs' \subseteq runs \cup {new},
         begun \in Nat, begun' \in Nat, begun <= begun', UNCHANGED <<rushed, doubled, torn>>,
         p = "persist" => \A d \in r.dates : new.id # <<r.no, d>> /\ (new.auto /\ new.date = d => d \in doubled),
         p \in {"newItems", "deleteRun"} => new.id # r.run
  PROVE  RunCarries(p, r)'
<1>1. ASSUME NEW items, PaidOnce(items)
      PROVE  PaidOnce(items)'
  BY <1>1 DEF PaidOnce
<1>2. ASSUME NEW n \in Nat, n <= begun
      PROVE  n <= begun'
  BY <1>2
<1>3. p = "persist" =>
        /\ {"dates", "people", "no"} \subseteq DOMAIN r /\ r.no \in Nat /\ r.no <= begun' /\ r.dates \subseteq 1..Weeks
        /\ \A d \in r.dates :
             /\ r.people[d] \subseteq PlainItem /\ IsFiniteSet(r.people[d]) /\ PaidOnce(r.people[d])'
             /\ \A s \in runs' : (s.auto /\ s.date = d => d \in doubled') /\ s.id # <<r.no, d>>
  BY <1>1, <1>2 DEF RunCarries
<1>4. p \in {"updateRun", "newItems", "deleteRun"} =>
        "run" \in DOMAIN r /\ r.run \in Nat \X Nat /\ r.run[1] <= begun'
  BY <1>2 DEF RunCarries
<1>5. p = "newItems" => r.run \in torn' \/ \A s \in runs' : s.id = r.run => s.items \subseteq r.seen
  BY DEF RunCarries
<1>6. p = "deleteRun" => \A s \in runs' : s.id = r.run /\ s.status = "paid" => r.run \in torn'
  BY DEF RunCarries
<1>7. QED
  BY <1>3, <1>4, <1>5, <1>6 DEF RunCarries, PaidOnce

LEMMA CreatePayrollRunKeeps ==
  ASSUME PayInv, NEW d \in 1..Weeks, NEW items \in Items, CreatePayrollRun(d, items)
  PROVE  PayInv'
<1>1. PICK no : no = begun + 1
  OBVIOUS
<1>2. PICK auto \in BOOLEAN : auto = FALSE
  OBVIOUS
<1>3. PICK new : new = [id |-> <<no, d>>, date |-> d, auto |-> auto, status |-> "draft",
                        items |-> Signed(no, items), total |-> Total(items)]
  OBVIOUS
<1>4. /\ begun' = begun + 1 /\ runs' = runs \cup {new}
      /\ UNCHANGED <<rows, rushed, doubled, torn, erased, pc, local>>
  BY <1>1, <1>2, <1>3 DEF CreatePayrollRun
<1>5. RunSide /\ RunsKept /\ begun \in Nat /\ no \in Nat /\ begun' \in Nat /\ begun <= begun' /\ d \in Nat
  BY <1>1, <1>4 DEF PayInv, RunSide, RunsKept
<1>6. items \in SUBSET PlainItem /\ IsFiniteSet(items) /\ PaidOnce(items)
  <2>1. CASE items = {}
    BY <2>1, FS_EmptySet DEF PaidOnce
  <2>2. CASE items # {}
    <3>1. PICK i : i = [row |-> 0, who |-> None, amount |-> 1]
      OBVIOUS
    <3>2. i \in PlainItem
      BY <3>1 DEF PlainItem
    <3>3. items = {i}
      BY <2>2, <3>1 DEF Items
    <3>4. IsFiniteSet(items)
      BY <3>3, FS_Singleton
    <3>5. QED
      BY <3>2, <3>3, <3>4 DEF PaidOnce
  <2>3. QED
    BY <2>1, <2>2
<1>7. /\ new \in RunType /\ new.id = <<no, d>> /\ new.date = d /\ ~new.auto
      /\ new.total = Total(new.items) /\ PaidOnce(new.items)
  BY <1>2, <1>3, <1>5, <1>6, RunStored
<1>8. \A s \in runs : s.id # new.id
  <2>1. TAKE s \in runs
  <2>2. s.id[1] \in Nat /\ s.id[1] <= begun
    BY <1>5 DEF RunsKept, RunType
  <2>3. QED
    BY <1>1, <1>5, <1>7, <2>2
<1>9. RunsKept'
  <2>1. new.id[1] <= begun'
    BY <1>1, <1>4, <1>5, <1>7
  <2>2. QED
    BY <1>4, <1>5, <1>7, <1>8, <2>1, KeptWithNew
<1>10. ASSUME NEW g \in Handlers
       PROVE  RunCarries(pc[g], local[g])'
  <2>1. PICK q, s : q = pc[g] /\ s = local[g]
    OBVIOUS
  <2>2. RunCarries(q, s)
    BY <1>5, <2>1 DEF RunSide
  <2>3. q = "persist" => \A e \in s.dates : new.id # <<s.no, e>>
    BY <1>1, <1>5, <1>7, <2>2 DEF RunCarries
  <2>4. q \in {"newItems", "deleteRun"} => new.id # s.run
    BY <1>1, <1>5, <1>7, <2>2 DEF RunCarries
  <2>5. RunCarries(q, s)'
    BY <1>4, <1>5, <1>7, <2>2, <2>3, <2>4, CarriesWithNew
  <2>6. pc'[g] = q /\ local'[g] = s
    BY <1>4, <2>1
  <2>7. QED
    BY <2>5, <2>6 DEF RunCarries, PaidOnce
<1>11. ASSUME NEW g \in Handlers, NEW k \in Handlers, g # k
       PROVE  RunsApart(pc[g], local[g], pc[k], local[k])'
  <2>1. RunsApart(pc[g], local[g], pc[k], local[k])
    BY <1>5, <1>11 DEF RunSide
  <2>2. QED
    BY <1>4, <2>1 DEF RunsApart
<1>12. RunSide'
  BY <1>5, <1>9, <1>10, <1>11 DEF RunSide, RunsKept
<1>13. StaffSide'
  BY <1>4, StaffSideStays
<1>14. QED
  BY <1>4, <1>12, <1>13 DEF PayInv

LEMMA PersistKeeps ==
  ASSUME PayInv, NEW h \in Handlers, Persist(h)
  PROVE  PayInv'
<1>1. PICK old : old = local[h]
  OBVIOUS
<1>2. PICK d : d = Min(old.dates)
  OBVIOUS
<1>3. PICK auto \in BOOLEAN : auto = TRUE
  OBVIOUS
<1>4. PICK new : new = [id |-> <<old.no, d>>, date |-> d, auto |-> auto, status |-> "paid",
                        items |-> Signed(old.no, old.people[d]), total |-> Total(old.people[d])]
  OBVIOUS
<1>5. PICK more : more = [dates |-> old.dates \ {d}]
  OBVIOUS
<1>6. /\ pc[h] = "persist" /\ old.dates # {}
      /\ runs' = runs \cup {new} \/ runs' = runs
      /\ Carry(h, "persist", more)
      /\ UNCHANGED <<rows, rushed, doubled, torn, erased>>
  BY <1>1, <1>2, <1>3, <1>4, <1>5 DEF Persist
<1>7. PICK r : r = With(more, old)
  OBVIOUS
<1>8. PayMoves(h, "persist", r) /\ begun' = begun /\ begun' \in Nat
  BY <1>1, <1>6, <1>7, PayCarriesOn DEF PayAwaits
<1>9. RunSide /\ RunsKept /\ begun \in Nat /\ begun <= begun'
  BY <1>8 DEF PayInv, RunSide, RunsKept
<1>10. RunCarries("persist", old)
  BY <1>1, <1>6, <1>9 DEF RunSide
<1>11. {"dates", "people", "no"} \subseteq DOMAIN old /\ old.no \in Nat /\ old.no <= begun /\ old.dates \subseteq 1..Weeks
  BY <1>10 DEF RunCarries
<1>12. d \in old.dates /\ d \in Nat
  <2>1. old.dates \subseteq Nat
    BY <1>11
  <2>2. QED
    BY <1>2, <1>6, <2>1, MinIs
<1>13. /\ old.people[d] \in SUBSET PlainItem /\ IsFiniteSet(old.people[d]) /\ PaidOnce(old.people[d])
       /\ \A s \in runs : (s.auto /\ s.date = d => d \in doubled) /\ s.id # <<old.no, d>>
  BY <1>10, <1>12 DEF RunCarries
<1>14. /\ new \in RunType /\ new.id = <<old.no, d>> /\ new.date = d /\ new.auto
       /\ new.total = Total(new.items) /\ PaidOnce(new.items)
  <2>1. PICK items \in SUBSET PlainItem : items = old.people[d] /\ IsFiniteSet(items) /\ PaidOnce(items)
    BY <1>13
  <2>2. PICK no \in Nat : no = old.no
    BY <1>11
  <2>3. new = [id |-> <<no, d>>, date |-> d, auto |-> auto, status |-> "paid",
               items |-> Signed(no, items), total |-> Total(items)]
    BY <1>4, <2>1, <2>2
  <2>4. /\ new \in RunType /\ new.id = <<no, d>> /\ new.date = d /\ new.auto = auto
        /\ new.total = Total(new.items) /\ PaidOnce(new.items)
    BY <1>12, <2>1, <2>3, RunStored
  <2>5. QED
    BY <1>3, <2>2, <2>4
<1>15. {"dates", "people", "no"} \subseteq DOMAIN r /\ r.dates = old.dates \ {d} /\ r.people = old.people /\ r.no = old.no
  <2>1. DOMAIN more = {"dates"} /\ more["dates"] = old.dates \ {d}
    BY <1>5
  <2>2. r = [x \in DOMAIN more \cup DOMAIN old |-> IF x \in DOMAIN more THEN more[x] ELSE old[x]]
    BY <1>7 DEF With
  <2>3. QED
    BY <1>11, <2>1, <2>2
<1>16. RunCarries("persist", r)
  <2>1. ASSUME NEW e \in r.dates
        PROVE  /\ r.people[e] \subseteq PlainItem /\ IsFiniteSet(r.people[e]) /\ PaidOnce(r.people[e])
               /\ \A s \in runs : (s.auto /\ s.date = e => e \in doubled) /\ s.id # <<r.no, e>>
    <3>1. e \in old.dates /\ r.people[e] = old.people[e] /\ r.no = old.no
      BY <1>15
    <3>2. /\ old.people[e] \subseteq PlainItem /\ IsFiniteSet(old.people[e]) /\ PaidOnce(old.people[e])
          /\ \A s \in runs : (s.auto /\ s.date = e => e \in doubled) /\ s.id # <<old.no, e>>
      BY <1>10, <3>1 DEF RunCarries
    <3>3. QED
      BY <3>1, <3>2
  <2>2. r.no \in Nat /\ r.no <= begun /\ r.dates \subseteq 1..Weeks
    BY <1>11, <1>15
  <2>3. QED
    BY <1>15, <2>1, <2>2 DEF RunCarries
<1>17. runs' \subseteq runs \cup {new}
  BY <1>6
<1>18. RunsKept'
  <2>1. new.id[1] <= begun'
    BY <1>8, <1>11, <1>14
  <2>2. new.auto => \A s \in runs : s.auto /\ s.date = new.date => new.date \in doubled
    BY <1>13, <1>14
  <2>3. \A s \in runs : s.id # new.id
    BY <1>13, <1>14
  <2>4. QED
    BY <1>6, <1>8, <1>9, <1>14, <1>17, <2>1, <2>2, <2>3, KeptWithNew
<1>19. RunCarries("persist", r)'
  <2>1. \A e \in r.dates : new.id # <<r.no, e>> /\ (new.auto /\ new.date = e => e \in doubled)
    BY <1>14, <1>15
  <2>2. QED
    BY <1>6, <1>8, <1>9, <1>16, <1>17, <2>1, CarriesWithNew
<1>20. ASSUME NEW g \in Handlers \ {h}, NEW q, NEW s, q = pc[g], s = local[g]
       PROVE  RunCarries(q, s)' /\ RunsApart("persist", r, q, s)' /\ RunsApart(q, s, "persist", r)'
  <2>1. RunCarries(q, s) /\ RunsApart("persist", old, q, s) /\ RunsApart(q, s, "persist", old)
    BY <1>1, <1>6, <1>9, <1>20 DEF RunSide
  <2>2. RunsApart("persist", r, q, s)' /\ RunsApart(q, s, "persist", r)'
    BY <1>6, <1>15, <2>1 DEF RunsApart
  <2>3. q = "persist" => \A e \in s.dates : new.id # <<s.no, e>> /\ (new.auto /\ new.date = e => e \in doubled)
    BY <1>12, <1>14, <2>1 DEF RunsApart
  <2>4. q \in {"newItems", "deleteRun"} => new.id # s.run
    BY <1>12, <1>14, <2>1 DEF RunsApart
  <2>5. RunCarries(q, s)'
    BY <1>6, <1>8, <1>9, <1>17, <2>1, <2>3, <2>4, CarriesWithNew
  <2>6. QED
    BY <2>2, <2>5
<1>21. RunSide'
  <2>1. \A g \in Handlers \ {h} : \A q, s : q = pc[g] /\ s = local[g] =>
          RunCarries(q, s)' /\ RunsApart("persist", r, q, s)' /\ RunsApart(q, s, "persist", r)'
    BY <1>20
  <2>2. doubled \subseteq doubled' /\ torn \subseteq torn'
    BY <1>6
  <2>3. QED
    BY <1>8, <1>18, <1>19, <2>1, <2>2, RunSideAfter
<1>22. StaffSide'
  <2>1. \A g \in Handlers : (pc'[g] = pc[g] /\ local'[g] = local[g]) \/ pc'[g] \notin {"staff", "rep"}
    BY <1>8 DEF PayMoves
  <2>2. QED
    BY <1>6, <2>1, StaffSideStays
<1>23. QED
  BY <1>8, <1>21, <1>22 DEF PayInv, PayMoves

\* A run is replaced by another version of itself.
LEMMA KeptReplaced ==
  ASSUME RunsKept, NEW run \in runs, NEW new \in RunType, runs' = (runs \ {run}) \cup {new},
         new.id = run.id, new.date = run.date, new.auto => run.auto,
         new.total = Total(new.items) \/ new.id \in torn, PaidOnce(new.items),
         UNCHANGED <<begun, rushed, doubled, erased>>, torn \subseteq torn'
  PROVE  RunsKept'
<1>1. ASSUME NEW items, PaidOnce(items)
      PROVE  PaidOnce(items)'
  BY <1>1 DEF PaidOnce
<1>2. ASSUME NEW r \in runs'
      PROVE  r.id[1] <= begun' /\ (r.total = Total(r.items) \/ r.id \in torn') /\ PaidOnce(r.items)'
  <2>1. CASE r = new
    BY <1>1, <2>1 DEF RunsKept
  <2>2. CASE r # new
    BY <1>1, <2>2 DEF RunsKept
  <2>3. QED
    BY <2>1, <2>2
<1>3. runs' \subseteq RunType /\ erased' \subseteq torn'
  BY DEF RunsKept
<1>4. ASSUME NEW r \in runs', NEW s \in runs', r.id = s.id
      PROVE  r = s
  BY <1>4 DEF RunsKept
<1>5. ASSUME NEW r \in runs', NEW s \in runs', r.auto, s.auto, r.date = s.date
      PROVE  r = s \/ r.date \in doubled'
  BY <1>5 DEF RunsKept
<1>6. QED
  BY <1>2, <1>3, <1>4, <1>5 DEF RunsKept, PaidOnce

LEMMA CarriesReplaced ==
  ASSUME NEW p, NEW r, RunCarries(p, r), NEW run \in runs, NEW new, runs' = (runs \ {run}) \cup {new},
         new.id = run.id, new.date = run.date, new.auto => run.auto,
         UNCHANGED <<begun, rushed, doubled>>, torn \subseteq torn',
         p = "newItems" /\ r.run = new.id => new.items = run.items \/ r.run \in torn,
         p = "deleteRun" /\ r.run = new.id => r.run \in torn'
  PROVE  RunCarries(p, r)'
<1>1. ASSUME NEW items, PaidOnce(items)
      PROVE  PaidOnce(items)'
  BY <1>1 DEF PaidOnce
<1>2. p = "persist" =>
        /\ {"dates", "people", "no"} \subseteq DOMAIN r /\ r.no \in Nat /\ r.no <= begun' /\ r.dates \subseteq 1..Weeks
        /\ \A d \in r.dates :
             /\ r.people[d] \subseteq PlainItem /\ IsFiniteSet(r.people[d]) /\ PaidOnce(r.people[d])'
             /\ \A s \in runs' : (s.auto /\ s.date = d => d \in doubled') /\ s.id # <<r.no, d>>
  BY <1>1 DEF RunCarries
<1>3. p = "newItems" => r.run \in torn' \/ \A s \in runs' : s.id = r.run => s.items \subseteq r.seen
  <2>1. CASE p = "newItems" /\ r.run \notin torn'
    <3>1. r.run \notin torn /\ \A s \in runs : s.id = r.run => s.items \subseteq r.seen
      BY <2>1 DEF RunCarries
    <3>2. ASSUME NEW s \in runs', s.id = r.run
          PROVE  s.items \subseteq r.seen
      <4>1. CASE s = new
        <5>1. new.items = run.items /\ run.id = r.run
          BY <2>1, <3>1, <3>2, <4>1
        <5>2. QED
          BY <3>1, <4>1, <5>1
      <4>2. CASE s # new
        BY <3>1, <3>2, <4>2
      <4>3. QED
        BY <4>1, <4>2
    <3>3. QED
      BY <3>2
  <2>2. QED
    BY <2>1
<1>4. p = "deleteRun" => \A s \in runs' : s.id = r.run /\ s.status = "paid" => r.run \in torn'
  BY DEF RunCarries
<1>5. QED
  BY <1>2, <1>3, <1>4 DEF RunCarries, PaidOnce

\* What the update makes of a stored run.
Changed(run, r, p) ==
  [run EXCEPT !.status = IF p.status = None THEN @ ELSE p.status,
              !.auto = @ /\ ~p.untag,
              !.items = IF p.items = None THEN @
                        ELSE (@ \ r.seen) \cup Signed(r.no, IF p.items = None THEN {} ELSE p.items),
              !.total = IF p.items = None THEN @
                        ELSE Total(Signed(r.no, IF p.items = None THEN {} ELSE p.items))]

LEMMA RunUpdated ==
  ASSUME PayInv, NEW h \in Handlers, NEW run \in runs, NEW r, r = local[h], NEW p, p = r.payload, run.id = r.run,
         pc[h] \in {"updateRun", "newItems"}, pc[h] = "updateRun" => p.items = None,
         p \in Payloads, r.no \in Nat,
         pc[h] = "newItems" => r.run \in torn \/ run.items \subseteq r.seen,
         NEW new,
         new = Changed(run, r, p)
  PROVE  /\ new \in RunType /\ new.id = run.id /\ new.date = run.date /\ (new.auto => run.auto)
         /\ new.total = Total(new.items) \/ new.id \in torn
         /\ PaidOnce(new.items) /\ (p.items = None => new.items = run.items)
<1>1. RunSide /\ run \in RunType
  BY DEF PayInv, RunSide
<1>2. PICK fresh : fresh = Signed(r.no, IF p.items = None THEN {} ELSE p.items)
  OBVIOUS
<1>3. /\ p.items \in {None} \cup Items /\ p.status \in {None, "draft", "paid"} /\ p.untag \in BOOLEAN
  BY DEF Payloads
<1>4. p.items # None => p.items \in SUBSET PlainItem /\ IsFiniteSet(p.items) /\ \A i \in p.items : i.who = None
  <2>1. CASE p.items = {}
    BY <2>1, FS_EmptySet
  <2>2. CASE p.items \notin {None, {}}
    <3>1. PICK i : i = [row |-> 0, who |-> None, amount |-> 1]
      OBVIOUS
    <3>2. i \in PlainItem /\ i.who = None
      BY <3>1 DEF PlainItem
    <3>3. p.items = {i}
      BY <1>3, <2>2, <3>1 DEF Items
    <3>4. IsFiniteSet(p.items)
      BY <3>3, FS_Singleton
    <3>5. QED
      BY <3>2, <3>3, <3>4
  <2>3. QED
    BY <2>1, <2>2
<1>5. p.items # None => fresh \in SUBSET SignedItem /\ \A s \in fresh : s.who = None
  <2>1. SUFFICES ASSUME p.items # None
                 PROVE  fresh \in SUBSET SignedItem /\ \A s \in fresh : s.who = None
    OBVIOUS
  <2>2. PICK items : items = p.items
    OBVIOUS
  <2>3. fresh = Signed(r.no, items) /\ items \in SUBSET PlainItem /\ IsFiniteSet(items) /\ \A i \in items : i.who = None
    BY <1>2, <1>4, <2>1, <2>2
  <2>4. /\ Signed(r.no, items) \in SUBSET SignedItem
        /\ \A s \in Signed(r.no, items) : \E i \in items : s.who = i.who
    BY <2>3, SignedTotal
  <2>5. QED
    BY <2>3, <2>4
<1>6. PICK status : status = IF p.status = None THEN run.status ELSE p.status
  OBVIOUS
<1>7. PICK items : items = IF p.items = None THEN run.items ELSE (run.items \ r.seen) \cup fresh
  OBVIOUS
<1>8. PICK total : total = IF p.items = None THEN run.total ELSE Total(fresh)
  OBVIOUS
<1>9. PICK auto : auto = (run.auto /\ ~p.untag)
  OBVIOUS
<1>10. new = [run EXCEPT !.status = status, !.auto = auto, !.items = items, !.total = total]
  BY <1>2, <1>6, <1>7, <1>8, <1>9 DEF Changed
<1>11. auto \in BOOLEAN /\ (auto => run.auto)
  BY <1>1, <1>3, <1>9 DEF RunType
<1>12. status \in {"draft", "paid"}
  BY <1>1, <1>3, <1>6 DEF RunType
<1>13. items \in SUBSET SignedItem
  BY <1>1, <1>5, <1>7 DEF RunType
<1>14. total \in {Total(x) : x \in SUBSET SignedItem}
  <2>1. CASE p.items = None
    BY <1>1, <1>8, <2>1 DEF RunType
  <2>2. CASE p.items # None
    <3>1. total = Total(fresh) /\ fresh \in SUBSET SignedItem
      BY <1>5, <1>8, <2>2
    <3>2. QED
      BY <3>1
  <2>3. QED
    BY <2>1, <2>2
<1>15. /\ new \in RunType /\ new.id = run.id /\ new.date = run.date /\ new.auto = auto
       /\ new.items = items /\ new.total = total
  <2>1. run = [id |-> run.id, date |-> run.date, auto |-> run.auto, status |-> run.status,
               items |-> run.items, total |-> run.total]
        /\ run.id \in Nat \X Nat /\ run.date \in Nat
    BY <1>1 DEF RunType
  <2>2. new = [id |-> run.id, date |-> run.date, auto |-> auto, status |-> status, items |-> items, total |-> total]
    BY <1>10, <2>1
  <2>3. PICK id \in Nat \X Nat : id = run.id
    BY <2>1
  <2>4. PICK date \in Nat : date = run.date
    BY <2>1
  <2>5. new = [id |-> id, date |-> date, auto |-> auto, status |-> status, items |-> items, total |-> total]
    BY <2>2, <2>3, <2>4
  <2> DEFINE totals == {Total(x) : x \in SUBSET SignedItem}
  <2>6. RunType = [id : Nat \X Nat, date : Nat, auto : BOOLEAN, status : {"draft", "paid"},
                   items : SUBSET SignedItem, total : totals]
    BY DEF RunType
  <2>7. total \in totals
    BY <1>14
  <2> HIDE DEF totals
  <2>8. new \in [id : Nat \X Nat, date : Nat, auto : BOOLEAN, status : {"draft", "paid"},
                 items : SUBSET SignedItem, total : totals]
    BY <1>11, <1>12, <1>13, <2>5, <2>7
  <2>9. new \in RunType
    BY <2>6, <2>8
  <2>10. /\ new.id = id /\ new.date = date /\ new.auto = auto /\ new.items = items /\ new.total = total
    BY ONLY <2>5
  <2>11. QED
    BY <2>3, <2>4, <2>9, <2>10
<1>16. PaidOnce(run.items) /\ (run.total = Total(run.items) \/ run.id \in torn)
  BY <1>1 DEF RunSide
<1>17. total = Total(items) \/ run.id \in torn
  <2>1. CASE p.items = None
    BY <1>7, <1>8, <1>16, <2>1
  <2>2. CASE p.items # None
    <3>1. r.run \in torn \/ items = fresh
      <4>1. r.run \in torn \/ run.items \subseteq r.seen
        BY <2>2
      <4>2. run.items \subseteq r.seen => (run.items \ r.seen) \cup fresh = fresh
        OBVIOUS
      <4>3. items = (run.items \ r.seen) \cup fresh
        BY <1>7, <2>2
      <4>4. QED
        BY <4>1, <4>2, <4>3
    <3>2. QED
      BY <1>8, <2>2, <3>1
  <2>3. QED
    BY <2>1, <2>2
<1>18. PaidOnce(items)
  BY <1>5, <1>7, <1>16 DEF PaidOnce
<1>19. QED
  BY <1>7, <1>11, <1>15, <1>17, <1>18

LEMMA UpdatePayrollRunKeeps ==
  ASSUME PayInv, NEW h \in Handlers, UpdatePayrollRun(h)
  PROVE  PayInv'
<1>1. PICK r : r = local[h]
  OBVIOUS
<1>2. PICK p : p = r.payload
  OBVIOUS
<1>3. pc[h] \in {"updateRun", "newItems"} /\ (pc[h] = "updateRun" => p.items = None) /\ Answer(h)
      /\ UNCHANGED <<rows, rushed, doubled, erased>>
  BY <1>1, <1>2 DEF UpdatePayrollRun
<1>4. RunSide /\ RunsKept /\ begun \in Nat
  BY DEF PayInv, RunSide, RunsKept
<1>5. CASE ~Stored(r.run)
  <2>1. UNCHANGED <<runs, torn>>
    BY <1>1, <1>5 DEF UpdatePayrollRun
  <2>2. erased' \subseteq torn /\ runs' \subseteq runs
    BY <1>3, <1>4, <2>1 DEF RunSide
  <2>3. QED
    BY <1>3, <2>1, <2>2, EndKeeps
<1>6. CASE Stored(r.run)
  <2>1. PICK run \in runs : run = Run(r.run) /\ run.id = r.run
    BY <1>6 DEF Stored, Run
  <2>2. PICK new : new = Changed(run, r, p)
    OBVIOUS
  <2>3. /\ runs' = (runs \ {run}) \cup {new}
        /\ torn' = IF Others(h, {"deleteRun"}, "run", r.run) = {} THEN torn ELSE torn \cup {r.run}
    BY <1>1, <1>2, <1>6, <2>1, <2>2 DEF UpdatePayrollRun, Changed
  <2>4. RunCarries(pc[h], r)
    BY <1>1, <1>4 DEF RunSide
  <2>5. p \in Payloads /\ r.no \in Nat /\ (pc[h] = "newItems" => p.items # None)
    BY <1>2, <1>3, <2>4 DEF RunCarries
  <2>6. pc[h] = "newItems" => r.run \in torn \/ run.items \subseteq r.seen
    BY <2>1, <2>4 DEF RunCarries
  <2>7. /\ new \in RunType /\ new.id = run.id /\ new.date = run.date /\ (new.auto => run.auto)
        /\ new.total = Total(new.items) \/ new.id \in torn
        /\ PaidOnce(new.items) /\ (p.items = None => new.items = run.items)
    BY <1>1, <1>2, <1>3, <2>1, <2>2, <2>5, <2>6, RunUpdated
  <2>8. PayMoves(h, "idle", Nothing) /\ begun' = begun /\ begun' \in Nat
    BY <1>3, PayAnswers
  <2>9. torn \subseteq torn' /\ doubled \subseteq doubled' /\ UNCHANGED <<begun, rushed, doubled, erased>>
    BY <1>3, <2>3, <2>8
  <2>10. RunsKept'
    BY <1>4, <2>3, <2>7, <2>9, KeptReplaced
  <2>11. ASSUME NEW g \in Handlers \ {h}, NEW q, NEW s, q = pc[g], s = local[g]
         PROVE  RunCarries(q, s)'
    <3>1. RunCarries(q, s)
      BY <1>4, <2>11 DEF RunSide
    <3>2. q = "newItems" /\ s.run = new.id => new.items = run.items \/ s.run \in torn
      <4>1. CASE pc[h] = "newItems"
        <5>1. RunsApart("newItems", r, q, s)
          BY <1>1, <1>4, <2>11, <4>1 DEF RunSide
        <5>2. QED
          BY <2>1, <2>7, <5>1 DEF RunsApart
      <4>2. CASE pc[h] # "newItems"
        BY <1>3, <2>7, <4>2
      <4>3. QED
        BY <4>1, <4>2
    <3>3. q = "deleteRun" /\ s.run = new.id => s.run \in torn'
      BY <2>1, <2>3, <2>7, <2>11 DEF Others
    <3>4. QED
      BY <2>3, <2>7, <2>9, <3>1, <3>2, <3>3, CarriesReplaced
  <2>12. RunSide'
    <3>1. \A g \in Handlers \ {h} : \A q, s : q = pc[g] /\ s = local[g] =>
            RunCarries(q, s)' /\ RunsApart("idle", Nothing, q, s)' /\ RunsApart(q, s, "idle", Nothing)'
      BY <2>11, IdleFits
    <3>2. RunCarries("idle", Nothing)'
      BY IdleFits
    <3>3. QED
      BY <2>8, <2>9, <2>10, <3>1, <3>2, RunSideAfter
  <2>13. StaffSide'
    <3>1. \A g \in Handlers : (pc'[g] = pc[g] /\ local'[g] = local[g]) \/ pc'[g] \notin {"staff", "rep"}
      BY <2>8 DEF PayMoves
    <3>2. QED
      BY <1>3, <3>1, StaffSideStays
  <2>14. QED
    BY <2>8, <2>12, <2>13 DEF PayInv, PayMoves
<1>7. QED
  BY <1>5, <1>6

LEMMA RunsStep ==
  ASSUME PayInv, RunsNext
  PROVE  PayInv'
<1>1. ASSUME NEW d \in 1..Weeks, NEW items \in Items, CreatePayrollRun(d, items)
      PROVE  PayInv'
  BY <1>1, CreatePayrollRunKeeps
<1>2. ASSUME NEW h \in Handlers, NEW year \in 1..2, NEW upto \in 2..Weeks + 1, GetPayrollHistory(h, year, upto)
      PROVE  PayInv'
  <2>1. year \in Nat /\ upto \in Nat
    BY PayrollAssumption
  <2>2. QED
    BY <1>2, <2>1, GetPayrollHistoryKeeps
<1>3. ASSUME NEW h \in Handlers, NEW r \in runs, NEW p \in Payloads, UpdateFind(h, r, p)
      PROVE  PayInv'
  BY <1>3, UpdateFindKeeps
<1>4. ASSUME NEW h \in Handlers, NEW r \in runs, DeleteFind(h, r)
      PROVE  PayInv'
  BY <1>4, DeleteFindKeeps
<1>5. ASSUME NEW h \in Handlers,
             \/ Persist(h) \/ HistoryEnd(h) \/ UpdateDeleteItems(h) \/ UpdatePayrollRun(h)
             \/ DeletePayrollRun(h) \/ PayrollFail(h)
      PROVE  PayInv'
  BY <1>5, PersistKeeps, HistoryEndKeeps, UpdateDeleteItemsKeeps, UpdatePayrollRunKeeps, DeletePayrollRunKeeps
<1>6. QED
  BY <1>1, <1>2, <1>3, <1>4, <1>5 DEF RunsNext

LEMMA PayStarts ==
  ASSUME PayrollInit, RequestsInit
  PROVE  PayInv
<1>1. pc = [h \in Handlers |-> "idle"] /\ local = [h \in Handlers |-> Nothing] /\ begun = 0
  BY DEF RequestsInit
<1>2. /\ rows \in {{}} \cup {{[id |-> 0, who |-> <<"staff", e>>, terms |-> t, gone |-> FALSE]} : e \in StaffEmails, t \in Terms}
      /\ runs = {} /\ rushed = {} /\ doubled = {} /\ torn = {} /\ erased = {}
  BY DEF PayrollInit
<1>3. rows \subseteq RowType /\ IsFiniteSet(rows) /\ \A r, s \in rows : r = s
  <2>1. CASE rows = {}
    BY <2>1, FS_EmptySet
  <2>2. CASE rows # {}
    <3>1. PICK e \in StaffEmails : \E t \in Terms : rows = {[id |-> 0, who |-> <<"staff", e>>, terms |-> t, gone |-> FALSE]}
      BY <1>2, <2>2
    <3>2. PICK t \in Terms : rows = {[id |-> 0, who |-> <<"staff", e>>, terms |-> t, gone |-> FALSE]}
      BY <3>1
    <3>3. PICK b \in BOOLEAN : b = FALSE
      OBVIOUS
    <3>4. PICK r : r = [id |-> 0, who |-> <<"staff", e>>, terms |-> t, gone |-> b]
      OBVIOUS
    <3>5. rows = {r}
      BY <3>2, <3>3, <3>4
    <3>6. r \in RowType
      BY <3>4 DEF RowType, Persons
    <3>7. QED
      BY <3>5, <3>6, FS_Singleton
  <2>3. QED
    BY <2>1, <2>2
<1>4. StaffSide
  BY <1>1, <1>3 DEF StaffSide, StaffCarries
<1>5. RunSide
  BY <1>1, <1>2 DEF RunSide, RunCarries, RunsApart
<1>6. QED
  BY <1>1, <1>4, <1>5 DEF PayInv

LEMMA PayStandsStill ==
  ASSUME PayInv, UNCHANGED <<payrollVars, handlerVars>>
  PROVE  PayInv'
<1>1. UNCHANGED <<rows, runs, rushed, doubled, torn, erased, pc, local, begun>>
  BY DEF payrollVars, payroll, handlerVars
<1>2. begun \in Nat /\ begun <= begun
  BY DEF PayInv, RunSide
<1>3. StaffSide' /\ RunSide'
  BY <1>1, <1>2, StaffSideStays, RunSideStays
<1>4. QED
  BY <1>1, <1>3 DEF PayInv

LEMMA PayStep ==
  ASSUME PayInv, PayrollNext
  PROVE  PayInv'
BY StaffStep, RunsStep DEF PayrollNext

\* A payday with two automatic runs is a remembered one.
LEMMA OnceOrDoubled ==
  ASSUME RunSide, NEW d \in 1..Weeks, d \notin doubled
  PROVE  Cardinality(Automatic(d)) <= 1
<1>1. \A r, s \in Automatic(d) : r = s
  BY DEF Automatic, RunSide
<1>2. PICK A : A = Automatic(d)
  OBVIOUS
<1>3. CASE A = {}
  BY <1>2, <1>3, FS_EmptySet
<1>4. CASE A # {}
  <2>1. PICK r \in A : TRUE
    BY <1>4
  <2>2. A = {r}
    BY <1>1, <1>2, <2>1
  <2>3. Cardinality(A) = 1
    BY <2>2, FS_Singleton
  <2>4. QED
    BY <1>2, <2>3
<1>5. QED
  BY <1>3, <1>4

LEMMA RunsExplainedBy ==
  ASSUME PayInv
  PROVE  RunsExplained
<1>1. RunSide
  BY DEF PayInv
<1>2. \A d \in 1..Weeks : Cardinality(Automatic(d)) <= 1 \/ d \in doubled
  BY <1>1, OnceOrDoubled
<1>3. QED
  BY <1>1, <1>2 DEF RunSide, RunsExplained, PaidOnce

\* For any staff, weeks and requests in flight: a payday has one automatic run, a run
\* pays a person once and its total is what its items come to, and no paid run is
\* deleted, but for those that another request overtook (getPayrollHistory,
\* updatePayrollRun, deletePayrollRun, createStaff).
THEOREM RunsAreExplained == PayrollSpec => []RunsExplained
<1>1. PayrollInit /\ RequestsInit => PayInv
  BY PayStarts
<1>2. PayInv /\ [PayrollNext]_<<payrollVars, handlerVars>> => PayInv'
  BY PayStep, PayStandsStill
<1>3. PayInv => RunsExplained
  BY RunsExplainedBy
<1>4. QED
  BY <1>1, <1>2, <1>3, PTL DEF PayrollSpec

-----------------------------------------------------------------------------
(* Sums: added, scaled, compared, and of a table.                          *)

\* What holds of the empty set, and of a set when it does without one of its
\* members, holds of a finite set.
LEMMA OneByOne ==
  ASSUME NEW S, IsFiniteSet(S), NEW Good, {} \in Good,
         \A T \in SUBSET S : \A c \in T : T \ {c} \in Good => T \in Good
  PROVE  S \in Good
<1> DEFINE Bad == {T \in SUBSET S : T \notin Good}
<1>1. SUFFICES ASSUME Bad # {} PROVE FALSE
  OBVIOUS
<1>2. Bad \subseteq SUBSET S
  OBVIOUS
<1>3. PICK T \in Bad : \A y \in Bad : y \subseteq T => y = T
  <2> HIDE DEF Bad
  <2>1. QED
    BY <1>1, <1>2, Smaller
<1>4. PICK c : c \in T
  BY <1>3
<1>5. T \ {c} \in SUBSET S /\ T \ {c} \subseteq T /\ T \ {c} # T
  BY <1>3, <1>4
<1>6. T \ {c} \in Good
  BY <1>3, <1>5
<1>7. QED
  BY <1>3, <1>4, <1>6

LEMMA SumOfNone ==
  ASSUME NEW f
  PROVE  SumFunctionOnSet(f, {}) = 0
BY FS_EmptySet, SumUnfolds

LEMMA SumAdd ==
  ASSUME NEW S, IsFiniteSet(S), NEW f, NEW g, NEW k,
         \A x \in S : f[x] \in Int /\ g[x] \in Int /\ k[x] = f[x] + g[x]
  PROVE  SumFunctionOnSet(k, S) = SumFunctionOnSet(f, S) + SumFunctionOnSet(g, S)
<1> DEFINE Good == {T \in SUBSET S : SumFunctionOnSet(k, T) = SumFunctionOnSet(f, T) + SumFunctionOnSet(g, T)}
<1>1. {} \in Good
  BY SumOfNone
<1>2. ASSUME NEW T \in SUBSET S, NEW c \in T, T \ {c} \in Good
      PROVE  T \in Good
  <2>1. PICK U \in SUBSET S : U = T \ {c}
    OBVIOUS
  <2>2. IsFiniteSet(T) /\ IsFiniteSet(U)
    BY <2>1, FS_Subset
  <2>3. f[c] \in Int /\ g[c] \in Int /\ k[c] = f[c] + g[c]
    OBVIOUS
  <2>4. \A x \in T : f[x] \in Int /\ g[x] \in Int /\ k[x] \in Int
    OBVIOUS
  <2>5. PICK a \in Int, b \in Int : a = SumFunctionOnSet(f, U) /\ b = SumFunctionOnSet(g, U)
    BY <2>1, <2>2, <2>4, SumType
  <2>6. SumFunctionOnSet(k, U) = a + b
    BY <1>2, <2>1, <2>5
  <2>7. SumFunctionOnSet(f, T) = f[c] + a /\ SumFunctionOnSet(g, T) = g[c] + b
    BY <2>1, <2>2, <2>4, <2>5, SumTakeOut
  <2>8. SumFunctionOnSet(k, T) = k[c] + (a + b)
    BY <2>1, <2>2, <2>4, <2>6, SumTakeOut
  <2>9. QED
    BY <2>3, <2>7, <2>8
<1>3. QED
  <2> HIDE DEF Good
  <2>1. S \in Good
    BY <1>1, <1>2, OneByOne
  <2>2. QED
    BY <2>1 DEF Good

LEMMA SumScale ==
  ASSUME NEW S, IsFiniteSet(S), NEW f, NEW k, NEW q \in Int, \A x \in S : f[x] \in Int /\ k[x] = q * f[x]
  PROVE  SumFunctionOnSet(k, S) = q * SumFunctionOnSet(f, S)
<1> DEFINE Good == {T \in SUBSET S : SumFunctionOnSet(k, T) = q * SumFunctionOnSet(f, T)}
<1>1. {} \in Good
  BY SumOfNone
<1>2. ASSUME NEW T \in SUBSET S, NEW c \in T, T \ {c} \in Good
      PROVE  T \in Good
  <2>1. PICK U \in SUBSET S : U = T \ {c}
    OBVIOUS
  <2>2. IsFiniteSet(T) /\ IsFiniteSet(U)
    BY <2>1, FS_Subset
  <2>3. PICK v \in Int : f[c] = v /\ k[c] = q * v
    OBVIOUS
  <2>4. \A x \in T : f[x] \in Int /\ k[x] \in Int
    OBVIOUS
  <2>5. PICK a \in Int : a = SumFunctionOnSet(f, U)
    BY <2>1, <2>2, <2>4, SumType
  <2>6. SumFunctionOnSet(k, U) = q * a
    BY <1>2, <2>1, <2>5
  <2>7. SumFunctionOnSet(f, T) = v + a
    BY <2>1, <2>2, <2>3, <2>4, <2>5, SumTakeOut
  <2>8. SumFunctionOnSet(k, T) = q * v + q * a
    BY <2>1, <2>2, <2>3, <2>4, <2>6, SumTakeOut
  <2>9. q * v + q * a = q * (v + a)
    OBVIOUS
  <2>10. QED
    BY <2>7, <2>8, <2>9
<1>3. QED
  <2> HIDE DEF Good
  <2>1. S \in Good
    BY <1>1, <1>2, OneByOne
  <2>2. QED
    BY <2>1 DEF Good

LEMMA SumMonotone ==
  ASSUME NEW S, IsFiniteSet(S), NEW f, NEW g, \A x \in S : f[x] \in Int /\ g[x] \in Int /\ f[x] <= g[x]
  PROVE  SumFunctionOnSet(f, S) <= SumFunctionOnSet(g, S)
<1> DEFINE Good == {T \in SUBSET S : SumFunctionOnSet(f, T) <= SumFunctionOnSet(g, T)}
<1>1. {} \in Good
  BY SumOfNone
<1>2. ASSUME NEW T \in SUBSET S, NEW c \in T, T \ {c} \in Good
      PROVE  T \in Good
  <2>1. PICK U \in SUBSET S : U = T \ {c}
    OBVIOUS
  <2>2. IsFiniteSet(T) /\ IsFiniteSet(U)
    BY <2>1, FS_Subset
  <2>3. PICK v \in Int, w \in Int : f[c] = v /\ g[c] = w /\ v <= w
    OBVIOUS
  <2>4. \A x \in T : f[x] \in Int /\ g[x] \in Int
    OBVIOUS
  <2>5. PICK a \in Int, b \in Int : a = SumFunctionOnSet(f, U) /\ b = SumFunctionOnSet(g, U)
    BY <2>1, <2>2, <2>4, SumType
  <2>6. a <= b
    BY <1>2, <2>1, <2>5
  <2>7. SumFunctionOnSet(f, T) = v + a /\ SumFunctionOnSet(g, T) = w + b
    BY <2>1, <2>2, <2>3, <2>4, <2>5, SumTakeOut
  <2>8. QED
    BY <2>3, <2>6, <2>7
<1>3. QED
  <2> HIDE DEF Good
  <2>1. S \in Good
    BY <1>1, <1>2, OneByOne
  <2>2. QED
    BY <2>1 DEF Good

\* What is left out only makes a sum of costs smaller.
LEMMA SumSubset ==
  ASSUME NEW S, IsFiniteSet(S), NEW f, \A x \in S : f[x] \in Int /\ f[x] >= 0, NEW R \in SUBSET S
  PROVE  SumFunctionOnSet(f, R) <= SumFunctionOnSet(f, S)
<1> DEFINE Good == {T \in SUBSET S : SumFunctionOnSet(f, R \cap T) <= SumFunctionOnSet(f, T)}
<1>1. {} \in Good
  <2>1. R \cap {} = {}
    OBVIOUS
  <2>2. QED
    BY <2>1, SumOfNone
<1>2. ASSUME NEW T \in SUBSET S, NEW c \in T, T \ {c} \in Good
      PROVE  T \in Good
  <2>1. PICK U \in SUBSET S : U = T \ {c}
    OBVIOUS
  <2>2. IsFiniteSet(T) /\ IsFiniteSet(U) /\ IsFiniteSet(R \cap T) /\ IsFiniteSet(R \cap U)
    BY <2>1, FS_Subset
  <2>3. PICK v \in Int : f[c] = v /\ v >= 0
    OBVIOUS
  <2>4. \A x \in T : f[x] \in Int
    OBVIOUS
  <2>5. PICK a \in Int, b \in Int : a = SumFunctionOnSet(f, R \cap U) /\ b = SumFunctionOnSet(f, U)
    BY <2>1, <2>2, <2>4, SumType
  <2>6. a <= b
    BY <1>2, <2>1, <2>5
  <2>7. SumFunctionOnSet(f, T) = v + b
    BY <2>1, <2>2, <2>3, <2>4, <2>5, SumTakeOut
  <2>8. CASE c \in R
    <3>1. (R \cap T) \ {c} = R \cap U /\ c \in R \cap T /\ R \cap T \subseteq T
      BY <2>1, <2>8
    <3>2. SumFunctionOnSet(f, R \cap T) = v + a
      BY <3>1, <2>2, <2>3, <2>4, <2>5, SumTakeOut
    <3>3. QED
      BY <2>3, <2>6, <2>7, <3>2
  <2>9. CASE c \notin R
    <3>1. R \cap T = R \cap U
      BY <2>1, <2>9
    <3>2. SumFunctionOnSet(f, R \cap T) = a
      BY <2>5, <3>1
    <3>3. a <= v + b
      BY <2>3, <2>6
    <3>4. QED
      BY <2>7, <3>2, <3>3
  <2>10. QED
    BY <2>8, <2>9
<1>3. QED
  <2> HIDE DEF Good
  <2>1. S \in Good
    BY <1>1, <1>2, OneByOne
  <2>2. R \cap S = R
    OBVIOUS
  <2>3. QED
    BY <2>1, <2>2 DEF Good

\* The same cost for some, nothing for the others.
LEMMA SumOfSome ==
  ASSUME NEW S, IsFiniteSet(S), NEW R, NEW q \in Int, NEW f, \A x \in S : f[x] = IF x \in R THEN q ELSE 0
  PROVE  SumFunctionOnSet(f, S) = q * Cardinality(S \cap R)
<1> DEFINE Good == {T \in SUBSET S : SumFunctionOnSet(f, T) = q * Cardinality(T \cap R)}
<1>1. {} \in Good
  <2>1. {} \cap R = {}
    OBVIOUS
  <2>2. Cardinality({} \cap R) = 0
    BY <2>1, FS_EmptySet
  <2>3. q * 0 = 0
    OBVIOUS
  <2>4. QED
    BY <2>2, <2>3, SumOfNone
<1>2. ASSUME NEW T \in SUBSET S, NEW c \in T, T \ {c} \in Good
      PROVE  T \in Good
  <2>1. PICK U \in SUBSET S : U = T \ {c}
    OBVIOUS
  <2>2. IsFiniteSet(T) /\ IsFiniteSet(U) /\ IsFiniteSet(T \cap R) /\ IsFiniteSet(U \cap R)
    BY <2>1, FS_Subset
  <2>3. \A x \in T : f[x] \in Int
    OBVIOUS
  <2>4. PICK n \in Nat : n = Cardinality(U \cap R)
    BY <2>2, FS_CardinalityType
  <2>5. SumFunctionOnSet(f, U) = q * n
    BY <1>2, <2>1, <2>4
  <2>6. PICK v \in Int : v = f[c]
    BY <2>3
  <2>7. SumFunctionOnSet(f, T) = v + q * n
    BY <2>1, <2>2, <2>3, <2>5, <2>6, SumTakeOut
  <2>8. CASE c \in R
    <3>1. T \cap R = (U \cap R) \cup {c} /\ c \notin U \cap R
      BY <2>1, <2>8
    <3>2. Cardinality(T \cap R) = n + 1
      BY <2>2, <2>4, <3>1, FS_AddElement
    <3>3. v = q
      BY <2>6, <2>8
    <3>4. v + q * n = q * (n + 1)
      BY <3>3
    <3>5. QED
      BY <2>7, <3>2, <3>4
  <2>9. CASE c \notin R
    <3>1. T \cap R = U \cap R
      BY <2>1, <2>9
    <3>2. Cardinality(T \cap R) = n
      BY <2>4, <3>1
    <3>3. v = 0
      BY <2>6, <2>9
    <3>4. v + q * n = q * n
      BY <3>3
    <3>5. QED
      BY <2>7, <3>2, <3>4
  <2>10. QED
    BY <2>8, <2>9
<1>3. QED
  <2> HIDE DEF Good
  <2>1. S \in Good
    BY <1>1, <1>2, OneByOne
  <2>2. QED
    BY <2>1 DEF Good

LEMMA SumOfSomeIs ==
  ASSUME NEW S, IsFiniteSet(S), NEW R, NEW q \in Int, NEW f,
         \A x \in S \cap R : f[x] = q, \A x \in S \ R : f[x] = 0,
         NEW n \in Nat, n = Cardinality(S \cap R), NEW total, total = q * n
  PROVE  SumFunctionOnSet(f, S) = total
<1>1. \A x \in S : f[x] = IF x \in R THEN q ELSE 0
  OBVIOUS
<1>2. QED
  BY <1>1, SumOfSome

\* Values that differ by no more than q differ in sum by no more than q for each.
LEMMA SumWithin ==
  ASSUME NEW S, IsFiniteSet(S), NEW q \in Int, NEW f, NEW g,
         \A x \in S : f[x] \in Int /\ g[x] \in Int /\ f[x] <= g[x] + q,
         NEW n \in Nat, n = Cardinality(S), NEW total \in Int, total = q * n
  PROVE  SumFunctionOnSet(f, S) <= SumFunctionOnSet(g, S) + total
<1>1. PICK same : same = [x \in S |-> q]
  OBVIOUS
<1>2. PICK more : more = [x \in S |-> g[x] + q]
  OBVIOUS
<1>3. \A x \in S : same[x] \in Int /\ more[x] \in Int /\ more[x] = g[x] + same[x] /\ f[x] <= more[x]
  BY <1>1, <1>2
<1>4. SumFunctionOnSet(same, S) = total
  <2>1. (\A x \in S \cap S : same[x] = q) /\ \A x \in S \ S : same[x] = 0
    BY <1>1
  <2>2. n = Cardinality(S \cap S)
    <3>1. S \cap S = S
      OBVIOUS
    <3>2. QED
      BY <3>1
  <2>3. QED
    BY ONLY IsFiniteSet(S), q \in Int, n \in Nat, total = q * n, <2>1, <2>2, SumOfSomeIs
<1>5. SumFunctionOnSet(more, S) = SumFunctionOnSet(g, S) + SumFunctionOnSet(same, S)
  BY <1>3, SumAdd
<1>6. SumFunctionOnSet(f, S) <= SumFunctionOnSet(more, S)
  BY <1>3, SumMonotone
<1>7. QED
  BY <1>4, <1>5, <1>6

\* A table's rows come to what its columns come to.
LEMMA SumOfTable ==
  ASSUME NEW S, IsFiniteSet(S), NEW R, IsFiniteSet(R), NEW table,
         \A x \in S : \A y \in R : table[x][y] \in Int,
         NEW row, \A x \in S : row[x] = SumFunctionOnSet(table[x], R),
         NEW turned, \A y \in R : \A x \in S : turned[y][x] = table[x][y],
         NEW column, \A y \in R : column[y] = SumFunctionOnSet(turned[y], S)
  PROVE  SumFunctionOnSet(row, S) = SumFunctionOnSet(column, R)
<1> DEFINE cells(y) == [x \in S |-> table[x][y]]
           part(T) == [y \in R |-> SumFunctionOnSet(cells(y), T)]
           Good == {T \in SUBSET S : SumFunctionOnSet(row, T) = SumFunctionOnSet(part(T), R)}
<1>0. \A x \in S : row[x] \in Int
  <2>1. TAKE x \in S
  <2>2. PICK f : f = table[x]
    OBVIOUS
  <2>3. SumFunctionOnSet(f, R) \in Int
    BY <2>2, SumType
  <2>4. QED
    BY <2>2, <2>3
<1>a. \A y \in R : \A T \in SUBSET S : SumFunctionOnSet(cells(y), T) \in Int
  <2>1. TAKE y \in R
  <2>2. TAKE T \in SUBSET S
  <2>3. PICK f : f = cells(y)
    OBVIOUS
  <2>4. IsFiniteSet(T) /\ \A x \in T : f[x] \in Int
    BY <2>3, FS_Subset
  <2>5. SumFunctionOnSet(f, T) \in Int
    BY <2>4, SumType
  <2>6. QED
    BY <2>3, <2>5
<1>1. {} \in Good
  <2>1. PICK f : f = part({})
    OBVIOUS
  <2>2. \A y \in R : f[y] = 0
    BY <2>1, SumOfNone
  <2>3. SumFunctionOnSet(f, R) = 0
    BY <2>2, SumZero
  <2>4. QED
    BY <2>1, <2>3, SumOfNone
<1>2. ASSUME NEW T \in SUBSET S, NEW c \in T, T \ {c} \in Good
      PROVE  T \in Good
  <2>1. PICK U \in SUBSET S : U = T \ {c}
    OBVIOUS
  <2>2. IsFiniteSet(T) /\ IsFiniteSet(U)
    BY <2>1, FS_Subset
  <2>3. PICK f : f = table[c]
    OBVIOUS
  <2>4. PICK g : g = part(U)
    OBVIOUS
  <2>5. PICK k : k = part(T)
    OBVIOUS
  <2>6. \A y \in R : f[y] \in Int /\ g[y] \in Int
    BY <1>a, <2>3, <2>4
  <2>7. \A y \in R : k[y] = f[y] + g[y]
    <3>1. TAKE y \in R
    <3>2. PICK e : e = cells(y)
      OBVIOUS
    <3>3. (\A x \in T : e[x] \in Int) /\ e[c] = f[y]
      BY <2>3, <3>2
    <3>4. SumFunctionOnSet(e, T) = e[c] + SumFunctionOnSet(e, U)
      BY <2>1, <2>2, <3>3, SumTakeOut
    <3>5. k[y] = SumFunctionOnSet(e, T) /\ g[y] = SumFunctionOnSet(e, U)
      BY <2>4, <2>5, <3>2
    <3>6. QED
      BY <3>3, <3>4, <3>5
  <2>8. SumFunctionOnSet(k, R) = SumFunctionOnSet(f, R) + SumFunctionOnSet(g, R)
    BY <2>6, <2>7, SumAdd
  <2>9. SumFunctionOnSet(row, T) = row[c] + SumFunctionOnSet(row, U)
    BY <1>0, <2>1, <2>2, SumTakeOut
  <2>10. row[c] = SumFunctionOnSet(f, R)
    BY <2>3
  <2>11. SumFunctionOnSet(row, U) = SumFunctionOnSet(g, R)
    BY <1>2, <2>1, <2>4
  <2>12. SumFunctionOnSet(row, T) = SumFunctionOnSet(k, R)
    BY <2>8, <2>9, <2>10, <2>11
  <2>13. QED
    BY <2>5, <2>12
<1>3. SumFunctionOnSet(row, S) = SumFunctionOnSet(part(S), R)
  <2> HIDE DEF Good
  <2>1. S \in Good
    BY <1>1, <1>2, OneByOne
  <2>2. QED
    BY <2>1 DEF Good
<1>4. PICK f : f = part(S)
  OBVIOUS
<1>5. \A y \in R : f[y] = column[y]
  <2>1. TAKE y \in R
  <2>2. PICK e : e = cells(y)
    OBVIOUS
  <2>3. PICK d : d = turned[y]
    OBVIOUS
  <2>4. \A x \in S : e[x] = d[x]
    BY <2>2, <2>3
  <2>5. SumFunctionOnSet(e, S) = SumFunctionOnSet(d, S)
    BY <2>4, SumSame
  <2>6. QED
    BY <1>4, <2>2, <2>3, <2>5
<1>6. SumFunctionOnSet(f, R) = SumFunctionOnSet(column, R)
  BY <1>5, SumSame
<1>7. QED
  BY <1>3, <1>4, <1>6

-----------------------------------------------------------------------------
(* Books: numbers that are some steps apart, and months.                   *)

ExpenseType == [on : Month, freq : Frequencies, recurring : BOOLEAN, end : Month \cup {None},
                kind : BillKinds, live : BOOLEAN]

LEMMA ProductsGrow ==
  ASSUME NEW y \in Nat \ {0}, NEW k \in Int, NEW l \in Int, k <= l
  PROVE  k * y <= l * y
OBVIOUS

LEMMA RemainderIs ==
  ASSUME NEW m \in Nat, NEW y \in Nat \ {0}, NEW k \in Nat, NEW r \in 0..(y-1), m = k * y + r
  PROVE  m % y = r
OBVIOUS

\* A number is a multiple of y, and what remains.
LEMMA Division ==
  ASSUME NEW m \in Nat, NEW y \in Nat \ {0}
  PROVE  \E k \in Nat, r \in 0..(y - 1) : m = k * y + r /\ m % y = r
<1> DEFINE Divides(n) == \E k \in Nat, r \in 0..(y - 1) : n = k * y + r
           Bad == {n \in Nat : ~Divides(n)}
<1>1. Bad = {}
  <2>1. SUFFICES ASSUME Bad # {} PROVE FALSE
    OBVIOUS
  <2>2. PICK n \in Bad : \A x \in Bad : n <= x
    <3>1. Bad \subseteq Nat
      OBVIOUS
    <3> HIDE DEF Bad
    <3>2. QED
      BY <2>1, <3>1, MinIs
  <2>3. CASE n < y
    <3>1. n \in 0..(y - 1) /\ n = 0 * y + n
      BY <2>2, <2>3
    <3>2. Divides(n)
      BY <3>1
    <3>3. QED
      BY <2>2, <3>2
  <2>4. CASE n >= y
    <3>1. n - y \in Nat /\ ~(n <= n - y)
      BY <2>2, <2>4
    <3>2. n - y \notin Bad
      BY <2>2, <3>1
    <3>2a. Divides(n - y)
      BY <3>1, <3>2
    <3>3. PICK k \in Nat, r \in 0..(y - 1) : n - y = k * y + r
      BY <3>2a
    <3>4. n = (k + 1) * y + r
      BY <2>2, <3>3
    <3>5. Divides(n)
      <4>1. PICK l \in Nat : l = k + 1
        OBVIOUS
      <4>2. n = l * y + r
        BY <3>4, <4>1
      <4>3. QED
        BY <4>2
    <3>6. QED
      <4> HIDE DEF Divides
      <4>1. QED
        BY <2>2, <3>5
  <2>5. QED
    BY <2>2, <2>3, <2>4
<1>2. m \notin Bad
  BY <1>1
<1>3. Divides(m)
  BY <1>2
<1>4. PICK k \in Nat, r \in 0..(y - 1) : m = k * y + r
  BY <1>3
<1>5. m % y = r
  BY <1>4, RemainderIs
<1>6. QED
  BY <1>4, <1>5

\* Two numbers with the same remainder are some steps of y apart, and only they.
LEMMA StepsApart ==
  ASSUME NEW m \in Nat, NEW n \in Nat, n <= m, NEW y \in Nat \ {0}
  PROVE  m % y = n % y <=> \E k \in 0..m : m = n + k * y
<1>1. PICK a \in Nat, r \in 0..(y - 1) : m = a * y + r /\ m % y = r
  BY Division
<1>2. PICK b \in Nat, s \in 0..(y - 1) : n = b * y + s /\ n % y = s
  BY Division
<1>3. ASSUME m % y = n % y
      PROVE  \E k \in 0..m : m = n + k * y
  <2>1. r = s
    BY <1>1, <1>2, <1>3
  <2>2. b <= a
    <3>1. SUFFICES ASSUME a <= b - 1 PROVE FALSE
      OBVIOUS
    <3>2. a * y <= (b - 1) * y
      BY <3>1, ProductsGrow
    <3>3. (b - 1) * y = b * y - y
      OBVIOUS
    <3>4. QED
      BY <1>1, <1>2, <2>1, <3>2, <3>3
  <2>3. PICK k \in Nat : k = a - b
    BY <2>2
  <2>4. k * y = a * y - b * y
    BY <2>3
  <2>5. m = n + k * y
    BY <1>1, <1>2, <2>1, <2>4
  <2>6. k * 1 <= k * y
    OBVIOUS
  <2>7. k \in 0..m
    BY <2>5, <2>6
  <2>8. QED
    BY <2>5, <2>7
<1>4. ASSUME NEW k \in 0..m, m = n + k * y
      PROVE  m % y = n % y
  <2>1. m = (b + k) * y + s
    BY <1>2, <1>4
  <2>2. QED
    BY <1>2, <2>1, RemainderIs
<1>5. QED
  BY <1>3, <1>4

\* Stepping on from its first month, an expense that recurs comes to the months in
\* which it occurs.
LEMMA DueWhenItOccurs ==
  ASSUME NEW e \in ExpenseType, Recurs(e), NEW m \in Month
  PROVE  m \in DueMonths(e) <=> Occurs(e, m)
<1>1. /\ e.on \in Nat /\ m \in Nat /\ Month \subseteq Nat /\ e.on \in Month /\ Months \in Nat
      /\ YearMonths \in Nat \ {0} /\ 0..m \subseteq Month /\ m < Months
  BY BooksAssumption DEF ExpenseType, Month
<1>2. e.freq \in {"Weekly", "Monthly", "Quarterly", "Annual"}
  BY DEF ExpenseType, Frequencies, Recurs
<1>3. m \in DueMonths(e) <=> (\E k \in Month : m = e.on + k * Step(e)) /\ (e.end = None \/ m <= e.end)
  BY <1>1 DEF DueMonths
<1>4. CASE e.freq \in {"Weekly", "Monthly"}
  <2>1. Step(e) = 1
    BY <1>4 DEF Step
  <2>2. (\E k \in Month : m = e.on + k * Step(e)) <=> m >= e.on
    <3>1. ASSUME m >= e.on PROVE m - e.on \in Month /\ m = e.on + (m - e.on) * 1
      BY <1>1, <3>1
    <3>2. ASSUME NEW k \in Month, m = e.on + k * 1 PROVE m >= e.on
      BY <1>1, <3>2
    <3>3. QED
      BY <2>1, <3>1, <3>2
  <2>3. QED
    BY <1>3, <1>4, <2>2 DEF Occurs
<1>5. CASE e.freq = "Quarterly"
  <2>1. Step(e) = 3
    BY <1>5 DEF Step
  <2>2. (\E k \in Month : m = e.on + k * Step(e)) <=> m >= e.on /\ (m - e.on) % 3 = 0
    <3>1. ASSUME m >= e.on, (m - e.on) % 3 = 0
          PROVE  \E k \in Month : m = e.on + k * 3
      <4>1. PICK n \in Nat : n = m - e.on
        BY <1>1, <3>1
      <4>2. PICK k \in 0..n : n = k * 3
        BY <3>1, <4>1
      <4>3. k \in 0..m /\ m = e.on + k * 3
        BY <1>1, <4>1, <4>2
      <4>4. QED
        BY <1>1, <4>3
    <3>2. ASSUME NEW k \in Month, m = e.on + k * 3
          PROVE  m >= e.on /\ (m - e.on) % 3 = 0
      <4>1. k \in Nat /\ m - e.on = k * 3 /\ m >= e.on
        BY <1>1, <3>2
      <4>2. (k * 3) % 3 = 0
        BY <4>1
      <4>3. QED
        BY <4>1, <4>2
    <3>3. QED
      BY <2>1, <3>1, <3>2
  <2>3. QED
    BY <1>3, <1>5, <2>2 DEF Occurs
<1>6. CASE e.freq = "Annual"
  <2>1. Step(e) = YearMonths
    BY <1>6 DEF Step
  <2>2. (\E k \in Month : m = e.on + k * Step(e)) <=> m >= e.on /\ SameMonth(m, e.on)
    <3>1. ASSUME m >= e.on, SameMonth(m, e.on)
          PROVE  \E k \in Month : m = e.on + k * YearMonths
      <4>1. PICK n \in Nat : n = e.on /\ n <= m
        BY <1>1, <3>1
      <4>2. m % YearMonths = n % YearMonths
        BY <3>1, <4>1 DEF SameMonth
      <4>3. PICK k \in 0..m : m = n + k * YearMonths
        BY <1>1, <4>1, <4>2, StepsApart
      <4>4. QED
        BY <1>1, <4>1, <4>3
    <3>2. ASSUME NEW k \in Month, m = e.on + k * YearMonths
          PROVE  m >= e.on /\ SameMonth(m, e.on)
      <4>1. PICK n \in Nat, y \in Nat \ {0} : n = e.on /\ y = YearMonths
        BY <1>1
      <4>2. k \in Nat /\ m = n + k * y
        BY <1>1, <3>2, <4>1
      <4>3. k * 1 <= k * y
        BY <4>2
      <4>4. n <= m /\ k \in 0..m
        BY <4>2, <4>3
      <4>5. m % y = n % y
        BY <1>1, <4>2, <4>4, StepsApart, ZenonT(60)
      <4>6. QED
        BY <1>1, <4>1, <4>4, <4>5 DEF SameMonth
    <3>3. QED
      BY <2>1, <3>1, <3>2
  <2>3. QED
    BY <1>3, <1>6, <2>2 DEF Occurs
<1>7. QED
  BY <1>2, <1>4, <1>5, <1>6

-----------------------------------------------------------------------------
(* Books: what an expense costs.                                           *)

BookRows ==
  /\ bill \in [Bills -> ExpenseType \cup {None}]
  /\ jackets \in [Month -> Nat] /\ commissions \in [Month -> Nat]
  /\ staffed \in BOOLEAN

\* What a month named like none with a sale saves, of one expense.
Idle(range) == {m \in range : \A n \in range : SameMonth(m, n) => jackets[n] = 0}
Spare(e, range) ==
  IF Cardinality(range) = 1 \/ ~Recurs(e) THEN 0
  ELSE Occurrence(e) * Cardinality(DueMonths(e) \cap Idle(range))

MonthCost(e, m) ==
  IF Recurs(e) THEN IF Occurs(e, m) THEN Occurrence(e) ELSE 0
  ELSE IF e.on = m THEN Unit ELSE 0

LEMMA OccurrenceIs ==
  ASSUME NEW e
  PROVE  Occurrence(e) \in {4333, 1000} /\ Unit = 1000
BY DEF Occurrence, Unit

LEMMA MonthIsFinite ==
  ASSUME NEW range \in SUBSET Month
  PROVE  IsFiniteSet(range) /\ Cardinality(range) \in Nat
<1>1. IsFiniteSet(Month)
  BY FS_Interval, BooksAssumption DEF Month
<1>2. QED
  BY <1>1, FS_Subset, FS_CardinalityType

LEMMA ActiveAlone ==
  ASSUME NEW m \in Month
  PROVE  Active({m}) = Month
BY FS_Singleton DEF Active

\* An expense's cost of one month.
LEMMA CostOfAMonth ==
  ASSUME NEW e, NEW m \in Month
  PROVE  AmountInRange(e, {m}, Month) = MonthCost(e, m) /\ MonthCost(e, m) \in Nat
<1>1. Occurrence(e) \in Nat /\ Unit \in Nat
  BY OccurrenceIs
<1>2. MonthCost(e, m) \in Nat
  BY <1>1 DEF MonthCost
<1>3. CASE Recurs(e) /\ Occurs(e, m)
  <2>1. {n \in {m} \cap Month : Occurs(e, n)} = {m}
    BY <1>3
  <2>2. Cardinality({m}) = 1
    BY FS_Singleton
  <2>3. AmountInRange(e, {m}, Month) = Occurrence(e) * Cardinality({n \in {m} \cap Month : Occurs(e, n)})
    BY <1>3 DEF AmountInRange
  <2>4. AmountInRange(e, {m}, Month) = Occurrence(e) * 1
    BY <2>1, <2>2, <2>3
  <2>5. QED
    BY <1>1, <1>2, <1>3, <2>4 DEF MonthCost
<1>4. CASE Recurs(e) /\ ~Occurs(e, m)
  <2>1. {n \in {m} \cap Month : Occurs(e, n)} = {}
    BY <1>4
  <2>2. Cardinality({}) = 0
    BY FS_EmptySet
  <2>3. AmountInRange(e, {m}, Month) = Occurrence(e) * Cardinality({n \in {m} \cap Month : Occurs(e, n)})
    BY <1>4 DEF AmountInRange
  <2>4. AmountInRange(e, {m}, Month) = Occurrence(e) * 0
    BY <2>1, <2>2, <2>3
  <2>5. QED
    BY <1>1, <1>2, <1>4, <2>4 DEF MonthCost
<1>5. CASE ~Recurs(e)
  BY <1>2, <1>5 DEF AmountInRange, MonthCost
<1>6. QED
  BY <1>3, <1>4, <1>5

\* What an expense comes to in a range, with what is spared, is what it comes to in
\* its months.
LEMMA CostOfARange ==
  ASSUME BookRows, NEW e \in ExpenseType, NEW range \in SUBSET Month,
         NEW f, \A m \in range : f[m] = MonthCost(e, m)
  PROVE  /\ AmountInRange(e, range, Active(range)) \in Nat /\ Spare(e, range) \in Nat
         /\ SumFunctionOnSet(f, range) = AmountInRange(e, range, Active(range)) + Spare(e, range)
<1>1. IsFiniteSet(range)
  BY MonthIsFinite
<1>2. CASE Recurs(e)
  <2>1. PICK q \in Nat : q = Occurrence(e)
    BY OccurrenceIs
  <2>2. PICK busy : busy = {m \in range \cap Active(range) : Occurs(e, m)}
    OBVIOUS
  <2>3. PICK due : due = {m \in range : Occurs(e, m)}
    OBVIOUS
  <2>4. PICK idle : idle = DueMonths(e) \cap Idle(range)
    OBVIOUS
  <2>6. range \cap due = due /\ IsFiniteSet(due)
    BY <1>1, <2>3, FS_Subset
  <2>6a. PICK d \in Nat, total \in Int : d = Cardinality(due) /\ total = q * d
    BY <2>6, FS_CardinalityType
  <2>5. SumFunctionOnSet(f, range) = total
    <3>1. (\A m \in range \cap due : f[m] = q) /\ \A m \in range \ due : f[m] = 0
      BY <1>2, <2>1, <2>3 DEF MonthCost
    <3>2. d = Cardinality(range \cap due)
      BY <2>6, <2>6a
    <3>3. q \in Int /\ d \in Nat /\ total = q * d
      BY <2>1, <2>6a
    <3>4. QED
      BY ONLY <1>1, <3>1, <3>2, <3>3, SumOfSomeIs
  <2>7. AmountInRange(e, range, Active(range)) = q * Cardinality(busy)
    BY <1>2, <2>1, <2>2 DEF AmountInRange
  <2>8. IsFiniteSet(due) /\ IsFiniteSet(busy)
    BY <1>1, <2>2, <2>3, FS_Subset
  <2>9. PICK n \in Nat : n = Cardinality(busy)
    BY <2>8, FS_CardinalityType
  <2>10. q * n \in Nat
    OBVIOUS
  <2>11. CASE Cardinality(range) = 1
    <3>1. busy = due
      BY <2>2, <2>3, <2>11 DEF Active
    <3>2. Spare(e, range) = 0
      BY <2>11 DEF Spare
    <3>3. total = q * n
      BY <2>6a, <2>9, <3>1
    <3>4. QED
      BY <2>5, <2>7, <2>9, <2>10, <3>2, <3>3
  <2>12. CASE Cardinality(range) # 1
    <3>1. idle = {m \in due : m \in Idle(range)}
      BY <1>2, <2>3, <2>4, DueWhenItOccurs DEF Idle
    <3>2. busy = {m \in due : m \notin Idle(range)}
      <4>1. \A m \in range : m \in Active(range) <=> \E k \in range : jackets[k] > 0 /\ SameMonth(m, k)
        BY <2>12 DEF Active
      <4>2. \A m \in range : m \in Idle(range) <=> ~ \E k \in range : jackets[k] > 0 /\ SameMonth(m, k)
        BY DEF Idle, BookRows
      <4>3. QED
        BY <2>2, <2>3, <4>1, <4>2
    <3>3. due = busy \cup idle /\ busy \cap idle = {}
      BY <3>1, <3>2
    <3>4. IsFiniteSet(idle)
      BY <2>8, <3>3, FS_Subset
    <3>5. PICK k \in Nat : k = Cardinality(idle)
      BY <3>4, FS_CardinalityType
    <3>6. Cardinality(due) = n + k
      <4>1. Cardinality(busy \cap idle) = 0
        BY <3>3, FS_EmptySet
      <4>2. Cardinality(due) = n + k - 0
        BY <2>8, <2>9, <3>3, <3>4, <3>5, <4>1, FS_Union
      <4>3. QED
        BY <4>2
    <3>7. Spare(e, range) = q * k
      BY <1>2, <2>1, <2>4, <2>12, <3>5 DEF Spare
    <3>8. q * (n + k) = q * n + q * k /\ q * k \in Nat
      OBVIOUS
    <3>9. total = q * n + q * k
      BY <2>6a, <3>6, <3>8
    <3>10. QED
      BY <2>5, <2>7, <2>9, <2>10, <3>7, <3>8, <3>9
  <2>13. QED
    BY <2>11, <2>12
<1>3. CASE ~Recurs(e)
  <2>1. Spare(e, range) = 0
    BY <1>3 DEF Spare
  <2>2. AmountInRange(e, range, Active(range)) = IF e.on \in range THEN Unit ELSE 0
    BY <1>3 DEF AmountInRange
  <2>3. PICK on : on = e.on
    OBVIOUS
  <2>4. \A m \in range : f[m] = IF m = on THEN 1000 ELSE 0
    BY <1>3, <2>3, OccurrenceIs DEF MonthCost
  <2>6. Cardinality(range \cap {on}) = IF on \in range THEN 1 ELSE 0
    <3>1. CASE on \in range
      <4>1. range \cap {on} = {on}
        BY <3>1
      <4>2. QED
        BY <3>1, <4>1, FS_Singleton
    <3>2. CASE on \notin range
      <4>1. range \cap {on} = {}
        BY <3>2
      <4>2. QED
        BY <3>2, <4>1, FS_EmptySet
    <3>3. QED
      BY <3>1, <3>2
  <2>7. PICK n \in Nat, total \in Int : n = (IF on \in range THEN 1 ELSE 0) /\ total = 1000 * n
    OBVIOUS
  <2>8. SumFunctionOnSet(f, range) = total
    <3>a. PICK R : R = {on}
      OBVIOUS
    <3>b. PICK q : q = 1000
      OBVIOUS
    <3>0. R = {on} /\ q = 1000
      BY <3>a, <3>b
    <3>1. (\A m \in range \cap R : f[m] = q) /\ \A m \in range \ R : f[m] = 0
      BY <2>4, <3>0
    <3>2. n = Cardinality(range \cap R)
      BY <2>6, <2>7, <3>0
    <3>3. q \in Int /\ n \in Nat /\ total = q * n
      BY <2>7, <3>0
    <3>4. QED
      BY ONLY <1>1, <3>1, <3>2, <3>3, SumOfSomeIs
  <2>9. QED
    BY <2>1, <2>2, <2>3, <2>7, <2>8, OccurrenceIs
<1>4. QED
  BY <1>2, <1>3

LEMMA BillsAre ==
  ASSUME BookRows
  PROVE  /\ Booked \in SUBSET Bills /\ Charged \in SUBSET Booked
         /\ IsFiniteSet(Booked) /\ IsFiniteSet(Charged)
         /\ \A b \in Booked : bill[b] \in ExpenseType
         /\ \A b \in Charged : bill[b] \in ExpenseType
<1>1. Booked \in SUBSET Bills /\ Charged \in SUBSET Booked
  BY DEF Booked, Charged
<1>2. IsFiniteSet(Booked) /\ IsFiniteSet(Charged)
  BY <1>1, FS_Subset, BooksAssumption
<1>3. \A b \in Booked : bill[b] \in ExpenseType
  BY DEF Booked, BookRows
<1>4. QED
  BY <1>1, <1>2, <1>3

LEMMA SumWhole ==
  ASSUME NEW S, NEW f, DOMAIN f = S
  PROVE  SumFunction(f) = SumFunctionOnSet(f, S)
BY DEF SumFunction

LEMMA BillsOfAMonth ==
  ASSUME BookRows, NEW m \in Month
  PROVE  /\ Cost({m}) = SumFunctionOnSet([b \in Charged |-> MonthCost(bill[b], m)], Charged)
         /\ Cost({m}) \in Int
<1>1. PICK f : f = [b \in Charged |-> AmountInRange(bill[b], {m}, Active({m}))]
  OBVIOUS
<1>2. PICK g : g = [b \in Charged |-> MonthCost(bill[b], m)]
  OBVIOUS
<1>3. Cost({m}) = SumFunctionOnSet(f, Charged)
  <2>1. DOMAIN f = Charged
    BY <1>1
  <2>2. SumFunction(f) = SumFunctionOnSet(f, Charged)
    BY <2>1, SumWhole
  <2>3. QED
    BY <1>1, <2>2 DEF Cost
<1>4. f = g /\ \A b \in Charged : f[b] \in Int
  BY <1>1, <1>2, ActiveAlone, CostOfAMonth
<1>5. SumFunctionOnSet(f, Charged) \in Int
  BY <1>4, BillsAre, SumType
<1>6. QED
  BY <1>2, <1>3, <1>4, <1>5

\* The recurring costs that the report of a range leaves out.
Skipped(range) == SumFunctionOnSet([b \in Charged |-> Spare(bill[b], range)], Charged)

\* The report of a range is that of its months, but for what it leaves out.
LEMMA CostAddsUp ==
  ASSUME BookRows, NEW range \in SUBSET Month
  PROVE  /\ Cost(range) \in Int /\ Skipped(range) \in Int /\ Skipped(range) >= 0
         /\ Cost(range) + Skipped(range) = SumFunctionOnSet([m \in range |-> Cost({m})], range)
<1>1. PICK f : f = [b \in Charged |-> AmountInRange(bill[b], range, Active(range))]
  OBVIOUS
<1>2. PICK g : g = [b \in Charged |-> Spare(bill[b], range)]
  OBVIOUS
<1>3. PICK table : table = [b \in Charged |-> [m \in range |-> MonthCost(bill[b], m)]]
  OBVIOUS
<1>4. PICK row : row = [b \in Charged |-> SumFunctionOnSet(table[b], range)]
  OBVIOUS
<1>5. PICK column : column = [m \in range |-> Cost({m})]
  OBVIOUS
<1>6. IsFiniteSet(Charged) /\ IsFiniteSet(range)
  BY BillsAre, MonthIsFinite
<1>7. Cost(range) = SumFunctionOnSet(f, Charged)
  <2>1. DOMAIN f = Charged
    BY <1>1
  <2>2. SumFunction(f) = SumFunctionOnSet(f, Charged)
    BY <2>1, SumWhole
  <2>3. QED
    BY <1>1, <2>2 DEF Cost
<1>8. Skipped(range) = SumFunctionOnSet(g, Charged)
  BY <1>2 DEF Skipped
<1>9. \A b \in Charged : f[b] \in Int /\ g[b] \in Int /\ g[b] >= 0 /\ row[b] = f[b] + g[b]
  <2>1. TAKE b \in Charged
  <2>2. PICK e \in ExpenseType : e = bill[b]
    BY BillsAre
  <2>3. PICK h : h = table[b]
    OBVIOUS
  <2>4. \A m \in range : h[m] = MonthCost(e, m)
    BY <1>3, <2>2, <2>3
  <2>5. /\ AmountInRange(e, range, Active(range)) \in Nat /\ Spare(e, range) \in Nat
        /\ SumFunctionOnSet(h, range) = AmountInRange(e, range, Active(range)) + Spare(e, range)
    BY <2>4, CostOfARange
  <2>6. f[b] = AmountInRange(e, range, Active(range)) /\ g[b] = Spare(e, range)
    BY <1>1, <1>2, <2>2
  <2>7. row[b] = SumFunctionOnSet(h, range)
    BY <1>4, <2>3
  <2>8. QED
    BY <2>5, <2>6, <2>7
<1>10. SumFunctionOnSet(row, Charged) = SumFunctionOnSet(f, Charged) + SumFunctionOnSet(g, Charged)
  BY <1>6, <1>9, SumAdd
<1>11. SumFunctionOnSet(row, Charged) = SumFunctionOnSet(column, range)
  <2>1. \A b \in Charged : \A m \in range : table[b][m] \in Int
    <3>1. TAKE b \in Charged
    <3>2. TAKE m \in range
    <3>3. PICK e : e = bill[b]
      OBVIOUS
    <3>4. MonthCost(e, m) \in Nat
      BY CostOfAMonth
    <3>5. QED
      BY <1>3, <3>3, <3>4
  <2>2. \A b \in Charged : row[b] = SumFunctionOnSet(table[b], range)
    BY <1>4
  <2>3. PICK turned : turned = [m \in range |-> [b \in Charged |-> MonthCost(bill[b], m)]]
    OBVIOUS
  <2>4. \A m \in range : \A b \in Charged : turned[m][b] = table[b][m]
    BY <1>3, <2>3
  <2>5. \A m \in range : column[m] = SumFunctionOnSet(turned[m], Charged)
    BY <1>5, <2>3, BillsOfAMonth
  <2>6. QED
    BY ONLY <1>6, <2>1, <2>2, <2>4, <2>5, SumOfTable
<1>12. SumFunctionOnSet(f, Charged) \in Int
  BY <1>6, <1>9, SumType
<1>13. SumFunctionOnSet(g, Charged) \in Int /\ SumFunctionOnSet(g, Charged) >= 0
  <2>1. SumFunctionOnSet(g, Charged) \in Int
    BY <1>6, <1>9, SumType
  <2>2. PICK z : z = [b \in Charged |-> 0]
    OBVIOUS
  <2>3. \A b \in Charged : z[b] = 0 /\ z[b] \in Int /\ z[b] <= g[b]
    BY <1>9, <2>2
  <2>4. SumFunctionOnSet(z, Charged) = 0
    BY <1>6, <2>3, SumZero
  <2>5. SumFunctionOnSet(z, Charged) <= SumFunctionOnSet(g, Charged)
    BY <1>6, <1>9, <2>3, SumMonotone
  <2>6. QED
    BY <2>1, <2>4, <2>5
<1>14. QED
  BY <1>5, <1>7, <1>8, <1>10, <1>11, <1>12, <1>13

-----------------------------------------------------------------------------
(* Books: what rounding makes of the figures, and longer ranges.           *)

LEMMA RoundedIs ==
  ASSUME NEW x \in Int
  PROVE  Rounded(x) \in Int /\ x <= Rounded(x) + 5 /\ Rounded(x) <= x + 5
BY DEF Rounded, Cent

LEMMA RoundedGrows ==
  ASSUME NEW x \in Int, NEW y \in Int, x <= y
  PROVE  Rounded(x) <= Rounded(y)
BY DEF Rounded, Cent

LEMMA OperatingIs ==
  ASSUME BookRows, NEW range \in SUBSET Month
  PROVE  /\ Cost(range) \in Int /\ Operating(range) \in Int
         /\ Cost(range) <= Operating(range) + 5 /\ Operating(range) <= Cost(range) + 5
<1>1. PICK c \in Int : c = Cost(range)
  BY CostAddsUp
<1>2. QED
  BY <1>1, RoundedIs DEF Operating

Consecutive(range) == range \in SUBSET Month /\ \E a, b \in Month : range = a..b

\* Months of no more than a year have names of their own.
LEMMA OwnNames ==
  ASSUME NEW m \in Month, NEW n \in Month, n <= m, m - n < YearMonths, SameMonth(m, n)
  PROVE  m = n
<1>1. PICK y \in Nat \ {0} : y = YearMonths
  BY BooksAssumption
<1>2. m \in Nat /\ n \in Nat /\ m % y = n % y /\ m - n < y
  BY <1>1, BooksAssumption DEF Month, SameMonth
<1>3. PICK k \in 0..m : m = n + k * y
  BY <1>2, StepsApart
<1>4. CASE k >= 1
  <2>1. 1 * y <= k * y
    BY <1>4, ProductsGrow
  <2>2. QED
    BY <1>2, <1>3, <2>1
<1>5. CASE k = 0
  BY <1>2, <1>3, <1>5
<1>6. QED
  BY <1>4, <1>5

\* What the comment on longer ranges would leave out is no less than what they do,
\* and the same in a range of no more than a year.
LEMMA SparedIs ==
  ASSUME BookRows, NEW range \in SUBSET Month, Consecutive(range)
  PROVE  /\ Spared(range) \in Int /\ Skipped(range) \in Int /\ Spared(range) >= Skipped(range)
         /\ Cardinality(range) <= YearMonths => Spared(range) = Skipped(range)
<1>1. PICK f : f = [x \in Charged |-> Spare(bill[x], range)]
  OBVIOUS
<1>2. PICK idle : idle = {m \in range : jackets[m] = 0}
  OBVIOUS
<1>3. PICK g : g = [x \in Charged |-> IF Cardinality(range) = 1 \/ ~Recurs(bill[x]) THEN 0
                      ELSE Occurrence(bill[x]) * Cardinality(DueMonths(bill[x]) \cap idle)]
  OBVIOUS
<1>4. Skipped(range) = SumFunctionOnSet(f, Charged) /\ IsFiniteSet(Charged)
  BY <1>1, BillsAre DEF Skipped
<1>5. Spared(range) = SumFunctionOnSet(g, Charged)
  <2>1. CASE Cardinality(range) = 1
    <3>1. \A x \in Charged : g[x] = 0
      BY <1>3, <2>1
    <3>2. SumFunctionOnSet(g, Charged) = 0
      BY <1>4, <3>1, SumZero
    <3>3. QED
      BY <2>1, <3>2 DEF Spared
  <2>2. CASE Cardinality(range) # 1
    <3>1. PICK k : k = [x \in Charged |-> IF ~Recurs(bill[x]) THEN 0
                          ELSE Occurrence(bill[x]) * Cardinality(DueMonths(bill[x]) \cap idle)]
      OBVIOUS
    <3>2. k = g
      BY <1>3, <2>2, <3>1
    <3>3. Spared(range) = SumFunction(k)
      BY <1>2, <2>2, <3>1 DEF Spared
    <3>4. DOMAIN k = Charged
      BY <3>1
    <3>5. SumFunction(k) = SumFunctionOnSet(k, Charged)
      BY <3>4, SumWhole
    <3>6. QED
      BY <3>2, <3>3, <3>5
  <2>3. QED
    BY <2>1, <2>2
<1>6. Idle(range) \subseteq idle /\ IsFiniteSet(range)
  BY <1>2, MonthIsFinite DEF Idle, SameMonth
<1>7. \A x \in Charged : f[x] \in Int /\ g[x] \in Int /\ f[x] <= g[x]
  <2>1. TAKE x \in Charged
  <2>2. PICK e : e = bill[x]
    OBVIOUS
  <2>3. PICK q \in Nat : q = Occurrence(e)
    BY OccurrenceIs
  <2>4. PICK small, large : small = DueMonths(e) \cap Idle(range) /\ large = DueMonths(e) \cap idle
    OBVIOUS
  <2>5. small \subseteq large /\ large \subseteq range
    BY <1>2, <1>6, <2>4
  <2>6. IsFiniteSet(large)
    BY <1>6, <2>5, FS_Subset
  <2>7. Cardinality(small) \in Nat /\ Cardinality(large) \in Nat /\ Cardinality(small) <= Cardinality(large)
    BY <2>5, <2>6, FS_Subset, FS_CardinalityType
  <2>8. PICK i \in Nat, j \in Nat : i = Cardinality(small) /\ j = Cardinality(large) /\ i <= j
    BY <2>7
  <2>9. q * i <= q * j /\ q * i \in Int /\ q * j \in Int
    BY <2>8
  <2>10. f[x] = (IF Cardinality(range) = 1 \/ ~Recurs(e) THEN 0 ELSE q * i)
    BY <1>1, <2>2, <2>3, <2>4, <2>8 DEF Spare
  <2>11. g[x] = (IF Cardinality(range) = 1 \/ ~Recurs(e) THEN 0 ELSE q * j)
    BY <1>3, <2>2, <2>3, <2>4, <2>8
  <2>12. QED
    BY <2>9, <2>10, <2>11
<1>8. SumFunctionOnSet(f, Charged) <= SumFunctionOnSet(g, Charged)
  BY <1>4, <1>7, SumMonotone
<1>9. SumFunctionOnSet(f, Charged) \in Int /\ SumFunctionOnSet(g, Charged) \in Int
  BY <1>4, <1>7, SumType
<1>10. ASSUME Cardinality(range) <= YearMonths
       PROVE  Spared(range) = Skipped(range)
  <2>0. PICK a \in Month, b \in Month : range = a..b
    BY DEF Consecutive
  <2>1. \A m, n \in range : SameMonth(m, n) => m = n
    <3>1. TAKE m, n \in range
    <3>2. m \in Nat /\ n \in Nat /\ a \in Nat /\ b \in Nat /\ m \in Month /\ n \in Month
          /\ a <= m /\ m <= b /\ a <= n /\ n <= b
      BY <2>0, BooksAssumption DEF Month
    <3>3. Cardinality(range) = b - a + 1
      BY <2>0, <3>2, FS_Interval
    <3>4. m - n < YearMonths /\ n - m < YearMonths
      BY <1>10, <3>2, <3>3, BooksAssumption
    <3>5. SameMonth(m, n) => SameMonth(n, m)
      BY DEF SameMonth
    <3>6. CASE n <= m
      BY <3>2, <3>4, <3>6, OwnNames
    <3>7. CASE m <= n
      BY <3>2, <3>4, <3>5, <3>7, OwnNames
    <3>8. QED
      BY <3>2, <3>6, <3>7
  <2>2. Idle(range) = idle
    BY <1>2, <1>6, <2>1 DEF Idle
  <2>3. f = g
    BY <1>1, <1>3, <2>2 DEF Spare
  <2>4. QED
    BY <1>4, <1>5, <2>3
<1>11. QED
  BY <1>4, <1>5, <1>8, <1>9, <1>10

\* To the rounding, the report of a range is that of its months, but for what it
\* leaves out.
LEMMA OperatingAddsUp ==
  ASSUME BookRows, NEW range \in SUBSET Month, Consecutive(range),
         NEW n \in Nat, n = Cardinality(range),
         NEW column, \A m \in range : column[m] = Operating({m})
  PROVE  /\ SumFunctionOnSet(column, range) \in Int /\ Spared(range) \in Int /\ Operating(range) \in Int
         /\ Operating(range) + Spared(range) >= SumFunctionOnSet(column, range) - 5 * (n + 1)
         /\ n <= YearMonths =>
              Operating(range) + Spared(range) <= SumFunctionOnSet(column, range) + 5 * (n + 1)
         /\ Operating(range) <= SumFunctionOnSet(column, range) + 5 * (n + 1)
<1>1. PICK exact : exact = [m \in range |-> Cost({m})]
  OBVIOUS
<1>2. IsFiniteSet(range)
  BY MonthIsFinite
<1>3. \A m \in range : /\ exact[m] \in Int /\ column[m] \in Int
                       /\ exact[m] <= column[m] + 5 /\ column[m] <= exact[m] + 5
  <2>1. TAKE m \in range
  <2>2. PICK one \in SUBSET Month : one = {m}
    OBVIOUS
  <2>3. /\ Cost(one) \in Int /\ Operating(one) \in Int
        /\ Cost(one) <= Operating(one) + 5 /\ Operating(one) <= Cost(one) + 5
    BY OperatingIs
  <2>4. QED
    BY <1>1, <2>2, <2>3
<1>4. PICK E \in Int, S \in Int : E = SumFunctionOnSet(exact, range) /\ S = SumFunctionOnSet(column, range)
  <2>1. SumFunctionOnSet(exact, range) \in Int
    BY <1>2, <1>3, SumType
  <2>2. SumFunctionOnSet(column, range) \in Int
    BY <1>2, <1>3, SumType
  <2>3. QED
    BY <2>1, <2>2
<1>5. PICK q \in Int, total \in Int : q = 5 /\ total = q * n
  OBVIOUS
<1>6. E <= S + total
  <2>1. \A m \in range : exact[m] \in Int /\ column[m] \in Int /\ exact[m] <= column[m] + q
    BY <1>3, <1>5
  <2>2. SumFunctionOnSet(exact, range) <= SumFunctionOnSet(column, range) + total
    BY ONLY <1>2, n \in Nat, n = Cardinality(range), q \in Int, total \in Int, <1>5, <2>1, SumWithin
  <2>3. QED
    BY <1>4, <2>2
<1>7. S <= E + total
  <2>1. \A m \in range : column[m] \in Int /\ exact[m] \in Int /\ column[m] <= exact[m] + q
    BY <1>3, <1>5
  <2>2. SumFunctionOnSet(column, range) <= SumFunctionOnSet(exact, range) + total
    BY ONLY <1>2, n \in Nat, n = Cardinality(range), q \in Int, total \in Int, <1>5, <2>1, SumWithin
  <2>3. QED
    BY <1>4, <2>2
<1>8. total = 5 * n
  BY <1>5
<1>9. PICK c \in Int, k \in Int : c = Cost(range) /\ k = Skipped(range) /\ k >= 0 /\ c + k = E
  BY <1>1, <1>4, CostAddsUp
<1>10. PICK o \in Int : o = Operating(range) /\ c <= o + 5 /\ o <= c + 5
  BY <1>9, OperatingIs
<1>11. PICK d \in Int : d = Spared(range) /\ d >= k /\ (n <= YearMonths => d = k)
  BY <1>9, SparedIs
<1>12. o + d >= S - 5 * (n + 1)
  BY <1>4, <1>5, <1>7, <1>8, <1>9, <1>10, <1>11
<1>13. n <= YearMonths => o + d <= S + 5 * (n + 1)
  BY <1>4, <1>5, <1>6, <1>8, <1>9, <1>10, <1>11
<1>14. o <= S + 5 * (n + 1)
  BY <1>4, <1>5, <1>6, <1>8, <1>9, <1>10
<1>15. QED
  BY <1>4, <1>10, <1>11, <1>12, <1>13, <1>14

-----------------------------------------------------------------------------
(* Books: what a report nets, and what the other pages say.                *)

LEMMA SumsOfRows ==
  ASSUME BookRows, NEW range \in SUBSET Month
  PROVE  SumFunctionOnSet(jackets, range) \in Int /\ SumFunctionOnSet(commissions, range) \in Int
<1>1. \A m \in range : jackets[m] \in Int /\ commissions[m] \in Int
  BY DEF BookRows
<1>2. QED
  BY <1>1, MonthIsFinite, SumType

\* The parts of a month's report.
LEMMA NetOfAMonth ==
  ASSUME BookRows, NEW m \in Month,
         NEW top, top = TopUp({m}), NEW wages \in Int, wages = StaffWages({m}),
         NEW j \in Int, j = jackets[m], NEW c \in Int, c = commissions[m], NEW o \in Int, o = Operating({m})
  PROVE  /\ top \in Int /\ top >= 0 /\ top >= 2000 - 1000 * c
         /\ Net({m}) \in Int /\ Net({m}) <= 1000 * j - o - (1000 * c + wages + top) + 10
<1>1. j = jackets[m] /\ c = commissions[m] /\ o = Operating({m})
  OBVIOUS
<1>2. SumFunctionOnSet(jackets, {m}) = j /\ SumFunctionOnSet(commissions, {m}) = c
  BY <1>1, SumOfOne
<1>3. Cardinality({m}) = 1
  BY FS_Singleton
<1>4. Gross({m}) = 1000 * j /\ Paid({m}) = 1000 * c
  BY <1>2 DEF Gross, Paid, Unit
<1>5. StaffWages({m}) = wages
  OBVIOUS
<1>6. top = IF 2000 - 1000 * c > 0 THEN 2000 - 1000 * c ELSE 0
  BY <1>3, <1>4 DEF TopUp, Base, Unit
<1>7. top \in Int /\ top >= 0 /\ top >= 2000 - 1000 * c
  BY <1>6
<1>8. PICK x \in Int : x = 1000 * c + wages + top
  BY <1>7
<1>9. PICK y \in Int : y = Rounded(x) /\ x <= y + 5 /\ y <= x + 5
  BY RoundedIs
<1>10. PICK z \in Int : z = 1000 * j - o - y
  BY <1>9
<1>11. Rounded(z) \in Int /\ Rounded(z) <= z + 5
  BY RoundedIs
<1>12. Net({m}) = Rounded(z)
  BY <1>1, <1>4, <1>5, <1>8, <1>9, <1>10 DEF Net, PayrollTotal
<1>13. Net({m}) <= 1000 * j - o - (1000 * c + wages + top) + 10
  BY <1>7, <1>8, <1>9, <1>10, <1>11, <1>12
<1>14. QED
  BY <1>7, <1>11, <1>12, <1>13

\* A longer range nets no less than its months: it spares the idle months, and what
\* a rep earns above the guarantee in one makes up for what is short in another.
LEMMA NetAddsUp ==
  ASSUME BookRows, NEW range \in SUBSET Month, Consecutive(range),
         NEW n \in Nat, n = Cardinality(range),
         NEW nets, \A m \in range : nets[m] = Net({m})
  PROVE  Net(range) >= SumFunctionOnSet(nets, range) - 15 * (n + 1)
<1>1. n = Cardinality(range)
  OBVIOUS
<1>2. PICK w \in Nat : w = IF staffed THEN 1000 ELSE 0
  OBVIOUS
<1>3. PICK J \in Int, C \in Int : J = SumFunctionOnSet(jackets, range) /\ C = SumFunctionOnSet(commissions, range)
  BY SumsOfRows
<1>4. PICK gross : gross = [m \in range |-> 1000 * jackets[m]]
  OBVIOUS
<1>5. PICK op : op = [m \in range |-> Operating({m})]
  OBVIOUS
<1>6. PICK pay : pay = [m \in range |-> 1000 * commissions[m]]
  OBVIOUS
<1>7. PICK wages : wages = [m \in range |-> w]
  OBVIOUS
<1>8. PICK top : top = [m \in range |-> TopUp({m})]
  OBVIOUS
<1>9. PICK net : net = [m \in range |->
                         1000 * jackets[m] - Operating({m}) - (1000 * commissions[m] + w + TopUp({m}))]
  OBVIOUS
<1>10. PICK owed : owed = [m \in range |-> 2000 - 1000 * commissions[m]]
  OBVIOUS
<1>11. PICK base : base = [m \in range |-> 2000]
  OBVIOUS
<1>12. IsFiniteSet(range)
  BY MonthIsFinite
<1>13. \A m \in range : jackets[m] \in Int /\ commissions[m] \in Int /\ Operating({m}) \in Int
  <2>1. TAKE m \in range
  <2>1a. PICK one \in SUBSET Month : one = {m}
    OBVIOUS
  <2>2. Operating({m}) \in Int
    BY <2>1a, OperatingIs
  <2>3. QED
    BY <2>2 DEF BookRows
<1>14. \A m \in range : /\ gross[m] \in Int /\ op[m] \in Int /\ pay[m] \in Int /\ wages[m] \in Int
                        /\ top[m] \in Int /\ net[m] \in Int /\ owed[m] \in Int /\ base[m] \in Int
                        /\ top[m] >= 0 /\ owed[m] <= top[m] /\ base[m] = owed[m] + pay[m]
                        /\ gross[m] = net[m] + (op[m] + (pay[m] + (wages[m] + top[m])))
                        /\ nets[m] \in Int /\ nets[m] <= net[m] + 10
  <2>1. TAKE m \in range
  <2>2. PICK t : t = TopUp({m})
    OBVIOUS
  <2>3. PICK j \in Int, c \in Int, o \in Int : j = jackets[m] /\ c = commissions[m] /\ o = Operating({m})
    BY <1>13
  <2>4. /\ t \in Int /\ t >= 0 /\ t >= 2000 - 1000 * c
        /\ Net({m}) \in Int /\ Net({m}) <= 1000 * j - o - (1000 * c + w + t) + 10
    <3>1. Cardinality({m}) = 1
      BY FS_Singleton
    <3>2. StaffWages({m}) = w /\ w \in Int
      BY <1>2, <3>1 DEF StaffWages, Unit
    <3>3. QED
      BY <2>2, <2>3, <3>2, NetOfAMonth
  <2>5. /\ gross[m] = 1000 * j /\ op[m] = o /\ pay[m] = 1000 * c /\ wages[m] = w /\ top[m] = t
        /\ owed[m] = 2000 - 1000 * c /\ base[m] = 2000
        /\ net[m] = 1000 * j - o - (1000 * c + w + t)
    BY <1>4, <1>5, <1>6, <1>7, <1>8, <1>9, <1>10, <1>11, <2>2, <2>3
  <2>6. nets[m] = Net({m})
    OBVIOUS
  <2>7. nets[m] \in Int /\ nets[m] <= 1000 * j - o - (1000 * c + w + t) + 10
    BY <2>4, <2>6
  <2>8. QED
    BY <2>3, <2>4, <2>5, <2>7
<1>15. PICK s1, s2, s3 : /\ s1 = [m \in range |-> wages[m] + top[m]]
                         /\ s2 = [m \in range |-> pay[m] + (wages[m] + top[m])]
                         /\ s3 = [m \in range |-> op[m] + (pay[m] + (wages[m] + top[m]))]
  OBVIOUS
<1>16. \A m \in range : /\ s1[m] \in Int /\ s2[m] \in Int /\ s3[m] \in Int
                        /\ s1[m] = wages[m] + top[m] /\ s2[m] = pay[m] + s1[m]
                        /\ s3[m] = op[m] + s2[m] /\ gross[m] = net[m] + s3[m]
  BY <1>14, <1>15
<1>17. PICK W \in Int, T \in Int, O \in Int, P \in Int, N \in Int, D \in Int :
         /\ W = SumFunctionOnSet(wages, range) /\ T = SumFunctionOnSet(top, range)
         /\ O = SumFunctionOnSet(op, range) /\ P = SumFunctionOnSet(pay, range)
         /\ N = SumFunctionOnSet(net, range) /\ D = SumFunctionOnSet(owed, range)
  <2>1. SumFunctionOnSet(wages, range) \in Int /\ SumFunctionOnSet(top, range) \in Int
    BY <1>12, <1>14, SumType
  <2>2. SumFunctionOnSet(op, range) \in Int /\ SumFunctionOnSet(pay, range) \in Int
    BY <1>12, <1>14, SumType
  <2>3. SumFunctionOnSet(net, range) \in Int /\ SumFunctionOnSet(owed, range) \in Int
    BY <1>12, <1>14, SumType
  <2>4. QED
    BY <2>1, <2>2, <2>3
<1>18. SumFunctionOnSet(s1, range) = W + T
  BY <1>12, <1>14, <1>16, <1>17, SumAdd
<1>19. SumFunctionOnSet(s2, range) = P + (W + T)
  <2>1. \A m \in range : pay[m] \in Int /\ s1[m] \in Int /\ s2[m] = pay[m] + s1[m]
    BY <1>14, <1>16
  <2>2. SumFunctionOnSet(s2, range) = SumFunctionOnSet(pay, range) + SumFunctionOnSet(s1, range)
    BY <1>12, <2>1, SumAdd
  <2>3. QED
    BY <1>17, <1>18, <2>2
<1>20. SumFunctionOnSet(s3, range) = O + (P + (W + T))
  <2>1. \A m \in range : op[m] \in Int /\ s2[m] \in Int /\ s3[m] = op[m] + s2[m]
    BY <1>14, <1>16
  <2>2. SumFunctionOnSet(s3, range) = SumFunctionOnSet(op, range) + SumFunctionOnSet(s2, range)
    BY <1>12, <2>1, SumAdd
  <2>3. QED
    BY <1>17, <1>19, <2>2
<1>21. SumFunctionOnSet(gross, range) = N + (O + (P + (W + T)))
  <2>1. \A m \in range : net[m] \in Int /\ s3[m] \in Int /\ gross[m] = net[m] + s3[m]
    BY <1>14, <1>16
  <2>2. SumFunctionOnSet(gross, range) = SumFunctionOnSet(net, range) + SumFunctionOnSet(s3, range)
    BY <1>12, <2>1, SumAdd
  <2>3. QED
    BY <1>17, <1>20, <2>2
<1>22. SumFunctionOnSet(gross, range) = 1000 * J
  <2>1. \A m \in range : jackets[m] \in Int /\ gross[m] = 1000 * jackets[m]
    BY <1>4, <1>13
  <2>2. QED
    BY <1>3, <1>12, <2>1, SumScale
<1>23. P = 1000 * C
  <2>1. \A m \in range : commissions[m] \in Int /\ pay[m] = 1000 * commissions[m]
    BY <1>6, <1>13
  <2>2. QED
    BY <1>3, <1>12, <1>17, <2>1, SumScale
<1>24. W = w * n
  <2>1. (\A m \in range \cap range : wages[m] = w) /\ \A m \in range \ range : wages[m] = 0
    BY <1>7
  <2>2. n = Cardinality(range \cap range) /\ n \in Nat /\ w \in Int
    <3>1. range \cap range = range
      OBVIOUS
    <3>2. QED
      BY <1>1, <1>2, <3>1
  <2>3. PICK total : total = w * n
    OBVIOUS
  <2>4. SumFunctionOnSet(wages, range) = total
    BY ONLY <1>12, <2>1, <2>2, <2>3, SumOfSomeIs
  <2>5. QED
    BY <1>17, <2>3, <2>4
<1>25. 2000 * n = D + P
  <2>0. PICK q \in Int : q = 2000
    OBVIOUS
  <2>1. (\A m \in range \cap range : base[m] = q) /\ \A m \in range \ range : base[m] = 0
    BY <1>11, <2>0
  <2>1a. n = Cardinality(range \cap range) /\ n \in Nat /\ q \in Int
    <3>1. range \cap range = range
      OBVIOUS
    <3>2. QED
      BY <1>1, <3>1
  <2>1b. PICK total : total = q * n
    OBVIOUS
  <2>2a. SumFunctionOnSet(base, range) = total
    BY ONLY <1>12, <2>1, <2>1a, <2>1b, SumOfSomeIs
  <2>2. SumFunctionOnSet(base, range) = 2000 * n
    BY <2>0, <2>1b, <2>2a
  <2>3. SumFunctionOnSet(base, range) = D + P
    BY <1>12, <1>14, <1>17, SumAdd
  <2>4. QED
    BY <2>2, <2>3
<1>26. D <= T
  BY <1>12, <1>14, <1>17, SumMonotone
<1>27. 0 <= T
  <2>1. PICK z : z = [m \in range |-> 0]
    OBVIOUS
  <2>2. \A m \in range : z[m] = 0 /\ z[m] \in Int /\ z[m] <= top[m]
    BY <1>14, <2>1
  <2>3. SumFunctionOnSet(z, range) = 0
    BY <1>12, <2>2, SumZero
  <2>4. SumFunctionOnSet(z, range) <= SumFunctionOnSet(top, range)
    BY <1>12, <1>14, <2>2, SumMonotone
  <2>5. QED
    BY <1>17, <2>3, <2>4
<1>28. Gross(range) = 1000 * J /\ Paid(range) = P /\ StaffWages(range) = W
  <2>1. StaffWages(range) = w * n
    <3>1. CASE staffed
      BY <1>1, <1>2, <3>1 DEF StaffWages, Unit
    <3>2. CASE ~staffed
      BY <1>1, <1>2, <3>2 DEF StaffWages, Unit
    <3>3. QED
      BY <3>1, <3>2
  <2>2. QED
    BY <1>3, <1>23, <1>24, <2>1 DEF Gross, Paid, Unit
<1>29. PICK t \in Int : t = TopUp(range) /\ t <= T
  <2>1. TopUp(range) = IF 2000 * n - P > 0 THEN 2000 * n - P ELSE 0
    BY <1>1, <1>28 DEF TopUp, Base, Unit
  <2>2. TopUp(range) = IF D > 0 THEN D ELSE 0
    BY <1>25, <2>1
  <2>3. QED
    BY <1>26, <1>27, <2>2
<1>30. PICK o \in Int : o = Operating(range) /\ o <= O + 5 * (n + 1)
  <2>1. Operating(range) \in Int /\ Operating(range) <= SumFunctionOnSet(op, range) + 5 * (n + 1)
    BY <1>5, OperatingAddsUp
  <2>2. QED
    BY <1>17, <2>1
<1>31. Net(range) >= 1000 * J - o - (P + W + t) - 10
  <2>0. PICK x \in Int : x = P + W + t
    BY <1>17, <1>29
  <2>1. PICK y \in Int : y = Rounded(x) /\ x <= y + 5 /\ y <= x + 5
    BY RoundedIs
  <2>2. PICK z \in Int : z = 1000 * J - o - y
    BY <1>3, <1>30, <2>1
  <2>3. Rounded(z) \in Int /\ z <= Rounded(z) + 5
    BY RoundedIs
  <2>4. Net(range) = Rounded(z)
    BY <1>28, <1>29, <1>30, <2>0, <2>1, <2>2 DEF Net, PayrollTotal
  <2>5. QED
    BY <2>0, <2>1, <2>2, <2>3, <2>4
<1>32. N = 1000 * J - O - (P + W + T)
  BY <1>21, <1>22
<1>33. PICK M \in Int : M = SumFunctionOnSet(nets, range)
  BY <1>12, <1>14, SumType
<1>34. M <= N + 10 * n
  <2>0. PICK q \in Int, total \in Int : q = 10 /\ total = q * n
    OBVIOUS
  <2>1. \A m \in range : nets[m] \in Int /\ net[m] \in Int /\ nets[m] <= net[m] + q
    BY <1>14, <2>0
  <2>2. SumFunctionOnSet(nets, range) <= SumFunctionOnSet(net, range) + total
    BY ONLY <1>12, n \in Nat, n = Cardinality(range), q \in Int, total \in Int, <2>0, <2>1, SumWithin
  <2>3. QED
    BY <1>17, <1>33, <2>0, <2>2
<1>35. PICK v \in Int : v = Net(range) /\ v >= 1000 * J - o - (P + W + t) - 10
  <2>1. Net(range) \in Int
    <3>1. Gross(range) - Operating(range) - PayrollTotal(range) \in Int
      <4>1. PICK x \in Int : x = P + W + t
        OBVIOUS
      <4>2. Rounded(x) \in Int
        BY RoundedIs
      <4>3. PayrollTotal(range) = Rounded(x)
        BY <1>28, <1>29, <4>1 DEF PayrollTotal
      <4>4. QED
        BY <1>28, <1>30, <4>2, <4>3
    <3>2. QED
      BY <3>1, RoundedIs DEF Net
  <2>2. QED
    BY <1>31, <2>1
<1>36. v >= M - 15 * (n + 1)
  BY <1>3, <1>17, <1>29, <1>30, <1>32, <1>33, <1>34, <1>35
<1>37. QED
  BY <1>33, <1>35, <1>36

\* The wholesale page charges no less than the report, and the same where the report
\* makes no exception.
LEMMA WholesaleIs ==
  ASSUME BookRows, NEW m \in Month
  PROVE  /\ Rounded(WholesaleOperating({m})) >= Operating({m})
         /\ (\A b \in Booked : bill[b].kind = "dealership" /\ bill[b].end = None)
              => Rounded(WholesaleOperating({m})) = Operating({m})
<1>1. PICK f : f = [b \in Booked |-> AmountInRange([bill[b] EXCEPT !.end = None], {m}, Month)]
  OBVIOUS
<1>2. PICK g : g = [b \in Charged |-> MonthCost(bill[b], m)]
  OBVIOUS
<1>3. WholesaleOperating({m}) = SumFunctionOnSet(f, Booked)
  <2>1. DOMAIN f = Booked
    BY <1>1
  <2>2. SumFunction(f) = SumFunctionOnSet(f, Booked)
    BY <2>1, SumWhole
  <2>3. QED
    BY <1>1, <2>2 DEF WholesaleOperating
<1>4. Cost({m}) = SumFunctionOnSet(g, Charged) /\ Cost({m}) \in Int
  BY <1>2, BillsOfAMonth
<1>5. IsFiniteSet(Booked) /\ IsFiniteSet(Charged) /\ Charged \in SUBSET Booked
  BY BillsAre
<1>6. ASSUME NEW b \in Booked
      PROVE  /\ f[b] \in Int /\ f[b] >= 0 /\ (b \in Charged => g[b] \in Int /\ g[b] <= f[b])
             /\ bill[b].end = None /\ b \in Charged => f[b] = g[b]
  <2>1. PICK e \in ExpenseType : e = bill[b]
    BY BillsAre
  <2>2. PICK u : u = [e EXCEPT !.end = None]
    OBVIOUS
  <2>3. f[b] = MonthCost(u, m) /\ MonthCost(u, m) \in Nat /\ MonthCost(e, m) \in Nat
    BY <1>1, <2>1, <2>2, CostOfAMonth
  <2>4. u.on = e.on /\ u.freq = e.freq /\ u.recurring = e.recurring /\ u.end = None
    BY <2>2 DEF ExpenseType
  <2>5. (Recurs(u) <=> Recurs(e)) /\ Occurrence(u) = Occurrence(e) /\ (Occurs(e, m) => Occurs(u, m))
    BY <2>4 DEF Recurs, Occurrence, Occurs
  <2>6. Occurrence(e) \in Nat
    BY OccurrenceIs
  <2>7. MonthCost(e, m) <= MonthCost(u, m)
    BY <2>3, <2>4, <2>5, <2>6 DEF MonthCost
  <2>8. b \in Charged => g[b] = MonthCost(e, m)
    BY <1>2, <2>1
  <2>9. e.end = None => MonthCost(u, m) = MonthCost(e, m)
    <3>1. SUFFICES ASSUME e.end = None PROVE MonthCost(u, m) = MonthCost(e, m)
      OBVIOUS
    <3>2. Occurs(u, m) <=> Occurs(e, m)
      BY <2>4, <3>1 DEF Occurs
    <3>3. QED
      BY <2>4, <2>5, <3>2 DEF MonthCost
  <2>10. QED
    BY <2>1, <2>3, <2>7, <2>8, <2>9
<1>7. SumFunctionOnSet(f, Charged) <= SumFunctionOnSet(f, Booked)
  BY <1>5, <1>6, SumSubset
<1>8. SumFunctionOnSet(g, Charged) <= SumFunctionOnSet(f, Charged)
  <2>1. \A b \in Charged : g[b] \in Int /\ f[b] \in Int /\ g[b] <= f[b]
    BY <1>5, <1>6
  <2>2. QED
    BY <1>5, <2>1, SumMonotone
<1>9. SumFunctionOnSet(f, Charged) \in Int /\ SumFunctionOnSet(f, Booked) \in Int
  <2>1. \A b \in Charged : f[b] \in Int
    BY <1>5, <1>6
  <2>2. \A b \in Booked : f[b] \in Int
    BY <1>6
  <2>3. SumFunctionOnSet(f, Charged) \in Int
    BY <1>5, <2>1, SumType
  <2>4. SumFunctionOnSet(f, Booked) \in Int
    BY <1>5, <2>2, SumType
  <2>5. QED
    BY <2>3, <2>4
<1>10. ASSUME \A b \in Booked : bill[b].kind = "dealership" /\ bill[b].end = None
       PROVE  WholesaleOperating({m}) = Cost({m})
  <2>1. Charged = Booked
    BY <1>10 DEF Charged, EnginePayroll
  <2>2. \A b \in Booked : f[b] = g[b]
    BY <1>6, <1>10, <2>1
  <2>3. SumFunctionOnSet(f, Booked) = SumFunctionOnSet(g, Booked)
    BY <1>5, <2>2, SumSame
  <2>4. QED
    BY <1>3, <1>4, <2>1, <2>3
<1>11. PICK c \in Int, v \in Int : c = Cost({m}) /\ v = WholesaleOperating({m}) /\ c <= v
  BY <1>3, <1>4, <1>7, <1>8, <1>9
<1>12. Rounded(c) \in Int /\ Rounded(v) \in Int /\ Rounded(c) <= Rounded(v)
  BY <1>11, RoundedIs, RoundedGrows
<1>13. QED
  BY <1>10, <1>11, <1>12 DEF Operating

\* The dashboard counts what the report charges, when nothing recurs.
LEMMA DashboardIs ==
  ASSUME BookRows, NEW m \in Month, \A b \in Booked : bill[b].kind = "dealership" /\ ~Recurs(bill[b])
  PROVE  ExpenseTotal(m) = Operating({m})
<1>1. PICK f : f = [b \in Charged |-> MonthCost(bill[b], m)]
  OBVIOUS
<1>2. PICK due : due = {b \in Booked : bill[b].on = m}
  OBVIOUS
<1>3. Charged = Booked /\ IsFiniteSet(Booked)
  BY BillsAre DEF Charged, EnginePayroll
<1>4. PICK q \in Int : q = Unit
  BY OccurrenceIs
<1>5. IsFiniteSet(due) /\ Booked \cap due = due
  BY <1>2, <1>3, FS_Subset
<1>6. PICK n \in Nat : n = Cardinality(due)
  BY <1>5, FS_CardinalityType
<1>7. PICK total : total = q * n
  OBVIOUS
<1>8. (\A b \in Booked \cap due : f[b] = q) /\ \A b \in Booked \ due : f[b] = 0
  BY <1>1, <1>2, <1>3, <1>4 DEF MonthCost
<1>9. q \in Int /\ n \in Nat /\ n = Cardinality(Booked \cap due)
  BY <1>5, <1>6
<1>10. SumFunctionOnSet(f, Booked) = total
  BY ONLY <1>3, <1>7, <1>8, <1>9, SumOfSomeIs
<1>11. Operating({m}) = Rounded(total)
  BY <1>1, <1>3, <1>10, BillsOfAMonth DEF Operating
<1>12. ExpenseTotal(m) = Rounded(Unit * Cardinality(due))
  BY <1>2 DEF ExpenseTotal
<1>13. QED
  BY <1>4, <1>6, <1>7, <1>11, <1>12

-----------------------------------------------------------------------------
(* Books: its inductive invariant.                                         *)

\* Who deletes a filing period found it not closed.
FilingRaces ==
  /\ DOMAIN pc = Handlers
  /\ filing \in {None, "open", "closed", "gone"} /\ closed \in BOOLEAN /\ raced \in BOOLEAN
  /\ Kept /\ closed => filing = "closed"
  /\ filing = None => \A h \in Handlers : pc[h] # "deletePeriod"
  /\ Kept /\ closed /\ (\E h \in Handlers : pc[h] = "deletePeriod") => raced
  /\ closed /\ filing = "gone" => raced

\* The request has the expense it read in hand, which may be deleted by now.
BillHeld(at, carried) ==
  at \in {"updateExpense", "deleteExpense"} =>
    carried.bill \in Bills /\ bill[carried.bill] \in ExpenseType

BooksInv ==
  /\ BookRows /\ FilingRaces
  /\ DOMAIN local = Handlers
  /\ \A h \in Handlers : BillHeld(pc[h], local[h])

\* The figures are right whatever the rows are.
LEMMA FiguresOfRows ==
  ASSUME BooksInv
  PROVE  BooksAddUp
<1>1. BookRows /\ FilingRaces
  BY DEF BooksInv
<1>2. ASSUME NEW a \in Month, NEW b \in Month, NEW range, range = a..b,
             NEW months, months = SumFunction([m \in range |-> Operating({m})])
      PROVE  /\ Operating(range) + Spared(range) >= months - Slack(1, range)
             /\ Cardinality(range) <= YearMonths => Operating(range) + Spared(range) <= months + Slack(1, range)
             /\ Net(range) >= SumFunction([m \in range |-> Net({m})]) - Slack(3, range)
  <2>1. range \in SUBSET Month /\ Consecutive(range)
    BY <1>2, BooksAssumption DEF Month, Consecutive
  <2>2. PICK f : f = [m \in range |-> Operating({m})]
    OBVIOUS
  <2>3. PICK g : g = [m \in range |-> Net({m})]
    OBVIOUS
  <2>4. PICK n \in Nat : n = Cardinality(range)
    BY <2>1, MonthIsFinite
  <2>5. Slack(1, range) = 5 * (n + 1) /\ Slack(3, range) = 15 * (n + 1)
    BY <2>4 DEF Slack
  <2>6. SumFunction(f) = SumFunctionOnSet(f, range) /\ SumFunction(g) = SumFunctionOnSet(g, range)
    BY <2>2, <2>3, SumWhole
  <2>7. /\ Operating(range) + Spared(range) >= SumFunctionOnSet(f, range) - 5 * (n + 1)
        /\ n <= YearMonths => Operating(range) + Spared(range) <= SumFunctionOnSet(f, range) + 5 * (n + 1)
    BY <1>1, <1>2, <2>1, <2>2, <2>4, OperatingAddsUp
  <2>8. Net(range) >= SumFunctionOnSet(g, range) - 15 * (n + 1)
    BY <1>1, <1>2, <2>1, <2>3, <2>4, NetAddsUp
  <2>9. QED
    BY <1>2, <2>2, <2>3, <2>4, <2>5, <2>6, <2>7, <2>8
<1>3. \A m \in Month :
       /\ Rounded(WholesaleOperating({m})) >= Operating({m})
       /\ (\A b \in Booked : bill[b].kind = "dealership" /\ bill[b].end = None)
            => Rounded(WholesaleOperating({m})) = Operating({m})
       /\ (\A b \in Booked : bill[b].kind = "dealership" /\ ~Recurs(bill[b]))
            => ExpenseTotal(m) = Operating({m})
  BY <1>1, WholesaleIs, DashboardIs
<1>4. closed /\ filing = "gone" => raced
  BY <1>1 DEF FilingRaces
<1>5. QED
  BY <1>2, <1>3, <1>4 DEF BooksAddUp

LEMMA FilingStands ==
  ASSUME FilingRaces, UNCHANGED <<filing, closed, raced>>, DOMAIN pc' = Handlers,
         \A h \in Handlers : pc'[h] = "deletePeriod" => pc[h] = "deletePeriod" \/ (Kept /\ filing # "closed")
  PROVE  FilingRaces'
<1>1. Kept' = Kept
  BY DEF Kept
<1>2. filing = None => ~Kept
  BY BooksAssumption DEF Kept
<1>3. QED
  BY <1>1, <1>2 DEF FilingRaces

LEMMA StatusSet ==
  ASSUME FilingRaces, NEW status \in {"open", "closed"}, SetStatus(status), DOMAIN pc' = Handlers,
         \A h \in Handlers : pc'[h] = "deletePeriod" => pc[h] = "deletePeriod"
  PROVE  FilingRaces'
<1>1. CASE ~Kept
  <2>1. UNCHANGED <<filing, closed, raced>>
    BY <1>1 DEF SetStatus
  <2>2. QED
    BY <2>1, FilingStands
<1>2. CASE Kept
  <2>1. /\ filing' = status /\ closed' = (status = "closed")
        /\ raced' = (closed' /\ \E h \in Handlers : pc[h] = "deletePeriod")
    BY <1>2 DEF SetStatus
  <2>2. closed' \in BOOLEAN /\ raced' \in BOOLEAN
    BY <2>1
  <2>3. filing' # None /\ filing' # "gone" /\ filing' \in {"open", "closed"}
    BY <2>1, BooksAssumption
  <2>4. closed' => filing' = "closed"
    BY <2>1
  <2>5. closed' /\ (\E h \in Handlers : pc'[h] = "deletePeriod") => raced'
    BY <2>1
  <2>6. QED
    BY <2>2, <2>3, <2>4, <2>5 DEF FilingRaces
<1>3. QED
  BY <1>1, <1>2

LEMMA BooksKept ==
  ASSUME BooksInv, BookRows', FilingRaces', DOMAIN local' = Handlers,
         \A b \in Bills : bill[b] \in ExpenseType => bill'[b] \in ExpenseType,
         \A h \in Handlers : pc'[h] \in {"updateExpense", "deleteExpense"} =>
           \/ pc'[h] = pc[h] /\ local'[h] = local[h]
           \/ local'[h].bill \in Bills /\ bill'[local'[h].bill] \in ExpenseType
  PROVE  BooksInv'
<1>1. ASSUME NEW h \in Handlers
      PROVE  BillHeld(pc[h], local[h])'
  <2>1. BillHeld(pc[h], local[h])
    BY DEF BooksInv
  <2>2. QED
    BY <2>1 DEF BillHeld
<1>2. QED
  BY <1>1 DEF BooksInv

LEMMA SameRows ==
  ASSUME BookRows, UNCHANGED <<bill, jackets, commissions, staffed>>
  PROVE  BookRows' /\ \A b \in Bills : bill[b] \in ExpenseType => bill'[b] \in ExpenseType
BY DEF BookRows

\* An expense is written over another, or where there was none.
LEMMA BillWritten ==
  ASSUME BookRows, NEW b \in Bills, NEW e \in ExpenseType, bill' = [bill EXCEPT ![b] = e],
         UNCHANGED <<jackets, commissions, staffed>>
  PROVE  BookRows' /\ \A x \in Bills : bill[x] \in ExpenseType => bill'[x] \in ExpenseType
BY DEF BookRows

\* The request answers, or writes without awaiting anything.
LEMMA AnswersOnly ==
  ASSUME BooksInv, NEW h \in Handlers, Answer(h)
  PROVE  /\ DOMAIN pc' = Handlers /\ DOMAIN local' = Handlers /\ pc'[h] = "idle"
         /\ \A g \in Handlers \ {h} : pc'[g] = pc[g] /\ local'[g] = local[g]
BY DEF BooksInv, FilingRaces, Answer

LEMMA BeginsAt ==
  ASSUME BooksInv, NEW h \in Handlers, NEW op, NEW carried, Begin(h, op, carried)
  PROVE  /\ DOMAIN pc' = Handlers /\ DOMAIN local' = Handlers /\ pc'[h] = op /\ local'[h] = carried
         /\ \A g \in Handlers \ {h} : pc'[g] = pc[g] /\ local'[g] = local[g]
BY DEF BooksInv, FilingRaces, Begin

LEMMA CreateExpenseKeeps ==
  ASSUME BooksInv, CreateExpense \/ WholesaleCreateExpense
  PROVE  BooksInv'
<1>1. BookRows /\ FilingRaces /\ DOMAIN local = Handlers
  BY DEF BooksInv
<1>2. PICK b \in Bills, e \in ExpenseType :
        /\ bill' = [bill EXCEPT ![b] = e]
        /\ UNCHANGED <<jackets, commissions, staffed, filing, closed, raced, pc, local>>
  <2>1. CASE CreateExpense
    <3>1. PICK b \in Bills, on \in Month, freq \in Frequencies, kind \in BillKinds,
               end \in Month \cup {None}, ask \in BOOLEAN :
            /\ bill[b] = None
            /\ bill' = [bill EXCEPT ![b] = [on |-> on, freq |-> freq, recurring |-> ask \/ freq # "One-Time",
                                  end |-> end, kind |-> kind, live |-> TRUE]]
            /\ Quick(<<jackets, commissions, staffed, filing, filed, closed, raced>>)
      BY <2>1 DEF CreateExpense
    <3>2. PICK e : e = [on |-> on, freq |-> freq, recurring |-> ask \/ freq # "One-Time",
                                  end |-> end, kind |-> kind, live |-> TRUE]
      OBVIOUS
    <3>3. e \in ExpenseType
      BY <3>2 DEF ExpenseType
    <3>4. bill' = [bill EXCEPT ![b] = e]
      BY <3>1, <3>2
    <3>5. UNCHANGED <<jackets, commissions, staffed, filing, closed, raced, pc, local>>
      BY <3>1 DEF Quick
    <3>6. QED
      BY <3>3, <3>4, <3>5
  <2>2. CASE WholesaleCreateExpense
    <3>1. PICK b \in Bills, on \in Month, kind \in BillKinds :
            /\ bill' = [bill EXCEPT ![b] = [on |-> on, freq |-> "One-Time", recurring |-> FALSE,
                                  end |-> None, kind |-> kind, live |-> TRUE]]
            /\ Quick(<<jackets, commissions, staffed, filing, filed, closed, raced>>)
      BY <2>2 DEF WholesaleCreateExpense
    <3>2. PICK e : e = [on |-> on, freq |-> "One-Time", recurring |-> FALSE,
                                  end |-> None, kind |-> kind, live |-> TRUE]
      OBVIOUS
    <3>3. e \in ExpenseType
      BY <3>2 DEF ExpenseType, Frequencies
    <3>4. bill' = [bill EXCEPT ![b] = e]
      BY <3>1, <3>2
    <3>5. UNCHANGED <<jackets, commissions, staffed, filing, closed, raced, pc, local>>
      BY <3>1 DEF Quick
    <3>6. QED
      BY <3>3, <3>4, <3>5
  <2>3. QED
    BY <2>1, <2>2
<1>3. BookRows' /\ \A x \in Bills : bill[x] \in ExpenseType => bill'[x] \in ExpenseType
  BY <1>1, <1>2, BillWritten
<1>4. FilingRaces'
  BY <1>1, <1>2, FilingStands DEF FilingRaces
<1>5. QED
  BY <1>1, <1>2, <1>3, <1>4, BooksKept

LEMMA BusinessKeeps ==
  ASSUME BooksInv, Business
  PROVE  BooksInv'
<1>1. BookRows /\ FilingRaces /\ DOMAIN local = Handlers
  BY DEF BooksInv
<1>2. PICK m \in Month :
        /\ \/ jackets' = [jackets EXCEPT ![m] = @ + 1] /\ UNCHANGED <<commissions, staffed>>
           \/ commissions' = [commissions EXCEPT ![m] = @ + 3] /\ UNCHANGED <<jackets, staffed>>
           \/ staffed' = ~staffed /\ UNCHANGED <<jackets, commissions>>
        /\ Quick(<<bill, filing, filed, closed, raced>>)
  BY DEF Business
<1>3. UNCHANGED <<bill, filing, closed, raced, pc, local>>
  BY <1>2 DEF Quick
<1>4. jackets' \in [Month -> Nat] /\ commissions' \in [Month -> Nat] /\ staffed' \in BOOLEAN
  <2>1. jackets \in [Month -> Nat] /\ commissions \in [Month -> Nat] /\ staffed \in BOOLEAN
    BY <1>1 DEF BookRows
  <2>2. CASE jackets' = [jackets EXCEPT ![m] = @ + 1] /\ UNCHANGED <<commissions, staffed>>
    BY <2>1, <2>2
  <2>3. CASE commissions' = [commissions EXCEPT ![m] = @ + 3] /\ UNCHANGED <<jackets, staffed>>
    BY <2>1, <2>3
  <2>4. CASE staffed' = ~staffed /\ UNCHANGED <<jackets, commissions>>
    BY <2>1, <2>4
  <2>5. QED
    BY <1>2, <2>2, <2>3, <2>4
<1>5. BookRows'
  BY <1>1, <1>3, <1>4 DEF BookRows
<1>6. FilingRaces'
  BY <1>1, <1>3, FilingStands DEF FilingRaces
<1>7. QED
  BY <1>1, <1>3, <1>5, <1>6, BooksKept

LEMMA CreateTaxPeriodKeeps ==
  ASSUME BooksInv, CreateTaxPeriod
  PROVE  BooksInv'
<1>1. BookRows /\ FilingRaces /\ DOMAIN local = Handlers
  BY DEF BooksInv
<1>2. PICK status \in {"open", "closed"} :
        /\ filing = None
        /\ filing' = status /\ closed' = (status = "closed")
        /\ raced' = FALSE
        /\ Quick(<<bill, jackets, commissions, staffed, filed>>)
  BY DEF CreateTaxPeriod
<1>3. UNCHANGED <<bill, jackets, commissions, staffed, pc, local>>
  BY <1>2 DEF Quick
<1>4. FilingRaces'
  <2>1. \A h \in Handlers : pc'[h] # "deletePeriod"
    BY <1>1, <1>2, <1>3 DEF FilingRaces
  <2>2. filing' # None /\ filing' # "gone" /\ filing' \in {"open", "closed"}
    BY <1>2, BooksAssumption
  <2>3. closed' \in BOOLEAN /\ raced' \in BOOLEAN /\ (closed' => filing' = "closed") /\ DOMAIN pc' = Handlers
    BY <1>1, <1>2, <1>3 DEF FilingRaces
  <2>4. QED
    BY <2>1, <2>2, <2>3 DEF FilingRaces
<1>5. BookRows' /\ \A x \in Bills : bill[x] \in ExpenseType => bill'[x] \in ExpenseType
  BY <1>1, <1>3, SameRows
<1>6. QED
  BY <1>1, <1>3, <1>4, <1>5, BooksKept

LEMMA UpdateTaxPeriodKeeps ==
  ASSUME BooksInv, UpdateTaxPeriodStatus \/ \E h \in Handlers : UpdateTaxPeriod(h)
  PROVE  BooksInv'
<1>1. BookRows /\ FilingRaces /\ DOMAIN local = Handlers
  BY DEF BooksInv
<1>2. PICK status \in {"open", "closed"} : SetStatus(status)
  BY DEF UpdateTaxPeriodStatus, UpdateTaxPeriod
<1>3. UNCHANGED <<bill, jackets, commissions, staffed>>
  BY <1>2 DEF SetStatus
<1>4. /\ DOMAIN pc' = Handlers /\ DOMAIN local' = Handlers
      /\ \A g \in Handlers : (pc'[g] = pc[g] /\ local'[g] = local[g]) \/ pc'[g] = "idle"
  <2>1. CASE UpdateTaxPeriodStatus
    BY <1>1, <2>1 DEF UpdateTaxPeriodStatus, FilingRaces
  <2>2. CASE \E h \in Handlers : UpdateTaxPeriod(h)
    <3>1. PICK h \in Handlers : Answer(h)
      BY <2>2 DEF UpdateTaxPeriod
    <3>2. QED
      BY <3>1, AnswersOnly
  <2>3. QED
    BY <2>1, <2>2
<1>5. FilingRaces'
  BY <1>1, <1>2, <1>4, StatusSet
<1>6. BookRows' /\ \A x \in Bills : bill[x] \in ExpenseType => bill'[x] \in ExpenseType
  BY <1>1, <1>3, SameRows
<1>7. QED
  BY <1>4, <1>5, <1>6, BooksKept

\* A request begins: an expense it has read, or a filing period.
LEMMA FindKeeps ==
  ASSUME BooksInv, NEW h \in Handlers, FindExpense(h) \/ FindPeriod(h)
  PROVE  BooksInv'
<1>1. BookRows /\ FilingRaces /\ DOMAIN local = Handlers
  BY DEF BooksInv
<1>2. UNCHANGED <<bill, jackets, commissions, staffed, filing, closed, raced>>
  BY DEF FindExpense, FindPeriod, booksVars
<1>3. BookRows' /\ \A x \in Bills : bill[x] \in ExpenseType => bill'[x] \in ExpenseType
  BY <1>1, <1>2, SameRows
<1>4. CASE FindExpense(h)
  <2>1. PICK b \in Booked, op \in {"updateExpense", "deleteExpense"} : Begin(h, op, [bill |-> b])
    BY <1>4 DEF FindExpense
  <2>2. PICK c : c = [bill |-> b]
    OBVIOUS
  <2>3. /\ DOMAIN pc' = Handlers /\ DOMAIN local' = Handlers /\ pc'[h] = op /\ local'[h] = c
        /\ \A g \in Handlers \ {h} : pc'[g] = pc[g] /\ local'[g] = local[g]
    BY <2>1, <2>2, BeginsAt
  <2>4. c.bill = b /\ b \in Bills /\ bill'[b] \in ExpenseType
    BY <1>1, <1>2, <2>2, BillsAre
  <2>5. FilingRaces'
    BY <1>1, <1>2, <2>3, FilingStands
  <2>6. QED
    BY <1>3, <2>3, <2>4, <2>5, BooksKept
<1>5. CASE FindPeriod(h)
  <2>1. PICK op \in {"updatePeriod", "deletePeriod", "linkDeal", "unlinkDeal"} :
          /\ Kept /\ (op = "deletePeriod" => filing # "closed")
          /\ Begin(h, op, [found |-> filing])
    BY <1>5 DEF FindPeriod
  <2>2. /\ DOMAIN pc' = Handlers /\ DOMAIN local' = Handlers /\ pc'[h] = op
        /\ \A g \in Handlers \ {h} : pc'[g] = pc[g] /\ local'[g] = local[g]
    BY <2>1, BeginsAt
  <2>3. FilingRaces'
    BY <1>1, <1>2, <2>1, <2>2, FilingStands
  <2>4. QED
    BY <1>3, <2>1, <2>2, <2>3, BooksKept
<1>6. QED
  BY <1>4, <1>5

LEMMA PatchIs ==
  ASSUME NEW e \in ExpenseType, NEW u \in Patched(e)
  PROVE  u \in ExpenseType
<1>1. CASE \E f \in Frequencies : u = [e EXCEPT !.freq = f]
  BY <1>1 DEF ExpenseType
<1>2. CASE \E r \in BOOLEAN : u = [e EXCEPT !.recurring = r]
  BY <1>2 DEF ExpenseType
<1>3. CASE \E m \in Month : u = [e EXCEPT !.on = m]
  BY <1>3 DEF ExpenseType
<1>4. CASE \E k \in BillKinds : u = [e EXCEPT !.kind = k]
  BY <1>4 DEF ExpenseType
<1>5. CASE \E m \in Month \cup {None} : u = [e EXCEPT !.end = m]
  BY <1>5 DEF ExpenseType
<1>6. QED
  BY <1>1, <1>2, <1>3, <1>4, <1>5 DEF Patched

LEMMA WriteExpenseKeeps ==
  ASSUME BooksInv, NEW h \in Handlers, UpdateExpense(h) \/ DeleteExpense(h)
  PROVE  BooksInv'
<1>1. BookRows /\ FilingRaces /\ BillHeld(pc[h], local[h])
  BY DEF BooksInv
<1>2. PICK b : b = local[h].bill
  OBVIOUS
<1>3. b \in Bills /\ bill[b] \in ExpenseType
  BY <1>1, <1>2 DEF UpdateExpense, DeleteExpense, BillHeld
<1>4. Answer(h) /\ UNCHANGED <<jackets, commissions, staffed, filing, closed, raced>>
  BY DEF UpdateExpense, DeleteExpense
<1>5. PICK e \in ExpenseType : bill' = [bill EXCEPT ![b] = e]
  <2>1. CASE UpdateExpense(h)
    BY <1>2, <1>3, <2>1, PatchIs DEF UpdateExpense
  <2>2. CASE DeleteExpense(h)
    <3>1. PICK no \in BOOLEAN : no = FALSE
      OBVIOUS
    <3>2. PICK old \in ExpenseType : old = bill[b]
      BY <1>3
    <3>3. PICK e : e = [old EXCEPT !.live = no]
      OBVIOUS
    <3>4. e \in ExpenseType
      BY <3>3 DEF ExpenseType
    <3>5. bill' = [bill EXCEPT ![b].live = FALSE]
      BY <1>2, <2>2 DEF DeleteExpense
    <3>6. bill' = [bill EXCEPT ![b] = e]
      BY <3>1, <3>2, <3>3, <3>5
    <3>7. QED
      BY <3>4, <3>6
  <2>3. QED
    BY <2>1, <2>2
<1>6. BookRows' /\ \A x \in Bills : bill[x] \in ExpenseType => bill'[x] \in ExpenseType
  BY <1>1, <1>3, <1>4, <1>5, BillWritten
<1>7. /\ DOMAIN pc' = Handlers /\ DOMAIN local' = Handlers /\ pc'[h] = "idle"
      /\ \A g \in Handlers \ {h} : pc'[g] = pc[g] /\ local'[g] = local[g]
  BY <1>4, AnswersOnly
<1>8. FilingRaces'
  BY <1>1, <1>4, <1>7, FilingStands
<1>9. QED
  BY <1>6, <1>7, <1>8, BooksKept

LEMMA EndPeriodKeeps ==
  ASSUME BooksInv, NEW h \in Handlers, DeleteTaxPeriod(h) \/ LinkDeal(h) \/ UnlinkDeal(h) \/ BooksFail(h)
  PROVE  BooksInv'
<1>1. BookRows /\ FilingRaces
  BY DEF BooksInv
<1>2. Answer(h) /\ UNCHANGED <<bill, jackets, commissions, staffed, closed, raced>>
  BY DEF DeleteTaxPeriod, LinkDeal, UnlinkDeal, BooksFail, booksVars
<1>3. /\ DOMAIN pc' = Handlers /\ DOMAIN local' = Handlers /\ pc'[h] = "idle"
      /\ \A g \in Handlers \ {h} : pc'[g] = pc[g] /\ local'[g] = local[g]
  BY <1>2, AnswersOnly
<1>4. BookRows' /\ \A x \in Bills : bill[x] \in ExpenseType => bill'[x] \in ExpenseType
  BY <1>1, <1>2, SameRows
<1>5. FilingRaces'
  <2>1. CASE DeleteTaxPeriod(h)
    <3>1. pc[h] = "deletePeriod" /\ filing' = "gone"
      BY <2>1 DEF DeleteTaxPeriod
    <3>2. filing # None /\ filing' # None /\ filing' # "closed" /\ filing' # "open"
      BY <1>1, <3>1, BooksAssumption DEF FilingRaces
    <3>3. closed' => raced'
      BY <1>1, <1>2, <3>1, <3>2 DEF FilingRaces, Kept
    <3>4. QED
      BY <1>1, <1>2, <1>3, <3>1, <3>2, <3>3 DEF FilingRaces, Kept
  <2>2. CASE LinkDeal(h) \/ UnlinkDeal(h) \/ BooksFail(h)
    <3>1. filing' = filing
      BY <2>2 DEF LinkDeal, UnlinkDeal, BooksFail, booksVars
    <3>2. QED
      BY <1>1, <1>2, <1>3, <3>1, FilingStands
  <2>3. QED
    BY <2>1, <2>2
<1>6. QED
  BY <1>3, <1>4, <1>5, BooksKept

LEMMA BooksStart ==
  ASSUME BooksInit, RequestsInit
  PROVE  BooksInv
<1>1. BookRows
  BY DEF BooksInit, BookRows
<1>2. DOMAIN local = Handlers /\ DOMAIN pc = Handlers /\ \A h \in Handlers : pc[h] = "idle"
  BY DEF RequestsInit
<1>3. FilingRaces
  BY <1>2 DEF BooksInit, FilingRaces
<1>4. \A h \in Handlers : BillHeld(pc[h], local[h])
  BY <1>2 DEF BillHeld
<1>5. QED
  BY <1>1, <1>2, <1>3, <1>4 DEF BooksInv

LEMMA BooksStep ==
  ASSUME BooksInv, BooksNext
  PROVE  BooksInv'
<1>1. CASE CreateExpense \/ WholesaleCreateExpense
  BY <1>1, CreateExpenseKeeps
<1>2. CASE Business
  BY <1>2, BusinessKeeps
<1>3. CASE CreateTaxPeriod
  BY <1>3, CreateTaxPeriodKeeps
<1>4. CASE UpdateTaxPeriodStatus \/ \E h \in Handlers : UpdateTaxPeriod(h)
  BY <1>4, UpdateTaxPeriodKeeps
<1>5. CASE \E h \in Handlers : FindExpense(h) \/ FindPeriod(h)
  BY <1>5, FindKeeps
<1>6. CASE \E h \in Handlers : UpdateExpense(h) \/ DeleteExpense(h)
  BY <1>6, WriteExpenseKeeps
<1>7. CASE \E h \in Handlers : DeleteTaxPeriod(h) \/ LinkDeal(h) \/ UnlinkDeal(h) \/ BooksFail(h)
  BY <1>7, EndPeriodKeeps
<1>8. QED
  BY <1>1, <1>2, <1>3, <1>4, <1>5, <1>6, <1>7 DEF BooksNext

LEMMA BooksStandStill ==
  ASSUME BooksInv, UNCHANGED <<booksVars, handlerVars>>
  PROVE  BooksInv'
<1>1. UNCHANGED <<bill, jackets, commissions, staffed, filing, closed, raced, pc, local>>
  BY DEF booksVars, handlerVars
<1>2. BookRows /\ FilingRaces /\ DOMAIN local = Handlers
  BY DEF BooksInv
<1>3. BookRows' /\ \A x \in Bills : bill[x] \in ExpenseType => bill'[x] \in ExpenseType
  BY <1>1, <1>2, SameRows
<1>4. FilingRaces'
  BY <1>1, <1>2, FilingStands DEF FilingRaces
<1>5. QED
  BY <1>1, <1>2, <1>3, <1>4, BooksKept

\* However the expenses are made, patched and deleted, and for any number of months
\* and expenses: the report of a range is that of its months, but for what it spares
\* and the guarantee it shares; the wholesale page and the dashboard agree with it as
\* far as they know the exceptions; and a closed filing period is deleted only when it
\* was closed under the deletion (profitLoss, expenseAmountInRange, deleteTaxPeriod).
THEOREM BooksAlwaysAddUp == BooksSpec => []BooksAddUp
<1>1. BooksInit /\ RequestsInit => BooksInv
  BY BooksStart
<1>2. BooksInv /\ [BooksNext]_<<booksVars, handlerVars>> => BooksInv'
  BY BooksStep, BooksStandStill
<1>3. BooksInv => BooksAddUp
  BY FiguresOfRows
<1>4. QED
  BY <1>1, <1>2, <1>3, PTL DEF BooksSpec

-----------------------------------------------------------------------------
(* The office.                                                             *)

Foci == {"socials", "team", "messaging", "threads", "payroll", "books", "jobs", "admission", "hashing"}

\* The component in focus keeps its invariant; the others do not use the requests.
OfficeInv ==
  /\ focus \in Foci
  /\ focus = "admission" => AdmInv
  /\ focus = "hashing" => PoolInv
  /\ focus = "books" => BooksInv

LEMMA OfficeStarts ==
  ASSUME OfficeInit
  PROVE  OfficeInv
<1>1. RequestsInit /\ AdmissionInit /\ PoolInit /\ BooksInit /\ focus \in Foci
  BY DEF OfficeInit, Foci
<1>2. QED
  BY <1>1, AdmStarts, PoolStarts, BooksStart DEF OfficeInv

LEMMA OfficeStep ==
  ASSUME OfficeInv, [OfficeNext]_officeVars
  PROVE  OfficeInv'
<1>1. CASE focus = "admission" /\ AdmissionNext /\ UNCHANGED focus
  BY <1>1, AdmStep DEF OfficeInv
<1>2. CASE focus = "hashing" /\ PoolNext /\ UNCHANGED focus
  BY <1>2, PoolStep DEF OfficeInv
<1>2a. CASE focus = "books" /\ BooksNext /\ UNCHANGED focus
  BY <1>2a, BooksStep DEF OfficeInv
<1>3. CASE focus \notin {"admission", "hashing", "books"} /\ UNCHANGED focus
  BY <1>3 DEF OfficeInv
<1>4. CASE UNCHANGED officeVars
  <2>1. UNCHANGED <<admissionVars, poolVars, booksVars, handlerVars, focus>>
    BY <1>4 DEF officeVars
  <2>2. UNCHANGED begun
    BY <2>1 DEF handlerVars
  <2>3. focus = "admission" => AdmInv'
    BY <2>1, AdmStandsStill DEF OfficeInv
  <2>4. focus = "hashing" => PoolInv'
    BY <2>1, <2>2, PoolStandsStill DEF OfficeInv
  <2>4a. focus = "books" => BooksInv'
    BY <2>1, BooksStandStill DEF OfficeInv
  <2>5. QED
    BY <2>1, <2>3, <2>4, <2>4a DEF OfficeInv
<1>5. OfficeNext =>
        \/ focus = "admission" /\ AdmissionNext /\ UNCHANGED focus
        \/ focus = "hashing" /\ PoolNext /\ UNCHANGED focus
        \/ focus = "books" /\ BooksNext /\ UNCHANGED focus
        \/ focus \notin {"admission", "hashing", "books"} /\ UNCHANGED focus
  BY DEF OfficeNext
<1>6. QED
  BY <1>1, <1>2, <1>2a, <1>3, <1>4, <1>5

\* Whatever happens, in the component in focus and in any number of workers: no
\* more comes through the rate limits and Jenna's quota than they allow, nothing is
\* answered or served that should not be, and no password check hangs or gets the
\* answer to another.
THEOREM ServerAlwaysHolds == OfficeSpec => []ServerHolds
<1>1. OfficeInit => OfficeInv
  BY OfficeStarts
<1>2. OfficeInv /\ [OfficeNext]_officeVars => OfficeInv'
  BY OfficeStep
<1>3. OfficeInv => ServerHolds
  BY AdmissionIsBounded, PoolIsSound DEF OfficeInv, ServerHolds
<1>4. QED
  BY <1>1, <1>2, <1>3, PTL DEF OfficeSpec

\* Where the books are in focus, whatever is done to them: the three pages agree.
THEOREM FiguresAlwaysAgree == OfficeSpec => []FiguresAgree
<1>1. OfficeInit => OfficeInv
  BY OfficeStarts
<1>2. OfficeInv /\ [OfficeNext]_officeVars => OfficeInv'
  BY OfficeStep
<1>3. OfficeInv => FiguresAgree
  BY FiguresOfRows DEF OfficeInv, FiguresAgree
<1>4. QED
  BY <1>1, <1>2, <1>3, PTL DEF OfficeSpec
=============================================================================
