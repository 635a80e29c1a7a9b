------------------------- MODULE AdmissionProofs -------------------------
(***************************************************************************)
(* Admission control keeps the invariants of module Admission for every    *)
(* plan, any number of handlers and keys, any clock resolution, and        *)
(* however long transactions wait for the lock.                            *)
(*                                                                         *)
(* The invariants are inductive together: the request quota follows from   *)
(* Metered, since every admission is metered first.                        *)
(***************************************************************************)
EXTENDS Admission, TLAPS

IInv ==
    /\ TypeOK
    /\ QuotaKept
    /\ Metered
    /\ Nested

-----------------------------------------------------------------------------
(* Arithmetic. *)

\* The quotient of a division, and the bounds that determine it.
LEMMA Quotient ==
    ASSUME NEW d \in Nat \ {0}, NEW t \in Nat
    PROVE  /\ t \div d \in Nat
           /\ (t \div d) * d <= t
           /\ t < (t \div d) * d + d
  BY SMT

\* The remainder of a division is no more than its dividend.
LEMMA Remainder == ASSUME NEW d \in Nat \ {0}, NEW t \in Nat PROVE t % d \in 0..t
  BY SMT

\* A product of naturals is a natural.
LEMMA Product == ASSUME NEW a \in Nat, NEW b \in Nat PROVE a * b \in Nat
  BY SMT

\* A multiple below the next multiple of p is at most that of p.
LEMMA Multiples ==
    ASSUME NEW d \in Nat \ {0}, NEW q \in Nat, NEW p \in Nat, q * d < p * d + d
    PROVE  q <= p
  <1>1. SUFFICES ASSUME q >= p + 1 PROVE FALSE
    OBVIOUS
  <1>2. PICK k \in Nat : q = p + 1 + k
    <2>1. q - (p + 1) \in Nat /\ q = p + 1 + (q - (p + 1))
      BY <1>1
    <2>2. QED
      BY <2>1
  <1>3. q * d = p * d + d + k * d
    BY <1>2
  <1>4. k * d \in Nat /\ p * d \in Nat
    BY Product
  <1>5. QED
    BY <1>3, <1>4

\* Division is monotone.
LEMMA QuotientOrder ==
    ASSUME NEW d \in Nat \ {0}, NEW t \in Nat, NEW u \in Nat, t <= u
    PROVE  t \div d <= u \div d
  <1> DEFINE q == t \div d
             p == u \div d
  <1>1. q \in Nat /\ q * d <= t
    BY Quotient
  <1>2. p \in Nat /\ u < p * d + d
    BY Quotient
  <1>3. q * d \in Nat /\ p * d \in Nat
    BY <1>1, <1>2, Product
  <1>4. q * d < p * d + d
    BY <1>1, <1>2, <1>3
  <1> HIDE DEF q, p
  <1>5. q <= p
    BY <1>1, <1>2, <1>4, Multiples
  <1>6. QED
    BY <1>5 DEF q, p

-----------------------------------------------------------------------------
(* The values of the model's operators. *)

\* A time within the bound lies in a month within the bound.
LEMMA MonthOfType == ASSUME NEW t \in 0..MaxTime PROVE MonthOf(t) \in Month
  <1>1. MonthLength \in Nat \ {0} /\ MaxTime \in Nat /\ t \in Nat /\ t <= MaxTime
    BY AdmissionAssumption DEF AdmissionAssumption
  <1>2. t \div MonthLength \in Nat /\ MaxTime \div MonthLength \in Nat
    BY <1>1, Quotient
  <1>3. t \div MonthLength <= MaxTime \div MonthLength
    BY <1>1, QuotientOrder
  <1>4. QED
    BY <1>2, <1>3 DEF MonthOf, Month

\* Every scope has a positive rate and a capacity.
LEMMA RateType ==
    ASSUME NEW s
    PROVE  RateOf(s) \in Nat /\ Capacity(s) \in Nat
  <1>1. RateOf(s) \in Nat
    BY AdmissionAssumption DEF AdmissionAssumption, RateOf
  <1>2. Burst \in Nat /\ Minute \in Nat
    BY AdmissionAssumption DEF AdmissionAssumption
  <1>3. RateOf(s) * Burst \in Nat
    BY <1>1, <1>2, Product
  <1>4. RateOf(s) * Burst * Minute \in Nat
    BY <1>2, <1>3, Product
  <1>5. QED
    BY <1>1, <1>4 DEF Capacity

\* Printing a date never moves it forward, nor before the origin.
LEMMA ParsedType == ASSUME NEW t \in Nat PROVE Parsed(t) \in 0..t
  <1>1. t % Second \in 0..t
    BY Remainder, AdmissionAssumption DEF AdmissionAssumption
  <1>2. QED
    BY <1>1 DEF Parsed

\* The counters and request records that TypeOK types together, one by one.
LEMMA Counters ==
    ASSUME TypeOK
    PROVE  /\ requests \in [Month -> Nat] /\ bandwidth \in [Month -> Nat]
           /\ ingested \in [Month -> Nat] /\ quotaRejected \in [Month -> Nat]
           /\ rateLimited \in [Month -> Nat] /\ admitted \in [Month -> Nat]
           /\ ipDenied \in [Month -> Nat]
  BY DEF TypeOK

\* A bucket's refilled content lies between nothing and its capacity.
LEMMA AvailableType ==
    ASSUME TypeOK, NEW s \in Scope
    PROVE  Available(s) \in Nat /\ Available(s) <= Capacity(s)
  <1>1. tokens[s] \in Nat /\ clock \in Nat /\ updatedAt[s] \in Nat
    BY AdmissionAssumption DEF TypeOK, AdmissionAssumption
  <1>2. Parsed(updatedAt[s]) \in 0..updatedAt[s]
    BY <1>1, ParsedType
  <1>3. Elapsed(s) \in Nat
    BY <1>1, <1>2 DEF Elapsed
  <1>4. RateOf(s) \in Nat /\ Capacity(s) \in Nat
    BY RateType
  <1>5. Elapsed(s) * RateOf(s) \in Nat
    BY <1>3, <1>4, Product
  <1>6. QED
    BY <1>1, <1>4, <1>5 DEF Available, Refilled

\* Taking a token from scopes that have one keeps every bucket within its bounds.
LEMMA TakeType ==
    ASSUME TypeOK, NEW r \in Request, NEW T \in SUBSET Scope,
           \A s \in T : ~Starved(s),
           Take(T, r)
    PROVE  /\ tokens' \in [Scope -> Nat]
           /\ \A s \in Scope : tokens'[s] <= Capacity(s)
           /\ updatedAt' \in [Scope -> 0..MaxTime]
           /\ taken' \in [Scope -> Nat]
  <1>1. /\ tokens \in [Scope -> Nat] /\ updatedAt \in [Scope -> 0..MaxTime]
        /\ taken \in [Scope -> Nat] /\ r.now \in 0..MaxTime
        /\ \A s \in Scope : tokens[s] <= Capacity(s)
    BY DEF TypeOK, Request
  <1>2. Minute \in Nat \ {0}
    BY AdmissionAssumption DEF AdmissionAssumption
  <1>3. \A s \in Scope : Available(s) \in Nat /\ Available(s) <= Capacity(s)
    BY AvailableType
  <1>4. \A s \in T : Available(s) >= Minute
    BY <1>2, <1>3 DEF Starved
  <1>5. \A s \in Scope : Capacity(s) \in Nat
    BY RateType
  <1>6. \A s \in T : Available(s) - Minute \in Nat /\ Available(s) - Minute <= Capacity(s)
    BY <1>2, <1>3, <1>4, <1>5
  <1>7. tokens' = [s \in Scope |-> IF s \in T THEN Available(s) - Minute ELSE tokens[s]]
    BY DEF Take
  <1>8. tokens' \in [Scope -> Nat] /\ \A s \in Scope : tokens'[s] <= Capacity(s)
    BY <1>1, <1>6, <1>7
  <1>9. updatedAt' \in [Scope -> 0..MaxTime] /\ taken' \in [Scope -> Nat]
    BY <1>1 DEF Take
  <1>10. QED
    BY <1>8, <1>9

-----------------------------------------------------------------------------
(* The initial state. *)

LEMMA InitIInv == Init => IInv
  <1> SUFFICES ASSUME Init PROVE IInv
    OBVIOUS
  <1> USE AdmissionAssumption DEF AdmissionAssumption, Init
  <1>1. TypeOK
    <2>1. \A s \in Scope : Capacity(s) \in Nat
      BY RateType
    <2>2. tokens \in [Scope -> Nat] /\ \A s \in Scope : tokens[s] <= Capacity(s)
      BY <2>1
    <2>3. QED
      BY <2>2 DEF TypeOK, Stage
  <1>2. QuotaKept /\ Metered
    BY DEF QuotaKept, Metered
  <1>3. Nested
    BY DEF Nested, Scope
  <1>4. QED
    BY <1>1, <1>2, <1>3 DEF IInv

-----------------------------------------------------------------------------
(* The decisions. *)

\* What every decision does to the handler and to the two meters.
LEMMA DecideType ==
    ASSUME TypeOK, NEW h \in Handler, NEW verdict \in Stage,
           verdict # "authorizing", Decide(h, verdict)
    PROVE  /\ request[h] \in Request
           /\ MeteredMonth(request[h]) \in Month
           /\ requests' = [requests EXCEPT ![MeteredMonth(request[h])] = @ + 1]
           /\ requests' \in [Month -> Nat]
           /\ bandwidth' \in [Month -> Nat]
           /\ stage' \in [Handler -> Stage]
           /\ request' \in [Handler -> Request \cup {NoRequest}]
           /\ \A g \in Handler : stage'[g] = "authorizing" => request'[g] \in Request
           /\ clock' \in 0..MaxTime /\ active' \in BOOLEAN
           /\ retained' \in StorageLevels /\ begun' \in 0..MaxRequests
  <1>1. request[h] \in Request /\ request[h].now \in 0..MaxTime /\ request[h].count \in Counts
    BY DEF TypeOK, Decide, Request
  <1>2. MeteredMonth(request[h]) \in Month
    BY <1>1, MonthOfType DEF MeteredMonth
  <1>3. Bytes(request[h]) \in Nat
    <2>1. Counts \subseteq Nat
      BY AdmissionAssumption DEF AdmissionAssumption
    <2>2. request[h].count \in Nat
      BY <1>1, <2>1
    <2>3. QED
      BY <2>2 DEF Bytes
  <1>4. /\ requests' = [requests EXCEPT ![MeteredMonth(request[h])] = @ + 1]
        /\ requests' \in [Month -> Nat] /\ bandwidth' \in [Month -> Nat]
    BY <1>2, <1>3, Counters DEF Decide, Meter
  <1>5. stage' \in [Handler -> Stage] /\ request' \in [Handler -> Request \cup {NoRequest}]
    BY DEF TypeOK, Decide
  <1>6. \A g \in Handler : stage'[g] = "authorizing" => request'[g] \in Request
    BY DEF TypeOK, Decide
  <1>7. /\ clock' \in 0..MaxTime /\ active' \in BOOLEAN
        /\ retained' \in StorageLevels /\ begun' \in 0..MaxRequests
    BY DEF TypeOK, Decide
  <1>8. QED
    BY <1>1, <1>2, <1>4, <1>5, <1>6, <1>7

\* A quota denial counts itself, and nothing else the quotas speak of.
LEMMA DenyQuotaIInv ==
    ASSUME IInv, NEW h \in Handler, DenyQuota(h)
    PROVE  IInv'
  <1> DEFINE m == MeteredMonth(request[h])
  <1>1. TypeOK /\ QuotaKept /\ Metered /\ Nested /\ "denied" \in Stage
    BY DEF IInv, Stage
  <1>2. /\ Decide(h, "denied")
        /\ quotaRejected' = [quotaRejected EXCEPT ![m] = @ + 1]
        /\ UNCHANGED <<ingested, rateLimited, buckets, admitted, ipDenied>>
    BY DEF DenyQuota
  <1>3. /\ m \in Month
        /\ requests' = [requests EXCEPT ![m] = @ + 1]
        /\ requests' \in [Month -> Nat]
    BY <1>1, <1>2, DecideType
  <1>4. TypeOK'
    <2>1. quotaRejected' \in [Month -> Nat]
      BY <1>1, <1>2, <1>3, Counters
    <2>2. QED
      BY <1>1, <1>2, <2>1, DecideType DEF TypeOK, buckets, Capacity, RateOf
  <1>5. QuotaKept' /\ Nested'
    BY <1>1, <1>2 DEF QuotaKept, Nested, buckets
  <1>6. Metered'
    BY <1>1, <1>2, <1>3, Counters DEF Metered
  <1>7. QED
    BY <1>4, <1>5, <1>6 DEF IInv

\* So does a refused address.
LEMMA DenyAddressIInv ==
    ASSUME IInv, NEW h \in Handler, DenyAddress(h)
    PROVE  IInv'
  <1> DEFINE m == MeteredMonth(request[h])
  <1>1. TypeOK /\ QuotaKept /\ Metered /\ Nested /\ "denied" \in Stage
    BY DEF IInv, Stage
  <1>2. /\ Decide(h, "denied")
        /\ ipDenied' = [ipDenied EXCEPT ![m] = @ + 1]
        /\ UNCHANGED <<ingested, quotaRejected, rateLimited, buckets, admitted>>
    BY DEF DenyAddress
  <1>3. /\ m \in Month
        /\ requests' = [requests EXCEPT ![m] = @ + 1]
        /\ requests' \in [Month -> Nat]
    BY <1>1, <1>2, DecideType
  <1>4. TypeOK'
    <2>1. ipDenied' \in [Month -> Nat]
      BY <1>1, <1>2, <1>3, Counters
    <2>2. QED
      BY <1>1, <1>2, <2>1, DecideType DEF TypeOK, buckets, Capacity, RateOf
  <1>5. QuotaKept' /\ Nested'
    BY <1>1, <1>2 DEF QuotaKept, Nested, buckets
  <1>6. Metered'
    BY <1>1, <1>2, <1>3, Counters DEF Metered
  <1>7. QED
    BY <1>4, <1>5, <1>6 DEF IInv

\* A rate denial has taken tokens from the scopes asked before the starved one,
\* which are always the wider ones.
LEMMA DenyRateIInv ==
    ASSUME IInv, NEW h \in Handler, DenyRate(h)
    PROVE  IInv'
  <1> DEFINE r == request[h]
             m == MeteredMonth(r)
  <1>1. TypeOK /\ QuotaKept /\ Metered /\ Nested /\ "denied" \in Stage
    BY DEF IInv, Stage
  <1>2. /\ Decide(h, "denied")
        /\ rateLimited' = [rateLimited EXCEPT ![m] = @ + 1]
        /\ UNCHANGED <<ingested, quotaRejected, admitted, ipDenied>>
    BY DEF DenyRate
  <1>3. /\ r \in Request /\ m \in Month
        /\ requests' = [requests EXCEPT ![m] = @ + 1]
        /\ requests' \in [Month -> Nat]
    BY <1>1, <1>2, DecideType
  <1>4. PICK T \in {{}, {"organization"}, {"organization", "environment"}} :
           Take(T, r) /\ \A s \in T : ~Starved(s)
    <2>1. PICK i \in 1..3 : /\ \A j \in 1..(i - 1) : ~Starved(ScopesOf(r)[j])
                            /\ Take({ScopesOf(r)[j] : j \in 1..(i - 1)}, r)
      BY DEF DenyRate
    <2> DEFINE T == {ScopesOf(r)[j] : j \in 1..(i - 1)}
    <2>2. T \in {{}, {"organization"}, {"organization", "environment"}}
      <3>1. ScopesOf(r)[1] = "organization" /\ ScopesOf(r)[2] = "environment"
        BY DEF ScopesOf
      <3>2. CASE i = 1
        <4>1. 1..(i - 1) = {}
          BY <3>2
        <4>2. QED
          BY <4>1
      <3>3. CASE i = 2
        <4>1. 1..(i - 1) = {1}
          BY <3>3
        <4>2. QED
          BY <3>1, <4>1
      <3>4. CASE i = 3
        <4>1. 1..(i - 1) = {1, 2}
          BY <3>4
        <4>2. QED
          BY <3>1, <4>1
      <3>5. i = 1 \/ i = 2 \/ i = 3
        BY <2>1
      <3>6. QED
        BY <3>2, <3>3, <3>4, <3>5
    <2>3. \A s \in T : ~Starved(s)
      BY <2>1
    <2>4. QED
      BY <2>1, <2>2, <2>3
  <1>5. T \in SUBSET Scope
    BY DEF Scope
  <1>6. TypeOK'
    <2>1. rateLimited' \in [Month -> Nat]
      BY <1>1, <1>2, <1>3, Counters
    <2>2. /\ tokens' \in [Scope -> Nat]
          /\ \A s \in Scope : tokens'[s] <= Capacity(s)
          /\ updatedAt' \in [Scope -> 0..MaxTime]
          /\ taken' \in [Scope -> Nat]
      BY <1>1, <1>3, <1>4, <1>5, TakeType
    <2>3. QED
      BY <1>1, <1>2, <2>1, <2>2, DecideType DEF TypeOK, Capacity, RateOf
  <1>7. QuotaKept'
    BY <1>1, <1>2 DEF QuotaKept
  <1>8. Nested'
    <2>1. taken' = [s \in Scope |-> IF s \in T THEN taken[s] + 1 ELSE taken[s]]
      BY <1>4 DEF Take
    <2>2. /\ taken \in [Scope -> Nat]
          /\ "organization" \in Scope /\ "environment" \in Scope /\ Key \subseteq Scope
      BY <1>1 DEF TypeOK, Scope
    <2>3. "environment" \in T => "organization" \in T
      OBVIOUS
    <2>4. \A k \in Key : k \notin T
      BY AdmissionAssumption DEF AdmissionAssumption
    <2>5. QED
      BY <1>1, <2>1, <2>2, <2>3, <2>4 DEF Nested
  <1>9. Metered'
    BY <1>1, <1>2, <1>3, Counters DEF Metered
  <1>10. QED
    BY <1>6, <1>7, <1>8, <1>9 DEF IInv

\* An admission fits the event quota by its own test, and the request quota because
\* it was metered, as every admission before it.
LEMMA AdmitIInv ==
    ASSUME IInv, NEW h \in Handler, Admit(h)
    PROVE  IInv'
  <1> DEFINE r == request[h]
             m == MeteredMonth(r)
             T == {"organization", "environment", r.key}
  <1>1. TypeOK /\ QuotaKept /\ Metered /\ Nested /\ "admitted" \in Stage
    BY DEF IInv, Stage
  <1>2. /\ Decide(h, "admitted")
        /\ ~OverQuota(r, m)
        /\ \A s \in T : ~Starved(s)
        /\ Take(T, r)
        /\ ingested' = [ingested EXCEPT ![m] = @ + r.count]
        /\ admitted' = [admitted EXCEPT ![m] = @ + 1]
        /\ UNCHANGED <<quotaRejected, rateLimited, ipDenied>>
    BY DEF Admit, PassesQuota, Ingest
  <1>3. /\ r \in Request /\ m \in Month
        /\ requests' = [requests EXCEPT ![m] = @ + 1]
        /\ requests' \in [Month -> Nat]
    BY <1>1, <1>2, DecideType
  <1>4. r.count \in Nat /\ r.key \in Key
    <2>1. Counts \subseteq Nat
      BY AdmissionAssumption DEF AdmissionAssumption
    <2>2. r.count \in Counts /\ r.key \in Key
      BY <1>3 DEF Request
    <2>3. QED
      BY <2>1, <2>2
  <1>5. T \in SUBSET Scope
    BY <1>4 DEF Scope
  <1>6. TypeOK'
    <2>1. ingested' \in [Month -> Nat] /\ admitted' \in [Month -> Nat]
      BY <1>1, <1>2, <1>3, <1>4, Counters
    <2>2. /\ tokens' \in [Scope -> Nat]
          /\ \A s \in Scope : tokens'[s] <= Capacity(s)
          /\ updatedAt' \in [Scope -> 0..MaxTime]
          /\ taken' \in [Scope -> Nat]
      BY <1>1, <1>2, <1>3, <1>5, TakeType
    <2>3. QED
      BY <1>1, <1>2, <2>1, <2>2, DecideType DEF TypeOK, Capacity, RateOf
  <1>7. QuotaKept'
    <2>1. requests[m] + 1 <= RequestLimit /\ ingested[m] + r.count <= EventLimit
      <3>1. RequestLimit \in Nat /\ EventLimit \in Nat
        BY AdmissionAssumption DEF AdmissionAssumption
      <3>2. requests[m] \in Nat /\ ingested[m] \in Nat
        BY <1>1, <1>3, Counters
      <3>3. QED
        BY <1>2, <1>4, <3>1, <3>2 DEF OverQuota, OverRequests, OverEvents
    <2>2. admitted[m] <= requests[m]
      BY <1>1, <1>3, Counters DEF Metered
    <2>3. admitted[m] + 1 <= RequestLimit
      <3>1. RequestLimit \in Nat
        BY AdmissionAssumption DEF AdmissionAssumption
      <3>2. requests[m] \in Nat /\ admitted[m] \in Nat
        BY <1>1, <1>3, Counters
      <3>3. QED
        BY <2>1, <2>2, <3>1, <3>2
    <2>4. QED
      BY <1>1, <1>2, <1>3, <2>1, <2>3, Counters DEF QuotaKept
  <1>8. Nested'
    <2>1. taken' = [s \in Scope |-> IF s \in T THEN taken[s] + 1 ELSE taken[s]]
      BY <1>2 DEF Take
    <2>2. /\ taken \in [Scope -> Nat]
          /\ "organization" \in Scope /\ "environment" \in Scope /\ Key \subseteq Scope
      BY <1>1 DEF TypeOK, Scope
    <2>3. "environment" \in T /\ "organization" \in T
      OBVIOUS
    <2>4. QED
      BY <1>1, <2>1, <2>2, <2>3 DEF Nested
  <1>9. Metered'
    BY <1>1, <1>2, <1>3, Counters DEF Metered
  <1>10. QED
    BY <1>6, <1>7, <1>8, <1>9 DEF IInv

-----------------------------------------------------------------------------
(* The other steps, and the theorems. *)

\* A transaction begins at a time within the bound.
LEMMA BeginIInv ==
    ASSUME IInv, NEW h \in Handler, NEW k \in Key, NEW n \in Counts, NEW ip \in BOOLEAN,
           Begin(h, k, n, ip)
    PROVE  IInv'
  <1>1. TypeOK /\ QuotaKept /\ Metered /\ Nested
    BY DEF IInv
  <1>2. TypeOK'
    <2>1. [key |-> k, count |-> n, ipAllowed |-> ip, now |-> clock] \in Request
      BY <1>1 DEF TypeOK, Request
    <2>2. /\ stage' \in [Handler -> Stage]
          /\ request' \in [Handler -> Request \cup {NoRequest}]
          /\ \A g \in Handler : stage'[g] = "authorizing" => request'[g] \in Request
      BY <1>1, <2>1 DEF TypeOK, Begin, Stage
    <2>3. begun' \in 0..MaxRequests
      BY <1>1, AdmissionAssumption DEF TypeOK, Begin, AdmissionAssumption
    <2>4. QED
      BY <1>1, <2>2, <2>3 DEF TypeOK, Begin, meters, buckets, Capacity, RateOf
  <1>3. QuotaKept' /\ Metered' /\ Nested'
    BY <1>1 DEF QuotaKept, Metered, Nested, Begin, meters, buckets
  <1>4. QED
    BY <1>2, <1>3 DEF IInv

\* Steps that leave the meters and the buckets alone.
LEMMA OthersIInv ==
    ASSUME IInv,
           \/ \E h \in Handler : Release(h)
           \/ MoveStorage \/ ChangeStatus \/ Tick
           \/ UNCHANGED admissionVars
    PROVE  IInv'
  <1>1. TypeOK /\ QuotaKept /\ Metered /\ Nested
    BY DEF IInv
  <1>2. UNCHANGED <<meters, buckets, admitted, ipDenied>>
    BY DEF Release, MoveStorage, ChangeStatus, Tick, admissionVars
  <1>3. TypeOK'
    <2>1. CASE \E h \in Handler : Release(h)
      BY <1>1, <2>1 DEF TypeOK, Release, Stage, meters, buckets, Capacity, RateOf
    <2>2. CASE MoveStorage
      BY <1>1, <2>2 DEF TypeOK, MoveStorage, meters, buckets, Capacity, RateOf
    <2>3. CASE ChangeStatus
      BY <1>1, <2>3 DEF TypeOK, ChangeStatus, meters, buckets, Capacity, RateOf
    <2>4. CASE Tick
      <3>1. clock' \in 0..MaxTime
        BY <1>1, <2>4, AdmissionAssumption DEF TypeOK, Tick, AdmissionAssumption
      <3>2. QED
        BY <1>1, <2>4, <3>1 DEF TypeOK, Tick, meters, buckets, Capacity, RateOf
    <2>5. CASE UNCHANGED admissionVars
      BY <1>1, <2>5 DEF TypeOK, admissionVars, meters, buckets, Capacity, RateOf
    <2>6. QED
      BY <2>1, <2>2, <2>3, <2>4, <2>5
  <1>4. QuotaKept' /\ Metered' /\ Nested'
    BY <1>1, <1>2 DEF QuotaKept, Metered, Nested, meters, buckets
  <1>5. QED
    BY <1>3, <1>4 DEF IInv

LEMMA NextIInv == IInv /\ [Next]_admissionVars => IInv'
  <1> SUFFICES ASSUME IInv, [Next]_admissionVars PROVE IInv'
    OBVIOUS
  <1>1. CASE \E h \in Handler, k \in Key, n \in Counts, ip \in BOOLEAN : Begin(h, k, n, ip)
    BY <1>1, BeginIInv
  <1>2. CASE \E h \in Handler : Authorize(h)
    BY <1>2, DenyQuotaIInv, DenyAddressIInv, DenyRateIInv, AdmitIInv DEF Authorize
  <1>3. CASE \/ \E h \in Handler : Release(h)
             \/ MoveStorage \/ ChangeStatus \/ Tick
             \/ UNCHANGED admissionVars
    BY <1>3, OthersIInv
  <1>4. QED
    BY <1>1, <1>2, <1>3 DEF Next

LEMMA SpecIInv == Spec => []IInv
  BY InitIInv, NextIInv, PTL DEF Spec

\* The state keeps its types, whatever the plan and however coarse the clock: in
\* particular no bucket overflows its capacity or goes below nothing.
THEOREM TypeCorrect == Spec => []TypeOK
  <1>1. IInv => TypeOK
    BY DEF IInv
  <1>2. QED
    BY <1>1, SpecIInv, PTL

\* The monthly quotas hold at every moment, however many requests are decided
\* concurrently and however long they wait for the lock.
THEOREM QuotasHold == Spec => []QuotaKept
  <1>1. IInv => QuotaKept
    BY DEF IInv
  <1>2. QED
    BY <1>1, SpecIInv, PTL

\* Every metered request has exactly one outcome, in the month it was metered in.
THEOREM EveryRequestMetered == Spec => []Metered
  <1>1. IInv => Metered
    BY DEF IInv
  <1>2. QED
    BY <1>1, SpecIInv, PTL

\* A narrow scope never hands out more tokens than a wider one.
THEOREM ScopesNested == Spec => []Nested
  <1>1. IInv => Nested
    BY DEF IInv
  <1>2. QED
    BY <1>1, SpecIInv, PTL

=============================================================================
