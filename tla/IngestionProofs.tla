--------------------------- MODULE IngestionProofs ---------------------------
(***************************************************************************)
(* Proofs about the ingestion pipeline, for every number of handlers, any  *)
(* plan, any batches and any events.                                       *)
(***************************************************************************)
EXTENDS Ingestion, FiniteSetTheorems, TLAPS

AP == INSTANCE AdmissionProofs

\* Where a handler may be: it inserts and meters only what was admitted, and asks for
\* the events of its batch that validation accepted.
Control ==
    /\ clock \in 0..MaxTime
    /\ stage \in [Handler -> Admission!Stage]
    /\ request \in [Handler -> Admission!Request \cup {Admission!NoRequest}]
    /\ step \in [Handler -> Step]
    /\ batch \in [Handler -> Batch \cup {<<>>}]
    /\ fresh \in [Handler -> SUBSET Event]
    /\ \A h \in Handler :
          /\ step[h] = "none" => stage[h] = "idle"
          /\ step[h] \in {"inserted", "metered"} => stage[h] = "admitted"
          /\ step[h] # "none" => batch[h] \in Batch
          /\ step[h] \in {"none", "validated"} => fresh[h] = {}
          /\ stage[h] = "authorizing" => request[h].count = ValidCount(batch[h])

\* The storage charged for is that of the rows, while there is an environment.
Storage ==
    /\ receivedAt \in [Event -> 0..MaxTime \cup {NoRow}]
    /\ exists \in BOOLEAN
    /\ StorageExact
    /\ ~exists => Rows = {}
    /\ retained \in {StorageOf(S) : S \in SUBSET Event}

\* What a handler has inserted, or found, is a row until it is deleted.
Durable ==
    /\ AckedDurable
    /\ \A h \in Handler :
          step[h] \in {"inserted", "metered"} => Valid(batch[h]) \subseteq Rows \cup deleted

\* The rest of the types of the state.
Types ==
    /\ storedUsage \in [Month -> Nat]
    /\ acked \in SUBSET Event /\ deleted \in SUBSET Event
    /\ inserted \in [Event -> Nat] /\ published \in [Event -> Nat]

\* The inductive invariant.
IInv == Control /\ Storage /\ Durable /\ Types

-----------------------------------------------------------------------------
(* Lemmas about the operators. *)

\* The assumptions on the constants, spelled out.
LEMMA Constants ==
    /\ IsFiniteSet(Handler) /\ Handler # {}
    /\ IsFiniteSet(Event) /\ Cardinality(Event) \in Nat
    /\ {StorageOf(S) : S \in SUBSET Event} \subseteq StorageLevels
    /\ Counts \subseteq Nat /\ StorageLimit \in Nat \ {0}
    /\ MaxTime \in Nat /\ MaxRequests \in Nat
    /\ Batch \subseteq Seq(Event)
    /\ \A b \in Batch : ValidCount(b) \in Counts
    /\ AP!AdmissionAssumption
BY IngestionAssumption, FS_CardinalityType DEF Admission!AdmissionAssumption

LEMMA RowSizes ==
    /\ RowLimit \in Nat /\ RowLimit > 0
    /\ \A e \in Event : RowSize[e] \in Nat /\ RowSize[e] <= RowLimit
<1>1. RowLimit \in Nat \ {0} /\ RowSize \in [Event -> 1..RowLimit]
  BY IngestionAssumption
<1> QED
  BY <1>1

\* A multiple grows with its factor.
LEMMA Product == ASSUME NEW m \in Nat, NEW n \in Nat PROVE m * n \in Nat
BY SMT

LEMMA Scaled ==
    ASSUME NEW k \in Nat, NEW m \in Nat, NEW n \in Nat, m <= n
    PROVE  k * m <= k * n
<1>1. n - m \in Nat
  OBVIOUS
<1>2. k * (n - m) \in Nat
  BY <1>1, Product
<1>3. k * n = k * m + k * (n - m)
  OBVIOUS
<1> DEFINE x == k * n
           y == k * m
           z == k * (n - m)
<1>4. y \in Int /\ z \in Nat /\ x = y + z
  BY <1>2, <1>3
<1> HIDE DEF x, y, z
<1>5. y <= x
  BY <1>4
<1> QED
  BY <1>5 DEF x, y

\* The larger of zero and n.
LEMMA MaxZero ==
    ASSUME NEW n \in Int
    PROVE  Max({0, n}) = IF n > 0 THEN n ELSE 0
<1>1. \E x \in {0, n} : \A y \in {0, n} : x >= y
  <2>1. n >= 0 \/ 0 >= n
    OBVIOUS
  <2> QED
    BY <2>1
<1> DEFINE m == Max({0, n})
<1>2. m \in {0, n} /\ \A y \in {0, n} : m >= y
  BY <1>1 DEF Max
<1>3. m >= 0 /\ m >= n /\ (m = 0 \/ m = n)
  BY <1>2
<1> HIDE DEF m
<1>4. m = IF n > 0 THEN n ELSE 0
  BY <1>3
<1> QED
  BY <1>4 DEF m

\* The batch with the most valid events has a number of them.
LEMMA LargestType ==
    /\ Largest \in Nat
    /\ \A k \in Counts : k \in Nat /\ k <= Largest
<1>1. \E n \in Counts : \A k \in Counts : k <= n
  BY IngestionAssumption
<1>2. Largest \in Counts /\ \A k \in Counts : k <= Largest
  BY <1>1 DEF Largest
<1> QED
  BY <1>2, Constants

\* A batch has at most as many new events as it has valid ones.
LEMMA FreshCount ==
    ASSUME NEW b \in Seq(Event)
    PROVE  /\ Valid(b) \subseteq Event
           /\ Fresh(b) \subseteq Valid(b) /\ Fresh(b) \cap Rows = {}
           /\ IsFiniteSet(Fresh(b)) /\ Cardinality(Fresh(b)) \in Nat
           /\ ValidCount(b) \in Nat /\ Cardinality(Fresh(b)) <= ValidCount(b)
<1> DEFINE G == {i \in DOMAIN b : b[i] \notin Invalid}
           f == [i \in G |-> b[i]]
<1>1. DOMAIN b = 1..Len(b) /\ Len(b) \in Nat /\ \A i \in DOMAIN b : b[i] \in Event
  OBVIOUS
<1>2. IsFiniteSet(1..Len(b)) /\ G \subseteq 1..Len(b)
  BY <1>1, FS_Interval
<1>3. IsFiniteSet(G)
  BY <1>2, FS_Subset
<1>4. f \in Surjection(G, Valid(b))
  <2>1. f \in [G -> Valid(b)]
    BY DEF Valid
  <2>2. \A e \in Valid(b) : \E i \in G : f[i] = e
    BY DEF Valid
  <2> QED
    BY <2>1, <2>2 DEF Surjection
<1>5. IsFiniteSet(Valid(b)) /\ Cardinality(Valid(b)) <= Cardinality(G)
  BY <1>3, <1>4, FS_Surjection
<1>6. Fresh(b) \subseteq Valid(b) /\ Fresh(b) \cap Rows = {}
  BY DEF Fresh
<1>7. IsFiniteSet(Fresh(b)) /\ Cardinality(Fresh(b)) <= Cardinality(Valid(b))
  BY <1>5, <1>6, FS_Subset
<1>8. /\ Cardinality(G) \in Nat /\ Cardinality(Valid(b)) \in Nat
      /\ Cardinality(Fresh(b)) \in Nat
  BY <1>3, <1>5, <1>7, FS_CardinalityType
<1>9. Valid(b) \subseteq Event
  BY <1>1 DEF Valid
<1> QED
  BY <1>5, <1>6, <1>7, <1>8, <1>9 DEF ValidCount

\* How many positions of a sequence satisfy something is a natural number.
LEMMA PositionCount ==
    ASSUME NEW b \in Seq(Event), NEW S \in SUBSET DOMAIN b
    PROVE  Cardinality(S) \in Nat
<1>1. DOMAIN b = 1..Len(b) /\ Len(b) \in Nat
  OBVIOUS
<1>2. IsFiniteSet(1..Len(b)) /\ S \subseteq 1..Len(b)
  BY <1>1, FS_Interval
<1>3. IsFiniteSet(S)
  BY <1>2, FS_Subset
<1> QED
  BY <1>3, FS_CardinalityType

\* The verdict on a request.
LEMMA AuthorizeEffect ==
    ASSUME NEW h \in Handler, Authorize(h)
    PROVE  /\ stage[h] = "authorizing"
           /\ \E v \in {"admitted", "denied"} : stage' = [stage EXCEPT ![h] = v]
           /\ request' = [request EXCEPT ![h] = Admission!NoRequest]
           /\ UNCHANGED <<clock, retained, tableVars, handlerVars, historyVars>>
BY DEF Authorize, Admission!Authorize, Admission!DenyQuota, Admission!DenyAddress,
       Admission!DenyRate, Admission!Admit, Admission!Decide

-----------------------------------------------------------------------------
(* Sums over finite sets. *)

LEMMA Least ==
    ASSUME NEW T \in SUBSET Nat, T # {}
    PROVE  \E n \in T : \A m \in T : n <= m
<1>1. IsWellFoundedOn(OpToRel(<, Nat), Nat)
  BY NatLessThanWellFounded
<1>2. PICK n \in T : \A m \in T : ~(<<m, n>> \in OpToRel(<, Nat))
  BY <1>1, WFMin
<1>3. \A m \in T : ~(m < n)
  BY <1>2 DEF OpToRel
<1> QED
  BY <1>3

One(s) == CHOOSE x \in s : TRUE

Summing(f, g) ==
    g = [s \in SUBSET DOMAIN f |-> IF s = {} THEN 0 ELSE f[One(s)] + g[s \ {One(s)}]]
Sum(f) == CHOOSE g : Summing(f, g)

LEMMA TotalIs == \A f : Total(f) = Sum(f)[DOMAIN f]
  BY DEF Total, MapThenSumSet, MapThenFoldSet, Sum, Summing, One

LEMMA SumExists ==
    ASSUME NEW f, IsFiniteSet(DOMAIN f)
    PROVE  Summing(f, Sum(f))
<1> DEFINE Small(n) == {s \in SUBSET DOMAIN f : Cardinality(s) <= n}
           Good(g, n) == g = [s \in Small(n) |->
                                IF s = {} THEN 0 ELSE f[One(s)] + g[s \ {One(s)}]]
           Bad == {n \in Nat : ~ \E g : Good(g, n)}
<1>1. \A s \in SUBSET DOMAIN f : IsFiniteSet(s) /\ Cardinality(s) \in Nat
  BY FS_Subset, FS_CardinalityType
<1>2. Bad = {}
  <2>1. SUFFICES ASSUME Bad # {} PROVE FALSE
    OBVIOUS
  <2>2. PICK n \in Bad : \A m \in Bad : n <= m
    <3> HIDE DEF Bad
    <3>1. Bad \in SUBSET Nat
      BY DEF Bad
    <3> QED
      BY <2>1, <3>1, Least
  <2>3. n # 0
    <3>1. Good([s \in Small(0) |-> 0], 0)
      BY <1>1, FS_EmptySet
    <3> QED
      BY <2>2, <3>1
  <2>4. PICK g : Good(g, n - 1)
    <3>1. n - 1 \in Nat /\ ~(n <= n - 1)
      BY <2>2, <2>3
    <3> QED
      BY <2>2, <3>1
  <2>5. DEFINE h == [s \in Small(n) |-> IF s = {} THEN 0 ELSE f[One(s)] + g[s \ {One(s)}]]
  <2>6. ASSUME NEW s \in Small(n), s # {}
        PROVE  /\ s \ {One(s)} \in Small(n - 1) /\ s \ {One(s)} \in Small(n)
               /\ h[s \ {One(s)}] = g[s \ {One(s)}]
    <3>1. One(s) \in s
      BY <2>6 DEF One
    <3>2. Cardinality(s \ {One(s)}) = Cardinality(s) - 1
      BY <1>1, <3>1, FS_RemoveElement
    <3>3. /\ s \ {One(s)} \in Small(n - 1) /\ s \ {One(s)} \in Small(n)
      BY <1>1, <3>2, <2>2
    <3> QED
      BY <3>3, <2>4
  <2>7. Good(h, n)
    BY <2>6
  <2> QED
    BY <2>2, <2>7
<1>3. Cardinality(DOMAIN f) \in Nat /\ Small(Cardinality(DOMAIN f)) = SUBSET DOMAIN f
  BY FS_Subset, FS_CardinalityType
<1>4. PICK g : Good(g, Cardinality(DOMAIN f))
  BY <1>2, <1>3
<1>5. Summing(f, g)
  BY <1>3, <1>4 DEF Summing
<1> QED
  BY <1>5 DEF Sum

\* A sum over the part s of its domain.
LEMMA SumStep ==
    ASSUME NEW f, IsFiniteSet(DOMAIN f), NEW s \in SUBSET DOMAIN f
    PROVE  /\ s = {} => Sum(f)[s] = 0
           /\ s # {} => /\ One(s) \in s
                        /\ Sum(f)[s] = f[One(s)] + Sum(f)[s \ {One(s)}]
  BY SumExists DEF Summing, One

\* How much a function has more than another, summed up over each part of their domain.
Difference(c, S, f, g) ==
    /\ c \in [SUBSET S -> Int] /\ c[{}] = 0
    /\ \A s \in SUBSET S : \A x \in s : c[s] = c[s \ {x}] + (g[x] - f[x])

\* Induction over the finite sets: T holds S when it holds the empty set, and each set
\* that it holds without one of its elements.
LEMMA SetInduction ==
    ASSUME NEW S, IsFiniteSet(S), NEW T, {} \in T,
           \A s \in SUBSET S : s # {} /\ s \ {One(s)} \in T => s \in T
    PROVE  S \in T
<1> DEFINE Bad == {n \in Nat : \E s \in SUBSET S : Cardinality(s) = n /\ s \notin T}
<1>1. \A s \in SUBSET S : IsFiniteSet(s) /\ Cardinality(s) \in Nat
  BY FS_Subset, FS_CardinalityType
<1>2. SUFFICES ASSUME Bad # {} PROVE FALSE
  BY <1>1
<1>3. PICK n \in Bad : \A m \in Bad : n <= m
  <2>1. Bad \in SUBSET Nat
    OBVIOUS
  <2> HIDE DEF Bad
  <2> QED
    BY <1>2, <2>1, Least
<1>4. PICK s \in SUBSET S : Cardinality(s) = n /\ s \notin T
  BY <1>3
<1>5. s # {} /\ s \ {One(s)} \notin T /\ One(s) \in s
  BY <1>4 DEF One
<1>6. Cardinality(s \ {One(s)}) = n - 1 /\ n - 1 \in Nat
  <2>1. IsFiniteSet(s \ {One(s)}) /\ Cardinality(s \ {One(s)}) = Cardinality(s) - 1
    BY <1>1, <1>5, FS_RemoveElement
  <2> QED
    BY <1>1, <1>4, <2>1
<1>7. n - 1 \in Bad
  BY <1>5, <1>6
<1> QED
  BY <1>3, <1>6, <1>7

LEMMA SumDiffers ==
    ASSUME NEW S, IsFiniteSet(S), NEW f \in [S -> Int], NEW g \in [S -> Int],
           NEW c, Difference(c, S, f, g)
    PROVE  Total(f) \in Int /\ Total(g) = Total(f) + c[S]
<1> DEFINE T == {s \in SUBSET S : Sum(f)[s] \in Int /\ Sum(g)[s] = Sum(f)[s] + c[s]}
<1>1. {} \in T
  <2>1. Sum(f)[{}] = 0 /\ Sum(g)[{}] = 0
    BY SumStep
  <2> QED
    BY <2>1 DEF Difference
<1>2. ASSUME NEW s \in SUBSET S, s # {}, s \ {One(s)} \in T PROVE s \in T
  <2>1. /\ One(s) \in s /\ DOMAIN f = S /\ DOMAIN g = S
        /\ Sum(f)[s] = f[One(s)] + Sum(f)[s \ {One(s)}]
        /\ Sum(g)[s] = g[One(s)] + Sum(g)[s \ {One(s)}]
    BY <1>2, SumStep
  <2>2. PICK x \in s, r \in T :
          /\ r = s \ {x} /\ Sum(f)[s] = f[x] + Sum(f)[r] /\ Sum(g)[s] = g[x] + Sum(g)[r]
    BY <1>2, <2>1
  <2>3. c[s] = c[r] + (g[x] - f[x]) /\ c[r] \in Int /\ f[x] \in Int /\ g[x] \in Int
    BY <2>2 DEF Difference
  <2> QED
    BY <2>2, <2>3
<1>3. S \in T
  <2> HIDE DEF T
  <2> QED
    BY <1>1, <1>2, SetInduction
<1> QED
  BY <1>3, TotalIs

\* A sum of natural numbers is one, and of zeros is zero.
LEMMA SumNat ==
    ASSUME NEW S, IsFiniteSet(S), NEW f \in [S -> Nat]
    PROVE  Total(f) \in Nat /\ ((\A x \in S : f[x] = 0) => Total(f) = 0)
<1> DEFINE Zero == \A x \in S : f[x] = 0
           T == {s \in SUBSET S : Sum(f)[s] \in Nat /\ (Zero => Sum(f)[s] = 0)}
<1>1. {} \in T
  BY SumStep
<1>2. ASSUME NEW s \in SUBSET S, s # {}, s \ {One(s)} \in T PROVE s \in T
  <2>1. One(s) \in S /\ Sum(f)[s] = f[One(s)] + Sum(f)[s \ {One(s)}]
    BY <1>2, SumStep
  <2>2. PICK x \in S, r \in T : r \subseteq s /\ Sum(f)[s] = f[x] + Sum(f)[r]
    BY <1>2, <2>1
  <2>3. /\ Sum(f)[r] \in Nat /\ f[x] \in Nat
        /\ Zero => Sum(f)[r] = 0 /\ f[x] = 0
    BY <2>2
  <2> HIDE DEF Zero
  <2> QED
    BY <2>2, <2>3
<1>3. S \in T
  <2> HIDE DEF T
  <2> QED
    BY <1>1, <1>2, SetInduction
<1>4. Total(f) = Sum(f)[S]
  BY TotalIs
<1>5. Sum(f)[S] \in Nat /\ (Zero => Sum(f)[S] = 0)
  <2> HIDE DEF Zero
  <2> QED
    BY <1>3
<1> QED
  BY <1>4, <1>5

\* More by one at every point of A.
LEMMA SumOneMore ==
    ASSUME NEW S, IsFiniteSet(S), NEW f \in [S -> Int], NEW g \in [S -> Int],
           NEW A \in SUBSET S, \A x \in S : g[x] = IF x \in A THEN f[x] + 1 ELSE f[x]
    PROVE  Total(f) \in Int /\ Total(g) = Total(f) + Cardinality(A)
<1> DEFINE c == [s \in SUBSET S |-> Cardinality(s \cap A)]
<1>1. \A s \in SUBSET S : IsFiniteSet(s \cap A)
  BY FS_Subset, FS_Intersection
<1>2. \A s \in SUBSET S : Cardinality(s \cap A) \in Int
  BY <1>1, FS_CardinalityType
<1>3. ASSUME NEW s \in SUBSET S, NEW x \in s
      PROVE  c[s] = c[s \ {x}] + (g[x] - f[x])
  <2>1. (s \ {x}) \cap A = (s \cap A) \ {x}
    OBVIOUS
  <2>2. Cardinality((s \ {x}) \cap A) = IF x \in A THEN Cardinality(s \cap A) - 1
                                        ELSE Cardinality(s \cap A)
    BY <1>1, <2>1, FS_RemoveElement
  <2>3. /\ c[s \ {x}] = Cardinality((s \ {x}) \cap A) /\ c[s] = Cardinality(s \cap A)
    OBVIOUS
  <2>4. /\ Cardinality(s \cap A) \in Int /\ f[x] \in Int
        /\ g[x] = IF x \in A THEN f[x] + 1 ELSE f[x]
    BY <1>2
  <2> HIDE DEF c
  <2> QED
    BY <2>2, <2>3, <2>4
<1>4. c[{}] = 0 /\ c[S] = Cardinality(A)
  <2>1. {} \cap A = {} /\ S \cap A = A
    OBVIOUS
  <2> QED
    BY <2>1, FS_EmptySet
<1>5. Difference(c, S, f, g)
  BY <1>2, <1>3, <1>4 DEF Difference
<1> HIDE DEF c
<1> QED
  BY <1>4, <1>5, SumDiffers

\* More by k at one point.
LEMMA SumMoreAt ==
    ASSUME NEW S, IsFiniteSet(S), NEW f \in [S -> Int], NEW a \in S, NEW k \in Int
    PROVE  Total([f EXCEPT ![a] = @ + k]) = Total(f) + k
<1> DEFINE c == [s \in SUBSET S |-> IF a \in s THEN k ELSE 0]
           g == [f EXCEPT ![a] = @ + k]
<1>1. c[S] = k /\ g \in [S -> Int]
  OBVIOUS
<1>2. Difference(c, S, f, g)
  BY DEF Difference
<1> HIDE DEF c, g
<1>3. Total(g) = Total(f) + c[S]
  BY <1>1, <1>2, SumDiffers
<1> QED
  BY <1>1, <1>3 DEF g

\* What a set of rows takes, two disjoint sets take together, and a set takes at most.
LEMMA StorageNat ==
    ASSUME NEW A \in SUBSET Event
    PROVE  /\ StorageOf(A) \in Nat
           /\ A = {} => StorageOf(A) = 0
<1> DEFINE f == [e \in Event |-> IF e \in A THEN RowSize[e] ELSE 0]
<1>1. f \in [Event -> Nat]
  BY RowSizes
<1>2. A = {} => \A x \in Event : f[x] = 0
  OBVIOUS
<1>3. StorageOf(A) = Total(f)
  BY DEF StorageOf
<1> HIDE DEF f
<1>4. Total(f) \in Nat /\ ((\A x \in Event : f[x] = 0) => Total(f) = 0)
  BY <1>1, Constants, SumNat
<1> QED
  BY <1>2, <1>3, <1>4

LEMMA StorageUnion ==
    ASSUME NEW A \in SUBSET Event, NEW B \in SUBSET Event, A \cap B = {}
    PROVE  StorageOf(A \cup B) = StorageOf(A) + StorageOf(B)
<1> DEFINE f == [e \in Event |-> IF e \in A THEN RowSize[e] ELSE 0]
           g == [e \in Event |-> IF e \in B THEN RowSize[e] ELSE 0]
           k == [e \in Event |-> IF e \in A \cup B THEN RowSize[e] ELSE 0]
           T == {s \in SUBSET Event : /\ Sum(f)[s] \in Nat /\ Sum(g)[s] \in Nat
                                      /\ Sum(k)[s] = Sum(f)[s] + Sum(g)[s]}
<1>1. \A e \in Event : f[e] \in Nat /\ g[e] \in Nat /\ k[e] = f[e] + g[e]
  BY RowSizes
<1>2. DOMAIN f = Event /\ DOMAIN g = Event /\ DOMAIN k = Event
  OBVIOUS
<1>3. /\ StorageOf(A) = Total(f) /\ StorageOf(B) = Total(g)
      /\ StorageOf(A \cup B) = Total(k)
  BY DEF StorageOf
<1> HIDE DEF f, g, k
<1>4. {} \in T
  <2>1. Sum(f)[{}] = 0 /\ Sum(g)[{}] = 0 /\ Sum(k)[{}] = 0
    BY <1>2, Constants, SumStep
  <2> QED
    BY <2>1
<1>5. ASSUME NEW s \in SUBSET Event, s # {}, s \ {One(s)} \in T PROVE s \in T
  <2>1. /\ One(s) \in s
        /\ Sum(f)[s] = f[One(s)] + Sum(f)[s \ {One(s)}]
        /\ Sum(g)[s] = g[One(s)] + Sum(g)[s \ {One(s)}]
        /\ Sum(k)[s] = k[One(s)] + Sum(k)[s \ {One(s)}]
    BY <1>2, <1>5, Constants, SumStep
  <2>2. PICK x \in Event, r \in T :
          /\ Sum(f)[s] = f[x] + Sum(f)[r] /\ Sum(g)[s] = g[x] + Sum(g)[r]
          /\ Sum(k)[s] = k[x] + Sum(k)[r]
    BY <1>5, <2>1
  <2>3. /\ f[x] \in Nat /\ g[x] \in Nat /\ k[x] = f[x] + g[x]
        /\ Sum(f)[r] \in Nat /\ Sum(g)[r] \in Nat /\ Sum(k)[r] = Sum(f)[r] + Sum(g)[r]
    BY <1>1, <2>2
  <2> QED
    BY <2>2, <2>3
<1>6. Event \in T
  <2> HIDE DEF T
  <2> QED
    BY <1>4, <1>5, Constants, SetInduction
<1> QED
  BY <1>2, <1>3, <1>6, TotalIs

LEMMA StorageLimited ==
    ASSUME NEW A \in SUBSET Event
    PROVE  StorageOf(A) <= RowLimit * Cardinality(A)
<1> DEFINE f == [e \in Event |-> IF e \in A THEN RowSize[e] ELSE 0]
           T == {s \in SUBSET Event : /\ Sum(f)[s] \in Nat
                                      /\ Sum(f)[s] <= RowLimit * Cardinality(s \cap A)}
<1>1. \A e \in Event : /\ f[e] \in Nat /\ f[e] <= RowLimit
                       /\ e \notin A => f[e] = 0
  BY RowSizes
<1>2. DOMAIN f = Event /\ StorageOf(A) = Total(f)
  BY DEF StorageOf
<1>3. \A s \in SUBSET Event : IsFiniteSet(s \cap A) /\ Cardinality(s \cap A) \in Nat
  BY Constants, FS_Subset, FS_Intersection, FS_CardinalityType
<1> HIDE DEF f
<1>4. {} \in T
  <2>1. Cardinality({} \cap A) = 0
    <3>1. {} \cap A = {}
      OBVIOUS
    <3> QED
      BY <3>1, FS_EmptySet
  <2>2. Sum(f)[{}] = 0
    BY <1>2, Constants, SumStep
  <2>3. RowLimit * 0 = 0
    BY RowSizes
  <2> QED
    BY <2>1, <2>2, <2>3
<1>5. ASSUME NEW s \in SUBSET Event, s # {}, s \ {One(s)} \in T PROVE s \in T
  <2> DEFINE x == One(s)
             r == s \ {x}
  <2>1. x \in s /\ Sum(f)[s] = f[x] + Sum(f)[r]
    BY <1>2, <1>5, Constants, SumStep
  <2>2. Cardinality(r \cap A) = IF x \in A THEN Cardinality(s \cap A) - 1
                                ELSE Cardinality(s \cap A)
    <3> DEFINE sA == s \cap A
    <3>1. r \cap A = sA \ {x} /\ IsFiniteSet(sA) /\ (x \in A <=> x \in sA)
      BY <1>3, <2>1
    <3> HIDE DEF x, r, sA
    <3>2. Cardinality(sA \ {x}) = IF x \in sA THEN Cardinality(sA) - 1 ELSE Cardinality(sA)
      BY <3>1, FS_RemoveElement
    <3> QED
      BY <3>1, <3>2 DEF sA
  <2> DEFINE m == Cardinality(s \cap A)
             n == Cardinality(r \cap A)
  <2>3. /\ Sum(f)[r] \in Nat /\ Sum(f)[r] <= RowLimit * n /\ r \subseteq Event
        /\ f[x] \in Nat /\ f[x] <= RowLimit /\ (x \notin A => f[x] = 0)
        /\ m \in Nat /\ n \in Nat /\ RowLimit \in Nat
    BY <1>1, <1>3, <1>5, <2>1, RowSizes
  <2>4. n = IF x \in A THEN m - 1 ELSE m
    BY <2>2
  <2> HIDE DEF x, r, m, n
  <2>5. Sum(f)[s] \in Nat
    BY <2>1, <2>3
  <2>6. Sum(f)[s] <= RowLimit * m
    <3>1. CASE x \in A
      <4>1. RowLimit * m = RowLimit * n + RowLimit
        BY <2>3, <2>4, <3>1
      <4>2. RowLimit * n \in Nat
        BY <2>3
      <4> DEFINE p == RowLimit * n
                 q == RowLimit * m
      <4>3. p \in Nat /\ q = p + RowLimit /\ Sum(f)[r] <= p
        BY <2>3, <4>1, <4>2
      <4> HIDE DEF p, q
      <4>4. Sum(f)[s] <= q
        BY <2>1, <2>3, <4>3
      <4> QED
        BY <4>4 DEF q
    <3>2. CASE x \notin A
      <4>1. m = n /\ Sum(f)[s] = Sum(f)[r]
        BY <2>1, <2>3, <2>4, <3>2
      <4> QED
        BY <2>3, <4>1
    <3> QED
      BY <3>1, <3>2
  <2> QED
    BY <2>5, <2>6 DEF m
<1>6. Event \in T
  <2> HIDE DEF T
  <2> QED
    BY <1>4, <1>5, Constants, SetInduction
<1>7. Event \cap A = A
  OBVIOUS
<1> QED
  BY <1>2, <1>6, <1>7, TotalIs

\* A batch charges at most the largest row for each of its valid events.
LEMMA ChargedLimit ==
    ASSUME NEW b \in Seq(Event)
    PROVE  /\ Charged(b) \in Nat
           /\ Charged(b) <= RowLimit * ValidCount(b)
<1>1. /\ Fresh(b) \in SUBSET Event /\ Cardinality(Fresh(b)) <= ValidCount(b)
      /\ Cardinality(Fresh(b)) \in Nat /\ ValidCount(b) \in Nat
  BY FreshCount
<1>2. Charged(b) \in Nat /\ Charged(b) <= RowLimit * Cardinality(Fresh(b))
  BY <1>1, StorageNat, StorageLimited DEF Charged
<1> DEFINE c == Charged(b)
           n == Cardinality(Fresh(b))
           v == ValidCount(b)
<1>3. c \in Nat /\ n \in Nat /\ v \in Nat /\ n <= v /\ c <= RowLimit * n /\ RowLimit \in Nat
  BY <1>1, <1>2, RowSizes
<1> HIDE DEF c, n, v
<1>4. RowLimit * n <= RowLimit * v
  BY <1>3, Scaled
<1>5. RowLimit * n \in Nat /\ RowLimit * v \in Nat
  BY <1>3
<1>6. c <= RowLimit * v
  <2> DEFINE p == RowLimit * n
             q == RowLimit * v
  <2>1. c <= p /\ p <= q /\ p \in Nat /\ q \in Nat
    BY <1>3, <1>4, <1>5
  <2> HIDE DEF p, q
  <2>2. c <= q
    BY <1>3, <2>1
  <2> QED
    BY <2>2 DEF q
<1> QED
  BY <1>3, <1>6 DEF c, v

-----------------------------------------------------------------------------
(* The invariant. *)

LEMMA InitIInv == Init => IInv
<1> SUFFICES ASSUME Init PROVE IInv
  OBVIOUS
<1>1. Control
  BY Constants DEF Init, Admission!Init, Control, Admission!Stage, Step
<1>2. Rows = {} /\ StorageOf(Rows) = 0 /\ {} \in SUBSET Event
  BY StorageNat DEF Init, Rows
<1>3. Storage
  BY <1>2, Constants DEF Init, Admission!Init, Storage, StorageExact
<1>4. Durable /\ Types
  BY DEF Init, Durable, AckedDurable, Types
<1> QED
  BY <1>1, <1>3, <1>4 DEF IInv

\* Each step leaves the handlers where Control says.
LEMMA NextControl == IInv /\ [Next]_vars => Control'
<1> SUFFICES ASSUME IInv, [Next]_vars PROVE Control'
  OBVIOUS
<1> USE DEF IInv, Control
<1>1. CASE UNCHANGED vars
  BY <1>1 DEF vars, admissionVars, tableVars, handlerVars, historyVars
<1>2. ASSUME NEW h \in Handler, NEW b \in Batch, Receive(h, b) PROVE Control'
  BY <1>2 DEF Receive, admissionVars, Step
<1>3. ASSUME NEW h \in Handler, NEW k \in Key, NEW ip \in BOOLEAN, Begin(h, k, ip)
      PROVE  Control'
  <2>1. batch[h] \in Batch /\ step[h] = "validated" /\ ValidCount(batch[h]) \in Counts
    BY <1>3, Constants DEF Begin
  <2> DEFINE q == [key |-> k, count |-> ValidCount(batch[h]), ipAllowed |-> ip, now |-> clock]
  <2>2. q \in Admission!Request /\ q.count = ValidCount(batch[h])
    BY <2>1 DEF Admission!Request
  <2> HIDE DEF q
  <2>3. /\ stage[h] = "idle" /\ stage' = [stage EXCEPT ![h] = "authorizing"]
        /\ request' = [request EXCEPT ![h] = q]
        /\ UNCHANGED <<clock, step, batch, fresh>>
    BY <1>3 DEF Begin, Admission!Begin, handlerVars, q
  <2>4. "authorizing" \in Admission!Stage
    BY DEF Admission!Stage
  <2> QED
    BY <2>1, <2>2, <2>3, <2>4
<1>4. ASSUME NEW h \in Handler, Authorize(h) PROVE Control'
  <2>1. PICK v \in {"admitted", "denied"} : stage' = [stage EXCEPT ![h] = v]
    BY <1>4, AuthorizeEffect
  <2>2. /\ request' = [request EXCEPT ![h] = Admission!NoRequest]
        /\ UNCHANGED <<clock, step, batch, fresh>> /\ stage[h] = "authorizing"
    BY <1>4, AuthorizeEffect DEF handlerVars
  <2>3. v \in Admission!Stage
    BY DEF Admission!Stage
  <2> QED
    BY <2>1, <2>2, <2>3
<1>5. ASSUME NEW h \in Handler, Insert(h) PROVE Control'
  <2>1. batch[h] \in Seq(Event) /\ Fresh(batch[h]) \in SUBSET Event
    <3>1. batch[h] \in Batch
      BY <1>5 DEF Insert, Pending
    <3> QED
      BY <3>1, Constants, FreshCount
  <2> QED
    BY <1>5, <2>1 DEF Insert, Pending, Step
<1>6. ASSUME NEW h \in Handler, RecordStored(h) PROVE Control'
  BY <1>6 DEF RecordStored, admissionVars, Step
<1>7. ASSUME NEW h \in Handler, Forget(h), stage' = [stage EXCEPT ![h] = "idle"],
             request' = [request EXCEPT ![h] = Admission!NoRequest], clock' = clock
      PROVE  Control'
  BY <1>7 DEF Forget, Step, Admission!Stage
<1>8. ASSUME NEW h \in Handler, Reply(h) \/ ReplyDenied(h) PROVE Control'
  BY <1>7, <1>8 DEF Reply, ReplyDenied, Admission!Release
<1>9. ASSUME NEW h \in Handler, Fail(h) PROVE Control'
  <2>1. CASE stage[h] = "idle"
    BY <1>9, <2>1 DEF Fail, Forget, admissionVars, Step
  <2>2. CASE stage[h] # "idle"
    BY <1>7, <1>9, <2>2 DEF Fail, Admission!Release
  <2> QED
    BY <2>1, <2>2
<1>10. CASE ApplyRetention \/ DeleteTelemetry \/ DeleteEnvironment
  BY <1>10 DEF ApplyRetention, DeleteTelemetry, DeleteEnvironment, Delete, handlerVars,
               admissionVars
<1>11. CASE Tick
  BY <1>11, Constants DEF Tick, Admission!Tick, handlerVars
<1> QED
  BY <1>1, <1>2, <1>3, <1>4, <1>5, <1>6, <1>8, <1>9, <1>10, <1>11 DEF Next
\* An insertion: the new rows, and what they cost.
LEMMA InsertEffect ==
    ASSUME IInv, NEW h \in Handler, Insert(h)
    PROVE  /\ batch[h] \in Batch /\ batch[h] \in Seq(Event)
           /\ Rows' = Rows \cup Fresh(batch[h])
           /\ receivedAt' \in [Event -> 0..MaxTime \cup {NoRow}]
           /\ Rows \cup Valid(batch[h]) = Rows'
           /\ UNCHANGED <<acked, deleted, exists, clock>>
<1>1. batch[h] \in Batch /\ batch[h] \in Seq(Event)
  BY Constants DEF Insert, Pending, IInv, Control
<1>2. /\ receivedAt \in [Event -> 0..MaxTime \cup {NoRow}]
      /\ clock \in 0..MaxTime /\ clock # NoRow
  BY Constants DEF IInv, Storage, Control, NoRow
<1> DEFINE new == Fresh(batch[h])
<1>3. new \subseteq Event /\ Valid(batch[h]) \subseteq Event
  BY <1>1, FreshCount
<1> HIDE DEF new
<1>4. receivedAt' = [e \in Event |-> IF e \in new THEN clock ELSE receivedAt[e]]
  BY DEF Insert, new
<1>5. Rows' = Rows \cup new
  BY <1>2, <1>3, <1>4 DEF Rows
<1>6. receivedAt' \in [Event -> 0..MaxTime \cup {NoRow}]
  BY <1>2, <1>4
<1>7. Rows \cup Valid(batch[h]) = Rows \cup new
  BY DEF Fresh, new
<1> QED
  BY <1>1, <1>5, <1>6, <1>7 DEF Insert, new

\* A deletion: the rows that are left.
LEMMA DeleteEffect ==
    ASSUME IInv, NEW S \in SUBSET Rows, Delete(S)
    PROVE  /\ Rows' = Rows \ S
           /\ receivedAt' \in [Event -> 0..MaxTime \cup {NoRow}]
           /\ deleted' = deleted \cup S
           /\ UNCHANGED <<acked, exists>>
<1>1. receivedAt' = [e \in Event |-> IF e \in S THEN NoRow ELSE receivedAt[e]]
  BY DEF Delete
<1>2. receivedAt \in [Event -> 0..MaxTime \cup {NoRow}]
  BY DEF IInv, Storage
<1> QED
  BY <1>1, <1>2 DEF Delete, Rows

\* The rows are finitely many.
LEMMA RowsFinite ==
    /\ Rows \subseteq Event /\ IsFiniteSet(Rows)
    /\ Cardinality(Rows) \in Nat /\ Cardinality(Rows) <= Cardinality(Event)
<1>1. Rows \subseteq Event
  BY DEF Rows
<1>2. IsFiniteSet(Rows) /\ Cardinality(Rows) <= Cardinality(Event)
  BY <1>1, Constants, FS_Subset
<1> QED
  BY <1>1, <1>2, FS_CardinalityType

\* What a deletion by retention or by the organization deletes.
LEMMA Deletions ==
    ApplyRetention \/ DeleteTelemetry => \E S \in SUBSET Rows : S # {} /\ Delete(S)
<1>1. Expired \subseteq Rows
  BY DEF Expired
<1> QED
  BY <1>1 DEF ApplyRetention, DeleteTelemetry

\* Each step keeps the charged storage that of the rows.
LEMMA NextStorage == IInv /\ [Next]_vars => Storage'
<1> SUFFICES ASSUME IInv, [Next]_vars PROVE Storage'
  OBVIOUS
<1>2. ASSUME UNCHANGED <<receivedAt, exists, retained>> PROVE Storage'
  BY <1>2 DEF IInv, Storage, StorageExact, Rows
<1>3. ASSUME NEW h \in Handler, Insert(h) PROVE Storage'
  <2> DEFINE new == Fresh(batch[h])
  <2>1. /\ batch[h] \in Seq(Event) /\ Rows' = Rows \cup new /\ Rows' = Rows \cup Valid(batch[h])
        /\ receivedAt' \in [Event -> 0..MaxTime \cup {NoRow}] /\ exists' = exists
    BY <1>3, InsertEffect
  <2>2. new \cap Rows = {} /\ new \subseteq Valid(batch[h]) /\ new \subseteq Event
    BY <2>1, FreshCount
  <2> HIDE DEF new
  <2>3. retained' = retained + StorageOf(new)
    BY <1>3 DEF Insert, Charged, new
  <2>4. CASE exists
    <3>1. StorageOf(Rows \cup new) = StorageOf(Rows) + StorageOf(new)
      BY <2>2, RowsFinite, StorageUnion
    <3>2. retained = StorageOf(Rows)
      BY <2>4 DEF IInv, Storage, StorageExact
    <3>3. retained' = StorageOf(Rows \cup new)
      BY <2>3, <3>1, <3>2
    <3>4. StorageOf(Rows)' = StorageOf(Rows \cup new) /\ Rows \cup new \in SUBSET Event
      <4>1. StorageOf(Rows)' = StorageOf(Rows')
        OBVIOUS
      <4> QED
        BY <2>1, <2>2, <4>1, RowsFinite
    <3>5. retained' \in {StorageOf(S) : S \in SUBSET Event}
      BY <3>3, <3>4
    <3> QED
      BY <2>1, <2>4, <3>3, <3>4, <3>5 DEF Storage, StorageExact
  <2>5. CASE ~exists
    <3>1. Valid(batch[h]) = {}
      BY <1>3, <2>5 DEF Insert
    <3>2. new = {} /\ StorageOf(new) = 0
      BY <2>2, <3>1, StorageNat
    <3>3. retained \in Nat
      BY StorageNat DEF IInv, Storage
    <3>4. Rows' = Rows /\ retained' = retained
      BY <2>1, <2>3, <3>2, <3>3
    <3> QED
      BY <2>1, <2>5, <3>4 DEF IInv, Storage, StorageExact
  <2>6. exists \in BOOLEAN
    BY DEF IInv, Storage
  <2> QED
    BY <2>4, <2>5, <2>6
<1>4. CASE ApplyRetention \/ DeleteTelemetry
  <2>1. PICK S \in SUBSET Rows : S # {} /\ Delete(S)
    BY <1>4, Deletions
  <2>2. /\ Rows' = Rows \ S /\ exists' = exists
        /\ receivedAt' \in [Event -> 0..MaxTime \cup {NoRow}]
    BY <2>1, DeleteEffect
  <2>3. exists /\ retained = StorageOf(Rows)
    BY <2>1 DEF IInv, Storage, StorageExact
  <2>4. S \in SUBSET Event /\ Rows \ S \in SUBSET Event
    BY RowsFinite
  <2>5. StorageOf(S) \in Nat /\ StorageOf(Rows \ S) \in Nat
    BY <2>4, StorageNat
  <2>6. StorageOf(Rows) = StorageOf(S) + StorageOf(Rows \ S)
    <3>1. S \cup (Rows \ S) = Rows /\ S \cap (Rows \ S) = {}
      OBVIOUS
    <3>2. StorageOf(S \cup (Rows \ S)) = StorageOf(S) + StorageOf(Rows \ S)
      BY <2>4, <3>1, StorageUnion
    <3> QED
      BY <3>1, <3>2
  <2>7. retained' = Max({0, retained - StorageOf(S)})
    BY <2>1 DEF Delete
  <2>8. retained - StorageOf(S) = StorageOf(Rows \ S)
    BY <2>3, <2>5, <2>6
  <2>9. retained' = StorageOf(Rows \ S)
    BY <2>5, <2>7, <2>8, MaxZero
  <2>10. retained' \in {StorageOf(X) : X \in SUBSET Event}
    BY <2>4, <2>9
  <2>11. StorageOf(Rows)' = StorageOf(Rows \ S)
    <3>1. StorageOf(Rows)' = StorageOf(Rows')
      OBVIOUS
    <3> QED
      BY <2>2, <3>1
  <2> QED
    BY <2>2, <2>3, <2>9, <2>10, <2>11 DEF Storage, StorageExact
<1>5. CASE DeleteEnvironment
  <2>1. /\ exists' = FALSE /\ receivedAt' = [e \in Event |-> NoRow] /\ retained' = retained
    BY <1>5 DEF DeleteEnvironment, admissionVars
  <2>2. Rows' = {}
    BY <2>1 DEF Rows
  <2> QED
    BY <2>1, <2>2 DEF IInv, Storage, StorageExact
<1>6. CASE UNCHANGED vars
  BY <1>2, <1>6 DEF vars, admissionVars, tableVars
<1>7. ASSUME NEW h \in Handler, NEW b \in Batch, Receive(h, b) PROVE Storage'
  BY <1>2, <1>7 DEF Receive, admissionVars, tableVars
<1>8. ASSUME NEW h \in Handler, NEW k \in Key, NEW ip \in BOOLEAN, Begin(h, k, ip)
      PROVE  Storage'
  BY <1>2, <1>8 DEF Begin, Admission!Begin, tableVars
<1>9. ASSUME NEW h \in Handler, Authorize(h) PROVE Storage'
  BY <1>2, <1>9, AuthorizeEffect DEF tableVars
<1>10. ASSUME NEW h \in Handler, RecordStored(h) PROVE Storage'
  BY <1>2, <1>10 DEF RecordStored, admissionVars
<1>11. ASSUME NEW h \in Handler, Reply(h) \/ ReplyDenied(h) \/ Fail(h) PROVE Storage'
  BY <1>2, <1>11 DEF Reply, ReplyDenied, Fail, Admission!Release, admissionVars, tableVars
<1>12. CASE Tick
  BY <1>2, <1>12 DEF Tick, Admission!Tick, tableVars
<1> QED
  BY <1>3, <1>4, <1>5, <1>6, <1>7, <1>8, <1>9, <1>10, <1>11, <1>12 DEF Next

\* Each step keeps what a reply reported, and what a handler is about to report, stored
\* or deleted.
LEMMA NextDurable == IInv /\ [Next]_vars => Durable'
<1> SUFFICES ASSUME IInv, [Next]_vars PROVE Durable'
  OBVIOUS
<1> DEFINE Owing(h) == step[h] \in {"inserted", "metered"}
<1>1. /\ acked \subseteq Rows \cup deleted
      /\ \A h \in Handler : Owing(h) => Valid(batch[h]) \subseteq Rows \cup deleted
  BY DEF IInv, Durable, AckedDurable
<1>2. ASSUME Rows \cup deleted \subseteq (Rows \cup deleted)',
             acked' \subseteq (Rows \cup deleted)',
             \A h \in Handler : Owing(h)' => \/ Owing(h) /\ batch'[h] = batch[h]
                                             \/ Valid(batch'[h]) \subseteq (Rows \cup deleted)'
      PROVE  Durable'
  <2>1. ASSUME NEW h \in Handler, Owing(h)' PROVE Valid(batch'[h]) \subseteq (Rows \cup deleted)'
    BY <1>1, <1>2, <2>1
  <2> QED
    BY <1>2, <2>1 DEF Durable, AckedDurable, Valid
<1>3. ASSUME UNCHANGED <<receivedAt, deleted, acked>>,
             \A h \in Handler : Owing(h)' => Owing(h) /\ batch'[h] = batch[h]
      PROVE  Durable'
  <2>1. (Rows \cup deleted)' = Rows \cup deleted
    BY <1>3 DEF Rows
  <2> QED
    BY <1>1, <1>2, <1>3, <2>1
<1>4. step \in [Handler -> Step] /\ batch \in [Handler -> Batch \cup {<<>>}]
  BY DEF IInv, Control
<1>5. ASSUME NEW h \in Handler, Insert(h) PROVE Durable'
  <2>1. /\ Rows \cup Valid(batch[h]) = Rows' /\ UNCHANGED <<acked, deleted>>
    BY <1>5, InsertEffect
  <2>2. step' = [step EXCEPT ![h] = "inserted"] /\ batch' = batch
    BY <1>5 DEF Insert
  <2>3. (Rows \cup deleted)' = Rows \cup deleted \cup Valid(batch[h])
    BY <2>1
  <2>4. \A g \in Handler : Owing(g)' => \/ Owing(g) /\ batch'[g] = batch[g]
                                        \/ Valid(batch'[g]) \subseteq (Rows \cup deleted)'
    BY <1>4, <2>2, <2>3
  <2> QED
    BY <1>1, <1>2, <2>1, <2>3, <2>4
<1>6. CASE ApplyRetention \/ DeleteTelemetry
  <2>1. PICK S \in SUBSET Rows : S # {} /\ Delete(S)
    BY <1>6, Deletions
  <2>2. Rows' = Rows \ S /\ deleted' = deleted \cup S /\ acked' = acked
    BY <2>1, DeleteEffect
  <2>3. (Rows \cup deleted)' = Rows \cup deleted
    BY <2>1, <2>2
  <2>4. UNCHANGED <<step, batch>>
    BY <2>1 DEF Delete, handlerVars
  <2> QED
    BY <1>1, <1>2, <2>2, <2>3, <2>4
<1>7. CASE DeleteEnvironment
  <2>1. deleted' = deleted \cup Rows /\ UNCHANGED <<acked, step, batch>>
    BY <1>7 DEF DeleteEnvironment, handlerVars
  <2>2. Rows \cup deleted \subseteq (Rows \cup deleted)'
    BY <2>1
  <2> QED
    BY <1>1, <1>2, <2>1, <2>2
<1>8. CASE UNCHANGED vars
  BY <1>3, <1>8 DEF vars, tableVars, handlerVars, historyVars
<1>9. ASSUME NEW h \in Handler, NEW b \in Batch, Receive(h, b) PROVE Durable'
  BY <1>3, <1>4, <1>9 DEF Receive, tableVars, historyVars
<1>10. ASSUME NEW h \in Handler, NEW k \in Key, NEW ip \in BOOLEAN, Begin(h, k, ip)
       PROVE  Durable'
  BY <1>3, <1>10 DEF Begin, tableVars, handlerVars, historyVars
<1>11. ASSUME NEW h \in Handler, Authorize(h) PROVE Durable'
  BY <1>3, <1>11 DEF Authorize, tableVars, handlerVars, historyVars
<1>12. ASSUME NEW h \in Handler, RecordStored(h) PROVE Durable'
  BY <1>3, <1>4, <1>12 DEF RecordStored, historyVars
<1>13. ASSUME NEW h \in Handler, Reply(h) PROVE Durable'
  <2>1. /\ Valid(batch[h]) \subseteq Rows \cup deleted
        /\ acked' = acked \cup Valid(batch[h])
        /\ UNCHANGED <<receivedAt, deleted>>
    BY <1>1, <1>13 DEF Reply, MayReply, tableVars
  <2>2. \A g \in Handler : Owing(g)' => Owing(g) /\ batch'[g] = batch[g]
    BY <1>4, <1>13 DEF Reply, Forget
  <2>3. (Rows \cup deleted)' = Rows \cup deleted
    BY <2>1 DEF Rows
  <2> QED
    BY <1>1, <1>2, <2>1, <2>2, <2>3
<1>14. ASSUME NEW h \in Handler, ReplyDenied(h) \/ Fail(h) PROVE Durable'
  <2>1. UNCHANGED <<receivedAt, deleted, acked>> /\ Forget(h)
    BY <1>14 DEF ReplyDenied, Fail, tableVars, historyVars
  <2>2. \A g \in Handler : Owing(g)' => Owing(g) /\ batch'[g] = batch[g]
    BY <1>4, <2>1 DEF Forget
  <2> QED
    BY <1>3, <2>1, <2>2
<1>15. CASE Tick
  BY <1>3, <1>15 DEF Tick, tableVars, handlerVars, historyVars
<1> QED
  BY <1>5, <1>6, <1>7, <1>8, <1>9, <1>10, <1>11, <1>12, <1>13, <1>14, <1>15 DEF Next
\* The rest of the state keeps its types.
LEMMA NextTypes == IInv /\ [Next]_vars => Types'
<1> SUFFICES ASSUME IInv, [Next]_vars PROVE Types'
  OBVIOUS
<1> USE DEF IInv, Types
<1>1. CASE UNCHANGED vars
  BY <1>1 DEF vars, tableVars, historyVars
<1>2. ASSUME NEW h \in Handler, NEW b \in Batch, Receive(h, b) PROVE Types'
  BY <1>2 DEF Receive, tableVars, historyVars
<1>3. ASSUME NEW h \in Handler, NEW k \in Key, NEW ip \in BOOLEAN, Begin(h, k, ip)
      PROVE  Types'
  BY <1>3 DEF Begin, tableVars, historyVars
<1>4. ASSUME NEW h \in Handler, Authorize(h) PROVE Types'
  BY <1>4, AuthorizeEffect DEF tableVars, historyVars
<1>5. ASSUME NEW h \in Handler, Insert(h) PROVE Types'
  BY <1>5 DEF Insert
<1>6. ASSUME NEW h \in Handler, RecordStored(h) PROVE Types'
  <2>1. batch[h] \in Seq(Event)
    BY <1>6, Constants DEF RecordStored, Control
  <2>2. StoredCount(h) \in Nat
    BY <2>1, PositionCount DEF StoredCount
  <2> DEFINE n == StoredCount(h)
             m == Admission!MonthOf(clock)
  <2>3. storedUsage' = IF requests[m] > 0 THEN [storedUsage EXCEPT ![m] = @ + n] ELSE storedUsage
    BY <1>6 DEF RecordStored
  <2>4. n \in Nat
    BY <2>2
  <2> HIDE DEF n, m
  <2>5. storedUsage \in [Month -> Nat] /\ \A x \in Month : storedUsage[x] + n \in Nat
    BY <2>4
  <2>6. [storedUsage EXCEPT ![m] = @ + n] \in [Month -> Nat]
    BY <2>5
  <2>7. storedUsage' \in [Month -> Nat]
    BY <2>3, <2>5, <2>6
  <2> QED
    BY <1>6, <2>7 DEF RecordStored, historyVars
<1>7. ASSUME NEW h \in Handler, Reply(h) PROVE Types'
  <2>1. batch[h] \in Seq(Event)
    BY <1>7, Constants DEF Reply, MayReply, Control
  <2>2. \A e \in Event : Publications(h, e) \in Nat
    BY <2>1, PositionCount DEF Publications
  <2>3. Valid(batch[h]) \subseteq Event
    BY <2>1, FreshCount
  <2> QED
    BY <1>7, <2>2, <2>3 DEF Reply, tableVars
<1>8. ASSUME NEW h \in Handler, ReplyDenied(h) \/ Fail(h) PROVE Types'
  BY <1>8 DEF ReplyDenied, Fail, tableVars, historyVars
<1>9. CASE ApplyRetention \/ DeleteTelemetry
  <2>1. PICK S \in SUBSET Rows : S # {} /\ Delete(S)
    BY <1>9, Deletions
  <2> QED
    BY <2>1, RowsFinite DEF Delete
<1>10. CASE DeleteEnvironment
  BY <1>10, RowsFinite DEF DeleteEnvironment
<1>11. CASE Tick
  BY <1>11 DEF Tick, tableVars, historyVars
<1> QED
  BY <1>1, <1>2, <1>3, <1>4, <1>5, <1>6, <1>7, <1>8, <1>9, <1>10, <1>11 DEF Next

LEMMA NextIInv == IInv /\ [Next]_vars => IInv'
<1> SUFFICES ASSUME IInv, [Next]_vars PROVE Control' /\ Storage' /\ Durable' /\ Types'
  BY DEF IInv
<1> QED
  BY NextControl, NextStorage, NextDurable, NextTypes

LEMMA SpecIInv == Spec => []IInv
BY InitIInv, NextIInv, PTL DEF Spec

-----------------------------------------------------------------------------
\* A 200 reply is kept: an event it reported is stored until it is deleted, however
\* many handlers carry it and whichever of them fail.
THEOREM RepliesDurable == Spec => []AckedDurable
<1>1. IInv => AckedDurable
  BY DEF IInv, Durable
<1> QED
  BY <1>1, SpecIInv, PTL

\* The storage charged is that of the rows while the environment exists, for any number
\* of concurrent insertions and deletions.
THEOREM StorageCharged == Spec => []StorageExact
<1>1. IInv => StorageExact
  BY DEF IInv, Storage
<1> QED
  BY <1>1, SpecIInv, PTL

-----------------------------------------------------------------------------
(* Admission control inside the pipeline. *)

\* Each step of the pipeline is one of Admission's, or changes nothing of its state.
LEMMA StepAdmission == IInv /\ IInv' /\ [Next]_vars => [Admission!Next]_(Admission!admissionVars)
<1> SUFFICES ASSUME IInv, IInv', [Next]_vars
             PROVE  [Admission!Next]_(Admission!admissionVars)
  OBVIOUS
<1>1. ASSUME UNCHANGED admissionVars PROVE [Admission!Next]_(Admission!admissionVars)
  BY <1>1 DEF admissionVars, Admission!admissionVars, Admission!meters, Admission!buckets
<1>2. ASSUME UNCHANGED <<clock, active, requests, bandwidth, ingested, quotaRejected, rateLimited,
                         tokens, updatedAt, stage, request, begun, admitted, ipDenied, taken>>
      PROVE  [Admission!Next]_(Admission!admissionVars)
  <2>1. retained' \in StorageLevels
    BY Constants DEF IInv, Storage
  <2>2. Admission!MoveStorage
    BY <1>2, <2>1 DEF Admission!MoveStorage, Admission!meters, Admission!buckets
  <2> QED
    BY <2>2 DEF Admission!Next
<1>3. ASSUME NEW h \in Handler, Admission!Release(h)
      PROVE  [Admission!Next]_(Admission!admissionVars)
  BY <1>3 DEF Admission!Next
<1>4. CASE UNCHANGED vars
  BY <1>1, <1>4 DEF vars
<1>5. ASSUME NEW h \in Handler, NEW b \in Batch, Receive(h, b)
      PROVE  [Admission!Next]_(Admission!admissionVars)
  BY <1>1, <1>5 DEF Receive
<1>6. ASSUME NEW h \in Handler, NEW k \in Key, NEW ip \in BOOLEAN, Begin(h, k, ip)
      PROVE  [Admission!Next]_(Admission!admissionVars)
  <2>1. ValidCount(batch[h]) \in Counts
    BY <1>6, Constants DEF Begin, IInv, Control
  <2>2. Admission!Begin(h, k, ValidCount(batch[h]), ip)
    BY <1>6 DEF Begin
  <2> QED
    BY <2>1, <2>2 DEF Admission!Next
<1>7. ASSUME NEW h \in Handler, Authorize(h) PROVE [Admission!Next]_(Admission!admissionVars)
  BY <1>7 DEF Authorize, Admission!Next
<1>8. ASSUME NEW h \in Handler, Insert(h) PROVE [Admission!Next]_(Admission!admissionVars)
  BY <1>2, <1>8 DEF Insert
<1>9. ASSUME NEW h \in Handler, RecordStored(h) PROVE [Admission!Next]_(Admission!admissionVars)
  BY <1>1, <1>9 DEF RecordStored
<1>10. ASSUME NEW h \in Handler, Reply(h) \/ ReplyDenied(h)
       PROVE  [Admission!Next]_(Admission!admissionVars)
  BY <1>3, <1>10 DEF Reply, ReplyDenied
<1>11. ASSUME NEW h \in Handler, Fail(h) PROVE [Admission!Next]_(Admission!admissionVars)
  BY <1>1, <1>3, <1>11 DEF Fail
<1>12. CASE ApplyRetention \/ DeleteTelemetry
  <2>1. PICK S \in SUBSET Rows : S # {} /\ Delete(S)
    BY <1>12, Deletions
  <2> QED
    BY <1>2, <2>1 DEF Delete
<1>13. CASE DeleteEnvironment
  BY <1>1, <1>13 DEF DeleteEnvironment
<1>14. CASE Tick
  BY <1>14 DEF Tick, Admission!Next
<1> QED
  BY <1>4, <1>5, <1>6, <1>7, <1>8, <1>9, <1>10, <1>11, <1>12, <1>13, <1>14 DEF Next

\* The pipeline implements admission control: batches, insertions, failures and
\* deletions never make it admit, meter or charge what Admission would not.
THEOREM AdmissionImplemented == Spec => AdmissionKept
<1>1. Init => Admission!Init
  BY DEF Init
<1>2. IInv /\ IInv' /\ [Next]_vars => [Admission!Next]_(Admission!admissionVars)
  BY StepAdmission
<1> QED
  BY <1>1, <1>2, SpecIInv, PTL DEF Spec, AdmissionKept, Admission!Spec

\* Admission's specification here is the one AdmissionProofs proves its theorems of.
LEMMA SameSpec == Admission!Spec => AP!Spec
<1>1. Admission!Init => AP!Init
  BY DEF Admission!Init, AP!Init, Admission!Month, AP!Month, Admission!MonthOf, AP!MonthOf,
         Admission!Scope, AP!Scope, Admission!Capacity, AP!Capacity, Admission!RateOf, AP!RateOf,
         Admission!NoRequest, AP!NoRequest
<1>2. [Admission!Next]_(Admission!admissionVars) => [AP!Next]_(AP!admissionVars)
  BY Zenon
  DEF Admission!Next, AP!Next, Admission!admissionVars, AP!admissionVars, Admission!meters,
      AP!meters, Admission!buckets, AP!buckets, Admission!Begin, AP!Begin, Admission!Authorize,
      AP!Authorize, Admission!DenyQuota, AP!DenyQuota, Admission!DenyAddress, AP!DenyAddress,
      Admission!DenyRate, AP!DenyRate, Admission!Admit, AP!Admit, Admission!Release, AP!Release,
      Admission!MoveStorage, AP!MoveStorage, Admission!ChangeStatus, AP!ChangeStatus,
      Admission!Tick, AP!Tick, Admission!Decide, AP!Decide, Admission!Meter, AP!Meter,
      Admission!MeteredMonth, AP!MeteredMonth, Admission!OverQuota, AP!OverQuota,
      Admission!OverRequests, AP!OverRequests, Admission!OverBandwidth, AP!OverBandwidth,
      Admission!OverStorage, AP!OverStorage, Admission!OverEvents, AP!OverEvents,
      Admission!PassesQuota, AP!PassesQuota, Admission!Starved, AP!Starved, Admission!Available,
      AP!Available, Admission!Refilled, AP!Refilled, Admission!Elapsed, AP!Elapsed,
      Admission!Parsed, AP!Parsed, Admission!ScopesOf, AP!ScopesOf, Admission!Take, AP!Take,
      Admission!Ingest, AP!Ingest, Admission!Month, AP!Month, Admission!MonthOf, AP!MonthOf,
      Admission!Scope, AP!Scope, Admission!Capacity, AP!Capacity, Admission!RateOf, AP!RateOf,
      Admission!NoRequest, AP!NoRequest, Admission!Bytes, AP!Bytes
<1> QED
  BY <1>1, <1>2, PTL DEF Admission!Spec, AP!Spec
\* Month and the types of Admission's state, in the names of AdmissionProofs.
LEMMA SameTypes == AP!TypeOK => Admission!TypeOK
BY DEF AP!TypeOK, Admission!TypeOK, AP!Month, Admission!Month, AP!MonthOf, Admission!MonthOf,
       AP!Scope, Admission!Scope, AP!Capacity, Admission!Capacity, AP!RateOf, Admission!RateOf,
       AP!Stage, Admission!Stage, AP!Request, Admission!Request, AP!NoRequest, Admission!NoRequest

LEMMA SpecAdmission == Spec => [](Admission!TypeOK)
<1>1. AP!AdmissionAssumption
  BY Constants
<1>2. AP!Spec => []AP!TypeOK
  BY <1>1, AP!TypeCorrect, PTL
<1> QED
  BY <1>2, AdmissionImplemented, SameSpec, SameTypes, PTL DEF AdmissionKept

\* Every state of the pipeline is well-typed.
THEOREM TypeCorrect == Spec => []TypeOK
<1>1. IInv /\ Admission!TypeOK => TypeOK
  BY DEF IInv, Control, Storage, Types, TypeOK
<1> QED
  BY <1>1, SpecIInv, SpecAdmission, PTL

\* The other invariants of admission control, in the names of AdmissionProofs.
LEMMA SameInvariants ==
    AP!QuotaKept /\ AP!Metered /\ AP!Nested
      => Admission!QuotaKept /\ Admission!Metered /\ Admission!Nested
BY DEF AP!QuotaKept, Admission!QuotaKept, AP!Metered, Admission!Metered, AP!Nested,
       Admission!Nested,
       AP!Month, Admission!Month, AP!MonthOf, Admission!MonthOf

\* What AdmissionProofs shows of admission control alone holds in the pipeline: the monthly
\* quotas, one outcome for each metered request, and the order of the scopes.
THEOREM AdmissionInvariants ==
    Spec => [](Admission!QuotaKept /\ Admission!Metered /\ Admission!Nested)
<1>1. AP!AdmissionAssumption
  BY Constants
<1>2. AP!Spec => [](AP!QuotaKept)
  BY <1>1, AP!QuotasHold, PTL
<1>3. AP!Spec => [](AP!Metered)
  BY <1>1, AP!EveryRequestMetered, PTL
<1>4. AP!Spec => [](AP!Nested)
  BY <1>1, AP!ScopesNested, PTL
<1> QED
  BY <1>2, <1>3, <1>4, AdmissionImplemented, SameSpec, SameInvariants, PTL DEF AdmissionKept

-----------------------------------------------------------------------------
(* Publication. *)

\* No batch carries an event twice.
NoTwins == \A b \in Batch : \A i, j \in DOMAIN b : i # j => b[i] # b[j]

\* The handlers that inserted an event and have not published it.
Owing(e) == {h \in Handler : e \in fresh[h]}

\* An insertion is published, or a handler still owes it, or it failed.
Owed == \A e \in Event : published[e] + Cardinality(Owing(e)) <= inserted[e]

LEMMA OwingType ==
    ASSUME NEW e
    PROVE  IsFiniteSet(Owing(e)) /\ Cardinality(Owing(e)) \in Nat
<1>1. Owing(e) \subseteq Handler
  BY DEF Owing
<1>2. IsFiniteSet(Owing(e))
  BY <1>1, Constants, FS_Subset
<1> QED
  BY <1>2, FS_CardinalityType

\* An event is at most once in a batch, so it is published at most once from it.
LEMMA PublishedFromBatch ==
    ASSUME NoTwins, NEW h \in Handler, batch[h] \in Batch, NEW e
    PROVE  /\ Publications(h, e) \in Nat
           /\ Publications(h, e) <= 1
           /\ e \notin fresh[h] => Publications(h, e) = 0
<1> DEFINE S == {i \in DOMAIN batch[h] : batch[h][i] = e /\ e \in fresh[h]}
<1>1. \A i, j \in S : i = j
  BY DEF NoTwins
<1>2. CASE S = {}
  BY <1>2, FS_EmptySet DEF Publications
<1>3. CASE S # {}
  <2>1. PICK i \in S : S = {i}
    BY <1>1, <1>3
  <2>2. Cardinality({i}) = 1
    BY FS_Singleton
  <2>3. Cardinality(S) = 1
    BY <2>1, <2>2, Zenon
  <2> QED
    BY <1>3, <2>3 DEF Publications
<1> QED
  BY <1>2, <1>3

LEMMA InitOwed == Init => Owed
<1> SUFFICES ASSUME Init, NEW e \in Event
             PROVE  published[e] + Cardinality(Owing(e)) <= inserted[e]
  BY DEF Owed
<1>1. Owing(e) = {}
  BY DEF Init, Owing
<1>2. Cardinality(Owing(e)) = 0
  BY <1>1, FS_EmptySet
<1> QED
  BY <1>2 DEF Init

\* An insertion by one handler is one more owed; the reply publishes what it owes; and
\* a handler that fails owes nothing.
LEMMA NextOwed == NoTwins /\ IInv /\ Owed /\ [Next]_vars => Owed'
<1> SUFFICES ASSUME NoTwins, IInv, Owed, [Next]_vars, NEW e \in Event
             PROVE  published'[e] + Cardinality(Owing(e)') <= inserted'[e]
  BY DEF Owed
<1>1. /\ published[e] \in Nat /\ inserted[e] \in Nat
      /\ published[e] + Cardinality(Owing(e)) <= inserted[e]
      /\ IsFiniteSet(Owing(e)) /\ Cardinality(Owing(e)) \in Nat
  BY OwingType DEF IInv, Types, Owed
<1>2. fresh \in [Handler -> SUBSET Event]
  BY DEF IInv, Control
<1> DEFINE Goal == published'[e] + Cardinality(Owing(e)') <= inserted'[e]
<1>3. ASSUME UNCHANGED <<fresh, published, inserted>> PROVE Goal
  <2>1. Owing(e)' = Owing(e)
    BY <1>3 DEF Owing
  <2> QED
    BY <1>1, <1>3, <2>1
<1>4. ASSUME NEW h \in Handler, Forget(h), inserted' = inserted,
             \/ published'[e] = published[e]
             \/ /\ published'[e] \in Nat
                /\ published'[e] <= published[e] + (IF e \in fresh[h] THEN 1 ELSE 0)
      PROVE  Goal
  <2>1. Owing(e)' = Owing(e) \ {h}
    BY <1>2, <1>4 DEF Forget, Owing
  <2>2. /\ Cardinality(Owing(e) \ {h})
             = IF h \in Owing(e) THEN Cardinality(Owing(e)) - 1 ELSE Cardinality(Owing(e))
    BY <1>1, FS_RemoveElement
  <2>3. h \in Owing(e) <=> e \in fresh[h]
    BY DEF Owing
  <2>4. Cardinality(Owing(e)')
          = IF e \in fresh[h] THEN Cardinality(Owing(e)) - 1 ELSE Cardinality(Owing(e))
    BY <2>1, <2>2, <2>3
  <2> QED
    BY <1>1, <1>4, <2>4
<1>5. ASSUME NEW h \in Handler, Insert(h) PROVE Goal
  <2>1. fresh[h] = {} /\ published' = published
    BY <1>5 DEF Insert, Pending, IInv, Control
  <2> DEFINE new == Fresh(batch[h])
  <2>2. /\ fresh' = [fresh EXCEPT ![h] = new]
        /\ inserted' = [x \in Event |-> IF x \in new THEN inserted[x] + 1 ELSE inserted[x]]
    BY <1>5 DEF Insert
  <2> HIDE DEF new
  <2>3. Owing(e)' = IF e \in new THEN Owing(e) \cup {h} ELSE Owing(e)
    BY <1>2, <2>1, <2>2 DEF Owing
  <2>4. h \notin Owing(e)
    BY <2>1 DEF Owing
  <2>5. Cardinality(Owing(e) \cup {h}) = Cardinality(Owing(e)) + 1
    BY <1>1, <2>4, FS_AddElement
  <2>6. Cardinality(Owing(e)')
          = IF e \in new THEN Cardinality(Owing(e)) + 1 ELSE Cardinality(Owing(e))
    BY <2>3, <2>5
  <2>7. inserted'[e] = IF e \in new THEN inserted[e] + 1 ELSE inserted[e]
    BY <2>2
  <2> QED
    BY <1>1, <2>1, <2>6, <2>7
<1>6. ASSUME NEW h \in Handler, Reply(h) PROVE Goal
  <2>1. batch[h] \in Batch
    BY <1>6 DEF Reply, MayReply, IInv, Control
  <2>2. /\ Publications(h, e) \in Nat /\ Publications(h, e) <= 1
        /\ e \notin fresh[h] => Publications(h, e) = 0
    BY <2>1, PublishedFromBatch
  <2>3. /\ published'[e] = published[e] + Publications(h, e)
        /\ Forget(h) /\ inserted' = inserted
    BY <1>6 DEF Reply
  <2>4. /\ published'[e] \in Nat
        /\ published'[e] <= published[e] + (IF e \in fresh[h] THEN 1 ELSE 0)
    BY <1>1, <2>2, <2>3
  <2> QED
    BY <1>4, <2>3, <2>4
<1>7. ASSUME NEW h \in Handler, ReplyDenied(h) \/ Fail(h) PROVE Goal
  BY <1>4, <1>7 DEF ReplyDenied, Fail, historyVars
<1>8. ASSUME NEW h \in Handler, NEW b \in Batch, Receive(h, b) PROVE Goal
  BY <1>3, <1>8 DEF Receive, historyVars
<1>9. ASSUME NEW h \in Handler, NEW k \in Key, NEW ip \in BOOLEAN, Begin(h, k, ip) PROVE Goal
  BY <1>3, <1>9 DEF Begin, handlerVars, historyVars
<1>10. ASSUME NEW h \in Handler, Authorize(h) PROVE Goal
  BY <1>3, <1>10 DEF Authorize, handlerVars, historyVars
<1>11. ASSUME NEW h \in Handler, RecordStored(h) PROVE Goal
  BY <1>3, <1>11 DEF RecordStored, historyVars
<1>12. CASE ApplyRetention \/ DeleteTelemetry
  <2>1. PICK S \in SUBSET Rows : S # {} /\ Delete(S)
    BY <1>12, Deletions
  <2> QED
    BY <1>3, <2>1 DEF Delete, handlerVars
<1>13. CASE DeleteEnvironment
  BY <1>3, <1>13 DEF DeleteEnvironment, handlerVars
<1>14. CASE Tick
  BY <1>3, <1>14 DEF Tick, handlerVars, historyVars
<1>15. CASE UNCHANGED vars
  BY <1>3, <1>15 DEF vars, handlerVars, historyVars
<1> QED
  BY <1>5, <1>6, <1>7, <1>8, <1>9, <1>10, <1>11, <1>12, <1>13, <1>14, <1>15 DEF Next

\* When no batch carries an event twice, each insertion is published at most once, for
\* any number of handlers, retries and failures.
THEOREM PublicationOnce == ASSUME NoTwins PROVE Spec => []PublishedOnce
<1>1. IInv /\ Owed => PublishedOnce
  <2> SUFFICES ASSUME IInv, Owed, NEW e \in Event PROVE published[e] <= inserted[e]
    BY DEF PublishedOnce
  <2> QED
    BY OwingType DEF IInv, Types, Owed
<1>2. IInv /\ Owed /\ [Next]_vars => Owed'
  BY NextOwed
<1> QED
  BY <1>1, <1>2, InitOwed, SpecIInv, PTL DEF Spec

-----------------------------------------------------------------------------
(* Usage. *)

\* What a handler has stored and not yet metered.
Due == [h \in Handler |-> IF step[h] = "inserted" THEN Cardinality(fresh[h]) ELSE 0]

\* What is metered, and what is due, was inserted: an insertion is metered once, by the
\* handler that made it, or never, when that handler fails.
Accounted == Total(storedUsage) + Total(Due) <= Total(inserted)

\* The months are finitely many.
LEMMA MonthFinite == IsFiniteSet(Month) /\ \A t \in 0..MaxTime : Admission!MonthOf(t) \in Month
<1>1. \A t \in 0..MaxTime : AP!MonthOf(t) \in AP!Month
  BY Constants, AP!MonthOfType
<1>2. Admission!MonthOf(MaxTime) \in Int
  BY Constants DEF AP!AdmissionAssumption, Admission!MonthOf
<1>3. IsFiniteSet(Month)
  BY <1>2, FS_Interval DEF Month, Admission!Month
<1> QED
  BY <1>1, <1>3 DEF AP!MonthOf, AP!Month, Admission!MonthOf, Admission!Month, Month

\* The numbers that the sums are of.
LEMMA SumTypes ==
    ASSUME IInv
    PROVE  /\ IsFiniteSet(Month) /\ IsFiniteSet(Event) /\ IsFiniteSet(Handler)
           /\ storedUsage \in [Month -> Int] /\ inserted \in [Event -> Int]
           /\ Due \in [Handler -> Int]
           /\ \A h \in Handler : IsFiniteSet(fresh[h]) /\ Cardinality(fresh[h]) \in Nat
           /\ \A h \in Handler : Due[h] \in Nat
<1>1. IsFiniteSet(Month)
  BY MonthFinite
<1>2. \A h \in Handler : IsFiniteSet(fresh[h]) /\ Cardinality(fresh[h]) \in Nat
  BY Constants, FS_Subset, FS_CardinalityType DEF IInv, Control
<1>3. \A h \in Handler : Due[h] \in Nat
  BY <1>2 DEF Due
<1>4. Due \in [Handler -> Int]
  BY <1>3 DEF Due
<1>5. storedUsage \in [Month -> Int] /\ inserted \in [Event -> Int]
  BY DEF IInv, Types
<1> QED
  BY <1>1, <1>2, <1>3, <1>4, <1>5, Constants

\* At first nothing is metered, due or inserted.
LEMMA InitAccounted == Init => Accounted
<1> SUFFICES ASSUME Init PROVE Accounted
  OBVIOUS
<1>1. /\ storedUsage \in [Month -> Nat] /\ inserted \in [Event -> Nat] /\ Due \in [Handler -> Nat]
      /\ \A m \in Month : storedUsage[m] = 0
      /\ \A e \in Event : inserted[e] = 0
      /\ \A h \in Handler : Due[h] = 0
  BY DEF Init, Due
<1>2. Total(storedUsage) = 0 /\ Total(inserted) = 0 /\ Total(Due) = 0
  BY <1>1, MonthFinite, Constants, SumNat
<1> QED
  BY <1>2 DEF Accounted

\* A batch without twins is metered at most once for each event it inserted.
LEMMA MeteredFromBatch ==
    ASSUME NoTwins, IInv, NEW h \in Handler, batch[h] \in Batch
    PROVE  StoredCount(h) \in Nat /\ StoredCount(h) <= Cardinality(fresh[h])
<1> DEFINE S == {i \in DOMAIN batch[h] : batch[h][i] \in fresh[h]}
           f == [i \in S |-> batch[h][i]]
<1>1. f \in Injection(S, fresh[h])
  BY DEF NoTwins, Injection, IsInjective
<1>2. IsFiniteSet(fresh[h])
  BY SumTypes
<1>3. Cardinality(S) <= Cardinality(fresh[h])
  BY <1>1, <1>2, FS_Injection
<1>4. Cardinality(S) \in Nat
  BY PositionCount, Constants
<1> QED
  BY <1>3, <1>4 DEF StoredCount

\* An insertion adds as much to what is due as to what was inserted; metering adds at most
\* what was due to the usage; and a handler that fails owes nothing.
LEMMA NextAccounted == NoTwins /\ IInv /\ IInv' /\ Accounted /\ [Next]_vars => Accounted'
<1> SUFFICES ASSUME NoTwins, IInv, IInv', Accounted, [Next]_vars PROVE Accounted'
  OBVIOUS
<1>1. /\ Total(storedUsage) \in Int /\ Total(inserted) \in Int /\ Total(Due) \in Int
      /\ Total(storedUsage) + Total(Due) <= Total(inserted)
  <2>1. storedUsage \in [Month -> Nat] /\ inserted \in [Event -> Nat] /\ Due \in [Handler -> Nat]
    BY SumTypes DEF IInv, Types, Due
  <2> QED
    BY <2>1, SumTypes, SumNat DEF Accounted
<1>2. /\ fresh \in [Handler -> SUBSET Event] /\ step \in [Handler -> Step]
  BY DEF IInv, Control
<1>3. ASSUME UNCHANGED <<storedUsage, inserted>>, Due' = Due PROVE Accounted'
  BY <1>3 DEF Accounted
<1>4. ASSUME NEW h \in Handler, NEW n \in Nat, n <= Due[h],
             Due' = [Due EXCEPT ![h] = 0], Total(storedUsage') = Total(storedUsage) + n,
             inserted' = inserted
      PROVE  Accounted'
  <2>1. Due[h] \in Nat /\ Due \in [Handler -> Int] /\ IsFiniteSet(Handler)
    BY SumTypes
  <2>2. Total(Due') = Total(Due) - Due[h]
    <3> DEFINE k == 0 - Due[h]
    <3>1. k \in Int /\ k = 0 - Due[h] /\ Due[h] + k = 0
      BY <2>1
    <3> HIDE DEF k
    <3>2. Due' = [Due EXCEPT ![h] = @ + k]
      BY <1>4, <3>1
    <3>3. Total(Due') = Total(Due) + k
      BY <2>1, <3>1, <3>2, SumMoreAt
    <3> QED
      BY <1>1, <2>1, <3>1, <3>3
  <2> QED
    BY <1>1, <1>4, <2>1, <2>2 DEF Accounted
<1>5. ASSUME NEW h \in Handler, Forget(h), UNCHANGED <<storedUsage, inserted>> PROVE Accounted'
  <2>1. Due' = [Due EXCEPT ![h] = 0]
    BY <1>2, <1>5 DEF Forget, Due
  <2>2. 0 \in Nat /\ 0 <= Due[h] /\ Total(storedUsage') = Total(storedUsage) + 0
    BY <1>1, <1>5, SumTypes
  <2> QED
    BY <1>4, <1>5, <2>1, <2>2
<1>6. ASSUME NEW h \in Handler, Insert(h) PROVE Accounted'
  <2> DEFINE new == Fresh(batch[h])
  <2>1. /\ step[h] = "validated" /\ Due[h] = 0
        /\ storedUsage' = storedUsage
        /\ step' = [step EXCEPT ![h] = "inserted"]
        /\ fresh' = [fresh EXCEPT ![h] = new]
        /\ inserted' = [x \in Event |-> IF x \in new THEN inserted[x] + 1 ELSE inserted[x]]
    BY <1>6 DEF Insert, Pending, Due
  <2>2. new \in SUBSET Event /\ IsFiniteSet(new) /\ Cardinality(new) \in Nat
    <3>1. batch[h] \in Seq(Event)
      BY <2>1, Constants DEF IInv, Control
    <3> QED
      BY <3>1, FreshCount DEF Charged
  <2> HIDE DEF new
  <2>3. Total(Due') = Total(Due) + Cardinality(new)
    <3> DEFINE k == Cardinality(new)
    <3>1. k \in Int /\ Due[h] + k = k /\ Due \in [Handler -> Int] /\ IsFiniteSet(Handler)
      BY <2>1, <2>2, SumTypes
    <3>2. Due' = [Due EXCEPT ![h] = k]
      BY <1>2, <2>1 DEF Due
    <3> HIDE DEF k
    <3>3. Due' = [Due EXCEPT ![h] = @ + k]
      BY <3>1, <3>2
    <3>4. Total(Due') = Total(Due) + k
      BY <3>1, <3>3, SumMoreAt
    <3> QED
      BY <3>4 DEF k
  <2>4. Total(inserted') = Total(inserted) + Cardinality(new)
    <3>1. inserted' \in [Event -> Int] /\ inserted \in [Event -> Int] /\ IsFiniteSet(Event)
      BY SumTypes DEF IInv, Types
    <3> QED
      BY <2>1, <2>2, <3>1, SumOneMore
  <2> QED
    BY <1>1, <2>1, <2>2, <2>3, <2>4 DEF Accounted
<1>7. ASSUME NEW h \in Handler, RecordStored(h) PROVE Accounted'
  <2>1. /\ batch[h] \in Batch /\ Due[h] = Cardinality(fresh[h])
        /\ fresh' = fresh /\ inserted' = inserted
        /\ step' = [step EXCEPT ![h] = "metered"]
    BY <1>7 DEF RecordStored, IInv, Control, Due, historyVars
  <2>2. StoredCount(h) \in Nat /\ StoredCount(h) <= Due[h]
    BY <2>1, MeteredFromBatch
  <2>3. Due' = [Due EXCEPT ![h] = 0]
    BY <1>2, <2>1 DEF Due
  <2>4. \/ storedUsage' = storedUsage
        \/ \E m \in Month : storedUsage' = [storedUsage EXCEPT ![m] = @ + StoredCount(h)]
    BY <1>7, MonthFinite DEF RecordStored, IInv, Control
  <2>5. CASE storedUsage' = storedUsage
    <3>1. 0 \in Nat /\ 0 <= Due[h] /\ Total(storedUsage') = Total(storedUsage) + 0
      BY <1>1, <2>5, SumTypes
    <3> QED
      BY <1>4, <2>1, <2>3, <3>1
  <2>6. ASSUME NEW m \in Month, storedUsage' = [storedUsage EXCEPT ![m] = @ + StoredCount(h)]
        PROVE  Accounted'
    <3>1. Total(storedUsage') = Total(storedUsage) + StoredCount(h)
      <4>1. IsFiniteSet(Month) /\ storedUsage \in [Month -> Int] /\ StoredCount(h) \in Int
        BY <2>2, SumTypes
      <4> QED
        BY <2>6, <4>1, SumMoreAt
    <3> QED
      BY <1>4, <2>1, <2>2, <2>3, <3>1
  <2> QED
    BY <2>4, <2>5, <2>6
<1>8. ASSUME NEW h \in Handler, Reply(h) \/ ReplyDenied(h) \/ Fail(h) PROVE Accounted'
  BY <1>5, <1>8 DEF Reply, ReplyDenied, Fail, tableVars, historyVars
<1>9. ASSUME NEW h \in Handler, NEW b \in Batch, Receive(h, b) PROVE Accounted'
  <2>1. step[h] = "none" /\ step' = [step EXCEPT ![h] = "validated"] /\ fresh' = fresh
        /\ UNCHANGED <<storedUsage, inserted>>
    BY <1>9 DEF Receive, historyVars, tableVars
  <2>2. Due' = Due
    BY <1>2, <2>1 DEF Due
  <2> QED
    BY <1>3, <2>1, <2>2
<1>10. ASSUME UNCHANGED <<storedUsage, inserted, step, fresh>> PROVE Accounted'
  BY <1>3, <1>10 DEF Due
<1>11. ASSUME NEW h \in Handler, NEW k \in Key, NEW ip \in BOOLEAN, Begin(h, k, ip)
       PROVE  Accounted'
  BY <1>10, <1>11 DEF Begin, tableVars, handlerVars, historyVars
<1>12. ASSUME NEW h \in Handler, Authorize(h) PROVE Accounted'
  BY <1>10, <1>12 DEF Authorize, tableVars, handlerVars, historyVars
<1>13. CASE ApplyRetention \/ DeleteTelemetry
  <2>1. PICK S \in SUBSET Rows : S # {} /\ Delete(S)
    BY <1>13, Deletions
  <2> QED
    BY <1>10, <2>1 DEF Delete, handlerVars
<1>14. CASE DeleteEnvironment
  BY <1>10, <1>14 DEF DeleteEnvironment, handlerVars
<1>15. CASE Tick
  BY <1>10, <1>15 DEF Tick, tableVars, handlerVars, historyVars
<1>16. CASE UNCHANGED vars
  BY <1>10, <1>16 DEF vars, tableVars, handlerVars, historyVars
<1> QED
  BY <1>6, <1>7, <1>8, <1>9, <1>11, <1>12, <1>13, <1>14, <1>15, <1>16 DEF Next

\* When no batch carries an event twice, the usage of all months together never bills more
\* events than were inserted, whatever handlers fail, retry or meter in another month.
THEOREM UsageBounded == ASSUME NoTwins PROVE Spec => []NeverOvercounted
<1>1. IInv /\ Accounted => NeverOvercounted
  <2> SUFFICES ASSUME IInv, Accounted PROVE NeverOvercounted
    OBVIOUS
  <2>1. storedUsage \in [Month -> Nat] /\ inserted \in [Event -> Nat] /\ Due \in [Handler -> Nat]
    BY SumTypes DEF IInv, Types, Due
  <2>2. Total(storedUsage) \in Nat /\ Total(inserted) \in Nat /\ Total(Due) \in Nat
    BY <2>1, SumTypes, SumNat
  <2> QED
    BY <2>2 DEF Accounted, NeverOvercounted
<1>2. IInv /\ IInv' /\ Accounted /\ [Next]_vars => Accounted'
  BY NextAccounted
<1> QED
  BY <1>1, <1>2, InitAccounted, SpecIInv, PTL DEF Spec

-----------------------------------------------------------------------------
(* The storage quota. *)

\* The handlers that are about to store an admitted batch.
Waiting == {h \in Handler : Pending(h) /\ ValidCount(batch[h]) > 0}

\* What a batch of the largest rows takes.
Whole == RowLimit * Largest
Bound == StorageLimit + (Cardinality(Handler) - 1) * Whole + (RowLimit - 1) * Largest

\* What a handler's batch adds at most.
Share(h) == RowLimit * ValidCount(batch[h])

\* What is stored, and what the waiting handlers may add to it, stays below the bound:
\* each may add the largest batch of the largest rows, except one, which adds its own
\* events.  That one is the last that was admitted, whose body the quota took into
\* account.
Reserved ==
    \/ retained + Cardinality(Waiting) * Whole < Bound
    \/ \E h \in Waiting :
          retained + Share(h) + (Cardinality(Waiting) - 1) * Whole < Bound

\* A smaller number, added to the same one, stays below what the larger stayed below.
LEMMA Below ==
    ASSUME NEW a \in Int, NEW b \in Int, NEW n \in Int, NEW d \in Int, a <= b, b + n < d
    PROVE  a + n < d
BY SMT

\* Batches, as many as they are, never take less than nothing.
LEMMA WholeType ==
    /\ Whole \in Nat /\ (RowLimit - 1) * Largest \in Nat
    /\ \A n \in Nat : n * Whole \in Nat
<1>1. RowLimit \in Nat /\ RowLimit - 1 \in Nat /\ Largest \in Nat
  BY RowSizes, LargestType
<1>2. Whole \in Nat /\ (RowLimit - 1) * Largest \in Nat
  BY <1>1, Product DEF Whole
<1> QED
  BY <1>2, Product

LEMMA WaitingType ==
    /\ Waiting \subseteq Handler /\ IsFiniteSet(Waiting)
    /\ Cardinality(Waiting) \in Nat /\ Cardinality(Waiting) <= Cardinality(Handler)
    /\ Cardinality(Handler) \in Nat \ {0}
    /\ \A h \in Waiting : Cardinality(Waiting) > 0
<1>1. Waiting \subseteq Handler
  BY DEF Waiting
<1>2. IsFiniteSet(Waiting) /\ Cardinality(Waiting) <= Cardinality(Handler)
  BY <1>1, Constants, FS_Subset
<1>3. Cardinality(Waiting) \in Nat /\ Cardinality(Handler) \in Nat
  BY <1>2, Constants, FS_CardinalityType
<1>4. Cardinality(Handler) # 0
  BY Constants, FS_EmptySet
<1>5. Waiting # {} => Cardinality(Waiting) # 0
  BY <1>2, FS_EmptySet
<1> QED
  BY <1>1, <1>2, <1>3, <1>4, <1>5

\* The numbers the bound is about.
LEMMA Sizes ==
    ASSUME IInv
    PROVE  /\ retained \in Nat /\ Whole \in Nat /\ Bound \in Int
           /\ Cardinality(Waiting) \in Nat
           /\ \A h \in Waiting : /\ batch[h] \in Batch
                                 /\ Share(h) \in Nat
                                 /\ Share(h) <= Whole
<1>1. retained \in Nat
  BY StorageNat DEF IInv, Storage
<1>2. \A h \in Waiting : batch[h] \in Batch
  BY DEF Waiting, Pending, IInv, Control
<1>3. (Cardinality(Handler) - 1) * Whole \in Nat
  <2>1. Cardinality(Handler) - 1 \in Nat
    BY WaitingType
  <2> QED
    BY <2>1, WholeType
<1>4. Bound \in Int
  <2> DEFINE x == (Cardinality(Handler) - 1) * Whole
             y == (RowLimit - 1) * Largest
  <2>1. x \in Nat /\ y \in Nat
    BY <1>3, WholeType
  <2> HIDE DEF x, y
  <2>2. StorageLimit + x + y \in Int
    BY <2>1, Constants
  <2> QED
    BY <2>2 DEF Bound, x, y
<1>5. ASSUME NEW h \in Waiting PROVE Share(h) \in Nat /\ Share(h) <= Whole
  <2>1. /\ ValidCount(batch[h]) \in Nat /\ ValidCount(batch[h]) <= Largest
        /\ Largest \in Nat /\ RowLimit \in Nat
    BY <1>2, <1>5, Constants, LargestType, RowSizes
  <2> QED
    BY <2>1, Scaled, Product DEF Share, Whole
<1> QED
  BY <1>1, <1>2, <1>4, <1>5, WholeType, WaitingType

\* A handler that stores its batch, or gives it up, no longer waits.
LEMMA Leaves ==
    ASSUME IInv, IInv', Reserved, NEW h \in Waiting, Waiting' = Waiting \ {h},
           \A g \in Waiting \ {h} : batch'[g] = batch[g],
           retained' <= retained + Share(h)
    PROVE  Reserved'
<1> DEFINE w == Cardinality(Waiting)
           v == Cardinality(Waiting')
           c(g) == Share(g)
<1>1. /\ retained \in Nat /\ retained' \in Nat /\ Whole \in Nat /\ Bound \in Int /\ w \in Nat
      /\ \A g \in Waiting : c(g) \in Nat /\ c(g) <= Whole
  BY Sizes, StorageNat DEF IInv, Storage
<1>2. v = w - 1 /\ w > 0
  BY WaitingType, FS_RemoveElement
<1>3. /\ v * Whole = w * Whole - Whole
      /\ (w - 1) * Whole = w * Whole - Whole
      /\ (v - 1) * Whole = (w - 1) * Whole - Whole
  BY <1>1, <1>2
<1>4. w * Whole \in Nat /\ (w - 1) * Whole \in Int
  BY <1>1, Product
<1> HIDE DEF w, v, c
<1>5. \/ retained + w * Whole < Bound
      \/ \E g \in Waiting : retained + c(g) + (w - 1) * Whole < Bound
  BY DEF Reserved, w, c
<1>6. retained' <= retained + c(h)
  BY DEF c
<1>7. \/ retained' + v * Whole < Bound
      \/ \E g \in Waiting \ {h} : retained' + c(g) + (v - 1) * Whole < Bound
  <2>1. CASE retained + w * Whole < Bound
    BY <1>1, <1>3, <1>4, <1>6, <2>1
  <2>2. ASSUME NEW g \in Waiting, retained + c(g) + (w - 1) * Whole < Bound
        PROVE  \/ retained' + v * Whole < Bound
               \/ g # h /\ retained' + c(g) + (v - 1) * Whole < Bound
    <3>1. CASE g = h
      BY <1>1, <1>3, <1>4, <1>6, <2>2, <3>1
    <3>2. CASE g # h
      <4>1. c(h) <= Whole /\ c(h) \in Nat /\ c(g) \in Nat
        BY <1>1
      <4>2. (v - 1) * Whole = (w - 1) * Whole - Whole
        BY <1>3
      <4> DEFINE p == (w - 1) * Whole
                 q == (v - 1) * Whole
      <4>3. p \in Int /\ q = p - Whole /\ retained + c(g) + p < Bound
        BY <1>4, <2>2, <4>2
      <4> HIDE DEF p, q
      <4>4. retained' + c(g) + q < Bound
        BY <1>1, <1>6, <4>1, <4>3
      <4> QED
        BY <3>2, <4>4 DEF q
    <3> QED
      BY <3>1, <3>2
  <2> QED
    BY <1>5, <2>1, <2>2
<1>8. \A g \in Waiting \ {h} : c(g)' = c(g)
  BY DEF c, Share, ValidCount
<1>9. Bound' = Bound /\ Whole' = Whole
  BY DEF Bound, Whole, Largest
<1> QED
  BY <1>7, <1>8, <1>9 DEF Reserved, v, c

\* A step that adds nothing to the storage, and no handler to those waiting.
LEMMA Stays ==
    ASSUME IInv, IInv', Reserved, Waiting' = Waiting,
           \A g \in Waiting : batch'[g] = batch[g],
           retained' <= retained
    PROVE  Reserved'
<1> DEFINE w == Cardinality(Waiting)
           c(g) == Share(g)
<1>1. /\ retained \in Nat /\ retained' \in Nat /\ Whole \in Nat /\ Bound \in Int /\ w \in Nat
      /\ \A g \in Waiting : c(g) \in Nat
  BY Sizes, StorageNat DEF IInv, Storage
<1>2. w * Whole \in Int /\ (w - 1) * Whole \in Int
  BY <1>1
<1>3. \/ retained + w * Whole < Bound
      \/ \E g \in Waiting : retained + c(g) + (w - 1) * Whole < Bound
  BY DEF Reserved
<1>4. \A g \in Waiting : c(g)' = c(g)
  BY DEF Share, ValidCount
<1> DEFINE p == w * Whole
           q == (w - 1) * Whole
<1> HIDE DEF p, q, w, c
<1>5. p \in Int /\ q \in Int
  BY <1>2 DEF p, q
<1>6. \/ retained + p < Bound
      \/ \E g \in Waiting : retained + c(g) + q < Bound
  BY <1>3 DEF p, q
<1>7. \/ retained' + p < Bound
      \/ \E g \in Waiting : retained' + c(g) + q < Bound
  <2>1. ASSUME retained + p < Bound PROVE retained' + p < Bound
    <3>1. retained \in Int /\ retained' \in Int /\ Bound \in Int /\ p \in Int
      BY <1>1, <1>5
    <3> QED
      BY <2>1, <3>1, Below
  <2>2. ASSUME NEW g \in Waiting, retained + c(g) + q < Bound
        PROVE  retained' + c(g) + q < Bound
    <3>1. c(g) \in Nat
      BY <1>1
    <3> QED
      BY <1>1, <1>5, <2>2, <3>1
  <2> QED
    BY <1>6, <2>1, <2>2
<1>8. Bound' = Bound /\ Whole' = Whole
  BY DEF Bound, Whole, Largest
<1> QED
  BY <1>4, <1>7, <1>8 DEF Reserved, p, q, w, c

\* The quota takes an admitted batch into account, beside what is stored.
LEMMA Admitted ==
    ASSUME IInv, NEW h \in Handler, Authorize(h), stage'[h] = "admitted",
           ValidCount(batch[h]) > 0
    PROVE  retained + ValidCount(batch[h]) < StorageLimit
<1>1. stage \in [Handler -> Admission!Stage] /\ stage[h] = "authorizing"
  BY AuthorizeEffect DEF IInv, Control
<1>2. Admission!Admit(h)
  BY <1>1 DEF Authorize, Admission!Authorize, Admission!DenyQuota, Admission!DenyAddress,
              Admission!DenyRate, Admission!Decide
<1>3. ~Admission!OverStorage(request[h])
  BY <1>2 DEF Admission!Admit, Admission!PassesQuota, Admission!OverQuota
<1>4. request[h].count = ValidCount(batch[h]) /\ step[h] # "none"
  BY <1>1 DEF IInv, Control
<1>5. batch[h] \in Seq(Event) /\ retained \in Nat /\ ValidCount(batch[h]) \in Nat
  BY <1>4, Constants DEF IInv, Control, Storage
<1> QED
  BY <1>3, <1>4, <1>5, Constants DEF Admission!OverStorage, Admission!Bytes

LEMMA InitReserved == Init => Reserved
<1> SUFFICES ASSUME Init PROVE Reserved
  OBVIOUS
<1>1. Waiting = {}
  BY DEF Init, Waiting, Pending
<1>2. Cardinality(Waiting) = 0
  BY <1>1, FS_EmptySet
<1>3. (Cardinality(Handler) - 1) * Whole \in Nat
  <2>1. Cardinality(Handler) - 1 \in Nat
    BY WaitingType
  <2> QED
    BY <2>1, WholeType
<1>4. retained = 0
  BY DEF Init, Admission!Init
<1>5. 0 * Whole = 0
  BY WholeType
<1>6. 0 < Bound
  <2> DEFINE x == (Cardinality(Handler) - 1) * Whole
             y == (RowLimit - 1) * Largest
  <2>1. x \in Nat /\ y \in Nat
    BY <1>3, WholeType
  <2> HIDE DEF x, y
  <2>2. 0 < StorageLimit + x + y
    BY <2>1, Constants
  <2> QED
    BY <2>2 DEF Bound, x, y
<1> QED
  BY <1>2, <1>4, <1>5, <1>6 DEF Reserved

LEMMA NextReserved == IInv /\ IInv' /\ Reserved /\ [Next]_vars => Reserved'
<1> SUFFICES ASSUME IInv, IInv', Reserved, [Next]_vars PROVE Reserved'
  OBVIOUS
<1>1. /\ retained \in Nat
      /\ stage \in [Handler -> Admission!Stage] /\ step \in [Handler -> Step]
      /\ batch \in [Handler -> Batch \cup {<<>>}]
  BY Sizes DEF IInv, Control
<1>2. ASSUME retained' <= retained, UNCHANGED batch,
             \A g \in Handler : Pending(g)' <=> Pending(g)
      PROVE  Reserved'
  <2>1. Waiting' = Waiting
    BY <1>2 DEF Waiting, ValidCount
  <2> QED
    BY <1>2, <2>1, Stays
<1>3. ASSUME UNCHANGED <<retained, batch, stage, step>> PROVE Reserved'
  BY <1>1, <1>2, <1>3 DEF Pending
<1>4. ASSUME NEW h \in Handler, ~Pending(h)', retained' = retained,
             \A g \in Handler \ {h} : (Pending(g)' <=> Pending(g)) /\ batch'[g] = batch[g]
      PROVE  Reserved'
  <2>1. Waiting' = Waiting \ {h}
    BY <1>4 DEF Waiting, ValidCount
  <2>2. CASE h \in Waiting
    <3>1. Share(h) \in Nat
      BY <2>2, Sizes
    <3>2. retained' <= retained + Share(h)
      BY <1>1, <1>4, <3>1
    <3>3. \A g \in Waiting \ {h} : batch'[g] = batch[g]
      BY <1>4 DEF Waiting
    <3> QED
      BY <2>1, <2>2, <3>2, <3>3, Leaves
  <2>3. CASE h \notin Waiting
    <3>1. Waiting' = Waiting /\ \A g \in Waiting : batch'[g] = batch[g]
      BY <1>4, <2>1, <2>3 DEF Waiting
    <3> QED
      BY <1>1, <1>4, <3>1, Stays
  <2> QED
    BY <2>2, <2>3
<1>5. ASSUME NEW h \in Handler, Forget(h),
             \/ admissionVars' = admissionVars /\ stage[h] = "idle"
             \/ Admission!Release(h)
      PROVE  Reserved'
  <2>1. retained' = retained /\ stage'[h] = "idle"
        /\ \A g \in Handler \ {h} : stage'[g] = stage[g]
    BY <1>1, <1>5 DEF admissionVars, Admission!Release
  <2>2. \A g \in Handler \ {h} : step'[g] = step[g] /\ batch'[g] = batch[g]
    BY <1>1, <1>5 DEF Forget
  <2> QED
    BY <1>4, <2>1, <2>2 DEF Pending
<1>6. ASSUME NEW h \in Handler, NEW b \in Batch, Receive(h, b) PROVE Reserved'
  <2>1. ~Pending(h)' /\ retained' = retained /\ UNCHANGED stage
    BY <1>1, <1>6 DEF Receive, admissionVars, Pending, IInv, Control
  <2>2. \A g \in Handler \ {h} : step'[g] = step[g] /\ batch'[g] = batch[g]
    BY <1>1, <1>6 DEF Receive
  <2> QED
    BY <1>4, <2>1, <2>2 DEF Pending
<1>7. ASSUME NEW h \in Handler, NEW k \in Key, NEW ip \in BOOLEAN, Begin(h, k, ip)
      PROVE  Reserved'
  <2>1. /\ retained' = retained /\ UNCHANGED <<batch, step>>
        /\ stage[h] = "idle" /\ stage' = [stage EXCEPT ![h] = "authorizing"]
    BY <1>7 DEF Begin, Admission!Begin, handlerVars
  <2>2. \A g \in Handler : Pending(g)' <=> Pending(g)
    BY <1>1, <2>1 DEF Pending
  <2> QED
    BY <1>1, <1>2, <2>1, <2>2
<1>8. ASSUME NEW h \in Handler, Authorize(h) PROVE Reserved'
  <2>1. /\ retained' = retained /\ UNCHANGED <<batch, step>>
        /\ stage[h] = "authorizing"
        /\ \E v \in {"admitted", "denied"} : stage' = [stage EXCEPT ![h] = v]
    BY <1>8, AuthorizeEffect DEF handlerVars
  <2>2. ~Pending(h) /\ \A g \in Handler \ {h} : Pending(g)' <=> Pending(g)
    BY <1>1, <2>1 DEF Pending
  <2>3. CASE ~(Pending(h)' /\ ValidCount(batch[h]) > 0)
    <3>1. Waiting' = Waiting
      BY <2>1, <2>2, <2>3 DEF Waiting, ValidCount
    <3> QED
      BY <1>1, <2>1, <3>1, Stays
  <2>4. CASE Pending(h)' /\ ValidCount(batch[h]) > 0
    <3>1. retained + ValidCount(batch[h]) < StorageLimit
      BY <1>8, <2>4, Admitted DEF Pending
    <3>2. h \in Waiting'
      BY <2>1, <2>4 DEF Waiting, ValidCount
    <3>3. /\ Cardinality(Waiting') \in Nat /\ Cardinality(Waiting') <= Cardinality(Handler)
          /\ Cardinality(Handler) \in Nat
      <4>1. Waiting' \subseteq Handler
        BY DEF Waiting
      <4>2. IsFiniteSet(Waiting') /\ Cardinality(Waiting') <= Cardinality(Handler)
        BY <4>1, Constants, FS_Subset
      <4> QED
        BY <4>2, WaitingType, FS_CardinalityType
    <3> DEFINE w == Cardinality(Waiting')
               n == Cardinality(Handler)
    <3>4. (w - 1) * Whole <= (n - 1) * Whole
      <4>1. w \in Nat /\ n \in Nat /\ n - w \in Nat /\ Whole \in Nat
        BY <3>3, WholeType
      <4> HIDE DEF w, n
      <4>2. (n - w) * Whole \in Nat
        BY <4>1, Product
      <4>3. (n - 1) * Whole = (w - 1) * Whole + (n - w) * Whole
        BY <4>1
      <4> DEFINE x == (n - 1) * Whole
                 y == (w - 1) * Whole
                 z == (n - w) * Whole
      <4>4. y \in Int /\ z \in Nat /\ x = y + z
        BY <4>1, <4>2, <4>3
      <4> HIDE DEF x, y, z
      <4>5. y <= x
        BY <4>4
      <4> QED
        BY <4>5 DEF x, y
    <3>5. retained + Share(h) + (w - 1) * Whole < Bound
      <4>1. /\ (w - 1) * Whole \in Int /\ (n - 1) * Whole \in Int
            /\ retained \in Nat /\ StorageLimit \in Nat
        BY <1>1, <3>3, WholeType, Constants
      <4>2. /\ ValidCount(batch[h]) \in Nat /\ ValidCount(batch[h]) <= Largest
            /\ RowLimit \in Nat /\ RowLimit - 1 \in Nat /\ Largest \in Nat
        <5>1. batch[h] \in Batch
          BY <2>1 DEF IInv, Control
        <5>2. ValidCount(batch[h]) \in Nat /\ ValidCount(batch[h]) <= Largest
          BY <5>1, Constants, LargestType
        <5> QED
          BY <5>2, LargestType, RowSizes
      <4> DEFINE x == (n - 1) * Whole
                 y == (w - 1) * Whole
                 z == (RowLimit - 1) * Largest
                 v == ValidCount(batch[h])
                 u == (RowLimit - 1) * v
      <4>3. x \in Int /\ y \in Int /\ y <= x
        BY <3>4, <4>1
      <4>4. u <= z /\ u \in Nat /\ z \in Nat
        BY <4>2, Scaled, Product
      <4>5. Share(h) = v + u
        <5>1. v \in Nat /\ RowLimit \in Nat
          BY <4>2
        <5> HIDE DEF v
        <5>2. RowLimit * v = v + u
          BY <5>1
        <5> QED
          BY <5>2 DEF v, Share
      <4>6. v \in Nat /\ retained + v < StorageLimit
        BY <3>1, <4>2
      <4> HIDE DEF x, y, z, u, v, w, n
      <4>7. retained + Share(h) + y < StorageLimit + x + z
        BY <4>1, <4>3, <4>4, <4>5, <4>6
      <4> QED
        BY <4>7 DEF x, y, z, n, Bound
    <3>6. /\ retained' = retained /\ batch' = batch /\ Bound' = Bound /\ Whole' = Whole
          /\ Share(h)' = Share(h)
      BY <2>1 DEF Bound, Whole, Largest, Share, ValidCount
    <3> HIDE DEF w
    <3>7. \E g \in Waiting' : retained' + Share(g)' + (w - 1) * Whole < Bound
      BY <3>2, <3>5, <3>6
    <3> QED
      BY <3>6, <3>7 DEF Reserved, w
  <2> QED
    BY <2>3, <2>4
<1>9. ASSUME NEW h \in Handler, Insert(h) PROVE Reserved'
  <2>1. /\ batch[h] \in Batch /\ Pending(h) /\ UNCHANGED <<batch, stage>>
        /\ step' = [step EXCEPT ![h] = "inserted"]
        /\ retained' = retained + Charged(batch[h])
    BY <1>9, InsertEffect DEF Insert
  <2>2. /\ ~Pending(h)'
        /\ \A g \in Handler \ {h} : (Pending(g)' <=> Pending(g)) /\ batch'[g] = batch[g]
    BY <1>1, <2>1 DEF Pending
  <2>3. /\ Charged(batch[h]) \in Nat /\ ValidCount(batch[h]) \in Nat
        /\ Charged(batch[h]) <= Share(h)
    BY <2>1, Constants, ChargedLimit DEF Share
  <2>4. Waiting' = Waiting \ {h}
    BY <2>1, <2>2 DEF Waiting, ValidCount
  <2>5. CASE ValidCount(batch[h]) > 0
    <3>1. h \in Waiting
      BY <2>1, <2>5 DEF Waiting
    <3>2. retained' <= retained + Share(h)
      <4>1. Share(h) \in Nat
        BY <3>1, Sizes
      <4> QED
        BY <1>1, <2>1, <2>3, <4>1
    <3>3. \A g \in Waiting \ {h} : batch'[g] = batch[g]
      BY <2>1
    <3> QED
      BY <2>4, <3>1, <3>2, <3>3, Leaves
  <2>6. CASE ~(ValidCount(batch[h]) > 0)
    <3>1. Share(h) = 0
      <4>1. ValidCount(batch[h]) = 0 /\ RowLimit \in Nat
        BY <2>3, <2>6, RowSizes
      <4> QED
        BY <4>1 DEF Share
    <3>2. retained' = retained
      BY <1>1, <2>1, <2>3, <3>1
    <3> QED
      BY <1>4, <2>2, <3>2
  <2> QED
    BY <2>5, <2>6
<1>10. ASSUME NEW h \in Handler, RecordStored(h) PROVE Reserved'
  <2>1. /\ step[h] = "inserted" /\ step' = [step EXCEPT ![h] = "metered"]
        /\ UNCHANGED <<stage, batch, retained>>
    BY <1>10 DEF RecordStored, admissionVars
  <2>2. \A g \in Handler : Pending(g)' <=> Pending(g)
    BY <1>1, <2>1 DEF Pending
  <2> QED
    BY <1>1, <1>2, <2>1, <2>2
<1>11. ASSUME NEW h \in Handler, Reply(h) \/ ReplyDenied(h) PROVE Reserved'
  BY <1>5, <1>11 DEF Reply, ReplyDenied
<1>12. ASSUME NEW h \in Handler, Fail(h) PROVE Reserved'
  BY <1>5, <1>12 DEF Fail
<1>13. CASE ApplyRetention \/ DeleteTelemetry
  <2>1. PICK S \in SUBSET Rows : S # {} /\ Delete(S)
    BY <1>13, Deletions
  <2>2. retained' = Max({0, retained - StorageOf(S)}) /\ UNCHANGED <<stage, step, batch>>
    BY <2>1 DEF Delete, handlerVars
  <2>3. S \in SUBSET Event
    BY RowsFinite
  <2>4. StorageOf(S) \in Nat
    BY <2>3, StorageNat
  <2>5. retained - StorageOf(S) \in Int
    BY <1>1, <2>4
  <2>6. retained' <= retained
    BY <1>1, <2>2, <2>4, <2>5, MaxZero
  <2> QED
    BY <1>2, <2>2, <2>6 DEF Pending
<1>14. CASE DeleteEnvironment
  BY <1>3, <1>14 DEF DeleteEnvironment, admissionVars, handlerVars
<1>15. CASE Tick
  BY <1>3, <1>15 DEF Tick, Admission!Tick, handlerVars
<1>16. CASE UNCHANGED vars
  BY <1>3, <1>16 DEF vars, admissionVars, handlerVars
<1> QED
  BY <1>6, <1>7, <1>8, <1>9, <1>10, <1>11, <1>12, <1>13, <1>14, <1>15, <1>16 DEF Next

\* Rows of any sizes, which need not be their events' shares of the body: the storage quota
\* is overshot by less than a batch of the largest rows for each other handler and what
\* the last one's rows exceed its body, for any number of handlers and any batches.
THEOREM OvershootBounded == Spec => []StorageOvershoot
<1>1. IInv /\ Reserved => StorageOvershoot
  <2> SUFFICES ASSUME IInv, Reserved PROVE retained < Bound
    BY DEF StorageOvershoot, Bound, Whole
  <2> DEFINE w == Cardinality(Waiting)
  <2>1. retained \in Nat /\ Whole \in Nat /\ Bound \in Int /\ w \in Nat
    BY Sizes
  <2>2. CASE retained + w * Whole < Bound
    <3>1. w * Whole \in Nat
      BY <2>1, Product
    <3> QED
      BY <2>1, <2>2, <3>1
  <2>3. ASSUME NEW h \in Waiting, retained + Share(h) + (w - 1) * Whole < Bound
        PROVE  retained < Bound
    <3>1. Share(h) \in Nat /\ w - 1 \in Nat
      BY <2>1, Sizes, WaitingType
    <3>2. (w - 1) * Whole \in Nat
      BY <2>1, <3>1, Product
    <3> QED
      BY <2>1, <2>3, <3>1, <3>2
  <2> QED
    BY <2>2, <2>3 DEF Reserved
<1>2. IInv /\ IInv' /\ Reserved /\ [Next]_vars => Reserved'
  BY NextReserved
<1> QED
  BY <1>1, <1>2, InitReserved, SpecIInv, PTL DEF Spec
=============================================================================
