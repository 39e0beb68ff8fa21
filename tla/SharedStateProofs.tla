-------------------------- MODULE SharedStateProofs --------------------------
(***************************************************************************)
(* Proofs about the structures in memory that the threads of one service   *)
(* share under a lock: the circuit breaker, the rolling windows of the     *)
(* stream processor and the anomaly counts of the alert service.           *)
(***************************************************************************)
EXTENDS CircuitBreaker, TimeWindows, Sequences, Functions, FiniteSetTheorems,
        SequenceTheorems, WellFoundedInduction, TLAPS

-----------------------------------------------------------------------------
(* The circuit breaker, for any set of threads, any threshold and any      *)
(* attempt budget.                                                         *)

\* An attempt is only made while the budget lasts.
BudgetLeft == \A t \in Threads : pc[t] = "attempting" => attempt[t] < MaxAttempts

BreakerInv ==
  TypeOK /\ BudgetLeft /\ ClosedIffBelowThreshold /\ HalfOpenHasTrial

\* A closed breaker with no failures satisfies the invariant.
LEMMA BreakerInit == Init => BreakerInv
<1> SUFFICES ASSUME Init PROVE BreakerInv
  OBVIOUS
<1>1. cooled \in BOOLEAN /\ up \in BOOLEAN
  BY Zenon DEF Init
<1>2. TypeOK
  BY <1>1, BreakerAssumptions DEF Init, TypeOK
<1>3. BudgetLeft /\ ClosedIffBelowThreshold /\ HalfOpenHasTrial
  BY BreakerAssumptions
     DEF Init, BudgetLeft, ClosedIffBelowThreshold, HalfOpenHasTrial
<1>4. QED
  BY <1>2, <1>3 DEF BreakerInv

\* Every step of the breaker's callers and of the clock keeps the invariant.
LEMMA BreakerNext == BreakerInv /\ [Next]_vars => BreakerInv'
<1> SUFFICES ASSUME BreakerInv, [Next]_vars PROVE BreakerInv'
  OBVIOUS
<1> USE BreakerAssumptions DEF BreakerInv, TypeOK, BudgetLeft,
        ClosedIffBelowThreshold, HalfOpenHasTrial, breaker
<1>1. CASE CooldownPasses \/ GoDown \/ ComeUp
  <2>1. UNCHANGED <<state, fails, pc, attempt, trials>>
    BY <1>1 DEF CooldownPasses, GoDown, ComeUp
  <2>2. cooled' \in BOOLEAN /\ up' \in BOOLEAN
    BY <1>1, Zenon DEF CooldownPasses, GoDown, ComeUp
  <2>3. outages' \in 0..MaxOutages
    BY <1>1 DEF CooldownPasses, GoDown, ComeUp
  <2>4. QED
    BY <2>1, <2>2, <2>3
<1>2. ASSUME NEW t \in Threads, AllowClosed(t) PROVE BreakerInv'
  BY <1>2 DEF AllowClosed, StartCall
<1>3. ASSUME NEW t \in Threads, AllowTrial(t) PROVE BreakerInv'
  <2>1. t \in trials' /\ pc'[t] # "idle"
    BY <1>3 DEF AllowTrial, StartCall
  <2>2. QED
    BY <1>3, <2>1 DEF AllowTrial, StartCall
<1>4. ASSUME NEW t \in Threads, AttemptSucceeds(t) PROVE BreakerInv'
  BY <1>4 DEF AttemptSucceeds
<1>5. ASSUME NEW t \in Threads, AttemptFails(t) PROVE BreakerInv'
  <2>1. attempt[t] + 1 \in 0..MaxAttempts
    BY <1>5 DEF AttemptFails
  <2>2. TypeOK' /\ BudgetLeft'
    BY <1>5, <2>1 DEF AttemptFails, LastAttempt
  <2>3. HalfOpenHasTrial' /\ ClosedIffBelowThreshold'
    BY <1>5 DEF AttemptFails
  <2>4. QED
    BY <2>2, <2>3
<1>6. ASSUME NEW t \in Threads, AttemptFailsForGood(t) PROVE BreakerInv'
  BY <1>6 DEF AttemptFailsForGood
<1>7. ASSUME NEW t \in Threads, RecordSuccess(t) PROVE BreakerInv'
  BY <1>7 DEF RecordSuccess, EndCall
<1>8. ASSUME NEW t \in Threads, RecordTrialFailure(t) PROVE BreakerInv'
  BY <1>8 DEF RecordTrialFailure, Opens, EndCall
<1>9. ASSUME NEW t \in Threads, RecordFailure(t) PROVE BreakerInv'
  <2>a. cooled' \in BOOLEAN /\ up' \in BOOLEAN
    BY <1>9, Zenon DEF RecordFailure, Opens, EndCall
  <2>b. state' \in {"CLOSED", "OPEN", "HALF_OPEN"} /\ fails' \in Nat
    BY <1>9 DEF RecordFailure, Opens
  <2>1. TypeOK' /\ BudgetLeft'
    BY <1>9, <2>a, <2>b DEF RecordFailure, EndCall
  <2>2. state' # "HALF_OPEN"
    BY <1>9 DEF RecordFailure, Opens
  <2>3. ClosedIffBelowThreshold'
    BY <1>9 DEF RecordFailure, Opens, Trips
  <2>4. QED
    BY <2>1, <2>2, <2>3
<1>10. CASE UNCHANGED vars
  BY <1>10 DEF vars
<1>11. QED
  BY <1>1, <1>2, <1>3, <1>4, <1>5, <1>6, <1>7, <1>8, <1>9, <1>10 DEF Next, Call

\* No call makes more attempts than its budget; the breaker's fields keep
\* their types.
THEOREM BreakerTypeCorrect == Spec => []TypeOK
<1>1. BreakerInv => TypeOK
  BY DEF BreakerInv
<1>2. QED
  BY BreakerInit, BreakerNext, <1>1, PTL DEF Spec

\* The breaker is closed exactly while fewer than the threshold of calls have
\* failed in a row.
THEOREM ThresholdExact == Spec => []ClosedIffBelowThreshold
<1>1. BreakerInv => ClosedIffBelowThreshold
  BY DEF BreakerInv
<1>2. QED
  BY BreakerInit, BreakerNext, <1>1, PTL DEF Spec

\* A half-open breaker always has a trial in flight whose end will move it on.
THEOREM NeverHalfOpenAlone == Spec => []HalfOpenHasTrial
<1>1. BreakerInv => HalfOpenHasTrial
  BY DEF BreakerInv
<1>2. QED
  BY BreakerInit, BreakerNext, <1>1, PTL DEF Spec

-----------------------------------------------------------------------------
(* Least numbers, least sets, and sums over finite sets.  SumFunction is a *)
(* fold that takes its elements in an order nobody chose; that the order   *)
(* does not matter is shown by looking at a smallest set where it would.   *)

\* Every nonempty set of naturals has a least member.
LEMMA LeastNumber ==
  ASSUME NEW T \in SUBSET Nat, T # {}
  PROVE  \E x \in T : \A y \in T : x <= y
<1> DEFINE Less == {p \in Nat \X Nat : p[1] < p[2]}
<1>1. IsWellFoundedOn(Less, Nat)
  BY NatLessThanWellFounded DEF OpToRel
<1>2. PICK x \in T : \A y \in T : <<y, x>> \notin Less
  <2> HIDE DEF Less
  <2>1. QED
    BY <1>1, WFMin, Zenon
<1>3. ASSUME NEW y \in T PROVE x <= y
  <2>1. x \in Nat /\ y \in Nat
    OBVIOUS
  <2>2. y < x => <<y, x>> \in Less
    BY <2>1
  <2>3. QED
    BY <1>2, <2>1, <2>2
<1>4. QED
  BY <1>2, <1>3

\* Among the subsets of a finite set that are Bad one has no smaller Bad one.
LEMMA SmallestSet ==
  ASSUME NEW S, IsFiniteSet(S), NEW Bad \in SUBSET SUBSET S, Bad # {}
  PROVE  \E T \in Bad : \A x \in T : T \ {x} \notin Bad
<1>1. IsWellFoundedOn(StrictSubsetOrdering(S), FiniteSubsetsOf(S))
  BY FS_StrictSubsetOrderingWellFounded
<1>2. \A T \in Bad : T \in FiniteSubsetsOf(S)
  BY FS_Subset DEF FiniteSubsetsOf
<1>3. PICK T \in Bad : \A U \in Bad : <<U, T>> \notin StrictSubsetOrdering(S)
  BY <1>1, <1>2, WFMin, Zenon
<1>4. ASSUME NEW x \in T, T \ {x} \in Bad PROVE FALSE
  <2>1. <<T \ {x}, T>> \in StrictSubsetOrdering(S)
    <3>1. T \in SUBSET S /\ T \ {x} \in SUBSET S /\ T \ {x} # T
      BY <1>4
    <3>2. QED
      BY <3>1 DEF StrictSubsetOrdering
  <2>2. QED
    BY <1>3, <1>4, <2>1
<1>5. QED
  BY <1>3, <1>4

Picked(s) == CHOOSE x \in s : TRUE

\* What CHOOSE picks from a nonempty set is in it.
LEMMA PickedIn == ASSUME NEW s, s # {} PROVE Picked(s) \in s
BY Zenon DEF Picked

\* What a fold that adds v up has to return for the set s.
Folded(f, v, s) == IF s = {} THEN 0 ELSE v[Picked(s)] + f[s \ {Picked(s)}]
IsFold(f, v, S) == \A s \in SUBSET S : f[s] = Folded(f, v, s)

\* A function that folds every subset of a finite set exists.
LEMMA FoldExists ==
  ASSUME NEW S, IsFiniteSet(S), NEW v \in [S -> Int]
  PROVE  \E f \in [SUBSET S -> Int] : IsFold(f, v, S)
<1> DEFINE UpTo(n) == \E f \in [SUBSET S -> Int] : \A s \in SUBSET S :
                        Cardinality(s) <= n => f[s] = Folded(f, v, s)
           Bad == {n \in Nat : ~UpTo(n)}
<1>1. \A s \in SUBSET S : IsFiniteSet(s) /\ Cardinality(s) \in Nat
                          /\ Cardinality(s) <= Cardinality(S)
  BY FS_Subset, FS_CardinalityType
<1>2. UpTo(0)
  <2>1. \A s \in SUBSET S : Cardinality(s) <= 0 => s = {}
    BY <1>1, FS_EmptySet
  <2>2. [s \in SUBSET S |-> 0] \in [SUBSET S -> Int]
    OBVIOUS
  <2>3. QED
    BY <2>1, <2>2 DEF Folded
<1>3. ASSUME NEW n \in Nat, UpTo(n) PROVE UpTo(n + 1)
  <2>1. PICK f \in [SUBSET S -> Int] : \A s \in SUBSET S :
          Cardinality(s) <= n => f[s] = Folded(f, v, s)
    BY <1>3
  <2> DEFINE g == [s \in SUBSET S |-> Folded(f, v, s)]
  <2>2. \A s \in SUBSET S : Folded(f, v, s) \in Int
    BY PickedIn DEF Folded
  <2>3. g \in [SUBSET S -> Int]
    BY <2>2
  <2>4. ASSUME NEW s \in SUBSET S, Cardinality(s) <= n + 1, s # {}
        PROVE  g[s] = Folded(g, v, s)
    <3>1. Picked(s) \in s /\ s \ {Picked(s)} \in SUBSET S
      BY <2>4, PickedIn
    <3>2. Cardinality(s \ {Picked(s)}) = Cardinality(s) - 1
      BY <1>1, <3>1, FS_RemoveElement
    <3>3. Cardinality(s \ {Picked(s)}) <= n
      BY <1>1, <2>4, <3>2
    <3>4. g[s \ {Picked(s)}] = f[s \ {Picked(s)}]
      BY <2>1, <3>1, <3>3
    <3>5. QED
      BY <2>4, <3>4 DEF Folded
  <2>5. \A s \in SUBSET S : s = {} => g[s] = Folded(g, v, s)
    BY DEF Folded
  <2>6. QED
    <3> HIDE DEF g
    <3> QED BY <2>3, <2>4, <2>5
<1>4. Bad = {}
  <2>1. SUFFICES ASSUME Bad # {} PROVE FALSE
    OBVIOUS
  <2>2. PICK m \in Bad : \A k \in Bad : m <= k
    BY <2>1, LeastNumber
  <2>3. m # 0
    BY <1>2
  <2> HIDE DEF UpTo
  <2>4. m \in Nat /\ m - 1 \in Nat /\ ~(m <= m - 1)
    BY <2>3
  <2>5. UpTo(m - 1) /\ (m - 1) + 1 = m
    BY <2>2, <2>4
  <2>6. UpTo(m)
    BY <1>3, <2>4, <2>5
  <2>7. QED
    BY <2>6
<1>5. UpTo(Cardinality(S))
  BY <1>4, FS_CardinalityType
<1>6. QED
  BY <1>1, <1>5 DEF IsFold

\* All such functions agree on the whole set.
LEMMA FoldUnique ==
  ASSUME NEW S, IsFiniteSet(S), NEW v, NEW f, NEW g,
         IsFold(f, v, S), IsFold(g, v, S)
  PROVE  f[S] = g[S]
<1> DEFINE Bad == {s \in SUBSET S : f[s] # g[s]}
<1>1. SUFFICES ASSUME Bad # {} PROVE FALSE
  OBVIOUS
<1>2. PICK s \in Bad : \A x \in s : s \ {x} \notin Bad
  BY <1>1, SmallestSet
<1>3. s # {}
  BY <1>2 DEF IsFold, Folded
<1>4. Picked(s) \in s
  BY <1>3, PickedIn
<1>5. f[s \ {Picked(s)}] = g[s \ {Picked(s)}]
  BY <1>2, <1>4
<1>6. QED
  BY <1>2, <1>3, <1>5 DEF IsFold, Folded

\* The library's sum is what any such function returns.
LEMMA SumIsFold ==
  ASSUME NEW S, IsFiniteSet(S), NEW v \in [S -> Int],
         NEW f, IsFold(f, v, S)
  PROVE  SumFunction(v) = f[S]
<1> DEFINE Solves(g) == g = [s \in SUBSET S |-> Folded(g, v, s)]
           G == CHOOSE g : Solves(g)
<1>1. Solves([s \in SUBSET S |-> f[s]])
  <2> DEFINE r == [s \in SUBSET S |-> f[s]]
  <2>1. ASSUME NEW s \in SUBSET S PROVE r[s] = Folded(r, v, s)
    BY DEF IsFold, Folded
  <2>2. QED
    BY <2>1
<1>2. Solves(G)
  <2> HIDE DEF Solves
  <2> QED BY <1>1, Zenon
<1>3. IsFold(G, v, S)
  BY <1>2 DEF IsFold
<1>4. SumFunction(v) = G[S]
  BY DEF SumFunction, SumFunctionOnSet, FoldFunctionOnSet, MapThenFoldSet, Folded, Picked
<1>5. G[S] = f[S]
  <2> HIDE DEF G
  <2> QED BY <1>3, FoldUnique
<1>6. QED
  BY <1>4, <1>5

\* Whatever element is taken out first, the sum is the same.
TakesAny(f, v, S) ==
  \A T \in SUBSET S : \A y \in T : f[T] = v[y] + f[T \ {y}]

\* A fold may take the elements in any order.
LEMMA FoldTakesAny ==
  ASSUME NEW S, IsFiniteSet(S), NEW v \in [S -> Int], NEW f \in [SUBSET S -> Int],
         IsFold(f, v, S)
  PROVE  TakesAny(f, v, S)
<1> DEFINE Bad == {s \in SUBSET S : \E x \in s : f[s] # v[x] + f[s \ {x}]}
<1>1. SUFFICES ASSUME Bad # {} PROVE FALSE
  BY DEF TakesAny
<1>2. PICK s \in Bad : \A x \in s : s \ {x} \notin Bad
  BY <1>1, SmallestSet
<1>3. PICK x \in s : f[s] # v[x] + f[s \ {x}]
  BY <1>2
<1>4. PICK p \in s : f[s] = v[p] + f[s \ {p}]
  BY <1>2, <1>3, PickedIn DEF IsFold, Folded
<1>5. x # p
  BY <1>3, <1>4
<1>6. f[s \ {p}] = v[x] + f[(s \ {p}) \ {x}]
  BY <1>2, <1>5
<1>7. f[s \ {x}] = v[p] + f[(s \ {x}) \ {p}]
  BY <1>2, <1>5
<1>8. (s \ {x}) \ {p} = (s \ {p}) \ {x}
  OBVIOUS
<1>9. v[x] \in Int /\ v[p] \in Int /\ f[(s \ {p}) \ {x}] \in Int
  BY <1>2
<1>10. f[s] = v[x] + f[s \ {x}]
  <2>1. \A i, j, k \in Int : i + (j + k) = j + (i + k)
    OBVIOUS
  <2>2. f[s] = v[p] + (v[x] + f[(s \ {p}) \ {x}])
    BY <1>4, <1>6
  <2>3. f[s \ {x}] = v[p] + f[(s \ {p}) \ {x}]
    BY <1>7, <1>8
  <2> HIDE DEF Bad
  <2>4. QED
    BY <1>9, <2>1, <2>2, <2>3
<1>11. QED
  BY <1>3, <1>10

\* A sum only depends on what is added up, not on how it is numbered.
Renumbers(b, v, u) == \A i \in DOMAIN v : v[i] = u[b[i]]

\* A bijection that keeps the values keeps the sum.
LEMMA SumBijection ==
  ASSUME NEW S, IsFiniteSet(S), NEW R, IsFiniteSet(R),
         NEW v \in [S -> Int], NEW u \in [R -> Int],
         NEW b \in Bijection(S, R), Renumbers(b, v, u)
  PROVE  SumFunction(v) = SumFunction(u)
<1>1. /\ b \in [S -> R] /\ \A i, j \in S : b[i] = b[j] => i = j
      /\ \A k \in R : \E i \in S : b[i] = k
  BY DEF Bijection, Injection, Surjection, IsInjective
<1>2. \A i \in S : v[i] = u[b[i]]
  BY DEF Renumbers
<1>3. PICK f \in [SUBSET S -> Int] : IsFold(f, v, S)
  BY FoldExists
<1>4. PICK h \in [SUBSET R -> Int] : IsFold(h, u, R)
  BY FoldExists
<1>5. TakesAny(h, u, R)
  BY <1>4, FoldTakesAny
<1> DEFINE Image(s) == {b[i] : i \in s}
           Bad == {s \in SUBSET S : f[s] # h[Image(s)]}
<1>6. ASSUME Bad # {} PROVE FALSE
  <2>1. PICK s \in Bad : \A x \in s : s \ {x} \notin Bad
    BY <1>6, SmallestSet
  <2>2. s # {}
    <3>1. Image({}) = {}
      OBVIOUS
    <3>2. f[{}] = 0 /\ h[{}] = 0
      BY <1>3, <1>4 DEF IsFold, Folded
    <3>3. QED
      BY <2>1, <3>1, <3>2
  <2>3. PICK p \in s : f[s] = v[p] + f[s \ {p}]
    BY <1>3, <2>1, <2>2, PickedIn DEF IsFold, Folded
  <2>4. Image(s) \in SUBSET R /\ b[p] \in Image(s)
    BY <1>1, <2>1
  <2>5. h[Image(s)] = u[b[p]] + h[Image(s) \ {b[p]}]
    <3> HIDE DEF Image
    <3> QED BY <1>5, <2>4 DEF TakesAny
  <2>6. Image(s) \ {b[p]} = Image(s \ {p})
    BY <1>1, <2>1, <2>3
  <2>7. f[s \ {p}] = h[Image(s \ {p})]
    BY <2>1, <2>3
  <2>8. v[p] = u[b[p]]
    BY <1>2, <2>1, <2>3
  <2>9. QED
    BY <2>1, <2>3, <2>5, <2>6, <2>7, <2>8
<1>7. f[S] = h[Image(S)]
  BY <1>6
<1>8. Image(S) = R
  BY <1>1
<1>9. SumFunction(v) = f[S] /\ SumFunction(u) = h[R]
  BY <1>3, <1>4, SumIsFold
<1>10. QED
  BY <1>7, <1>8, <1>9

-----------------------------------------------------------------------------
(* The rolling windows.  A reading is its event time and its value. *)

Reading == [at : Int, value : Int]

\* Event times and values are numbers.
LEMMA ReadingFields == \A x \in Reading : x.at \in Int /\ x.value \in Int
BY DEF Reading

\* Readings are ordered by event time and then by arrival.
Earlier(r, i, j) == r[i].at < r[j].at \/ (r[i].at = r[j].at /\ i < j)

\* The buffer s holds the readings r that g names, in order, and all but those
\* that are older than some reading by more than the longest window.
Holds(s, r, g) ==
  /\ g \in [DOMAIN s -> DOMAIN r]
  /\ \A i \in DOMAIN s : s[i] = r[g[i]]
  /\ \A i, j \in DOMAIN s : i < j => Earlier(r, g[i], g[j])
  /\ \A k \in DOMAIN r :
       \/ \E i \in DOMAIN s : g[i] = k
       \/ \E m \in DOMAIN r : r[k].at < r[m].at - W!MaxWindow

BufferHolds ==
  \E g \in [DOMAIN samples -> DOMAIN recorded] : Holds(samples, recorded, g)

\* Every point says how many of the readings were in when it was computed.
PointsSeen == \A p \in aggregates \cup batch : p.seen \in 0..Len(recorded)

WindowsTypeOK ==
  /\ hand \in Reading
  /\ samples \in Seq(Reading) /\ recorded \in Seq(Reading)
  /\ now \in Int /\ todo \subseteq Windows

WindowsInv == WindowsTypeOK /\ BufferHolds /\ PointsSeen /\ AggregatesAreExact

\* What Min and Max of a bounded set of numbers are.
LEMMA MinOf ==
  ASSUME NEW S \in SUBSET Nat, S # {}
  PROVE  W!Min(S) \in S /\ \A y \in S : W!Min(S) <= y
<1>1. \E x \in S : \A y \in S : x <= y
  BY LeastNumber
<1>2. QED
  BY <1>1, Zenon DEF W!Min

LEMMA MaxOf ==
  ASSUME NEW S \in SUBSET Nat, S # {}, NEW n \in Nat, \A s \in S : s <= n
  PROVE  W!Max(S) \in S /\ \A y \in S : W!Max(S) >= y
<1> DEFINE Bounds == {b \in Nat : \A s \in S : s <= b}
<1>1. Bounds \in SUBSET Nat /\ Bounds # {}
  OBVIOUS
<1>2. PICK b \in Bounds : \A y \in Bounds : b <= y
  <2> HIDE DEF Bounds
  <2> QED BY <1>1, LeastNumber
<1>3. b \in Nat /\ \A s \in S : s <= b
  OBVIOUS
<1>4. ASSUME b \notin S PROVE FALSE
  <2>1. PICK s \in S : TRUE
    OBVIOUS
  <2>2. b > 0 /\ \A t \in S : t <= b - 1
    BY <1>3, <1>4, <2>1
  <2>3. b - 1 \in Bounds
    BY <1>3, <2>2
  <2>4. QED
    BY <1>2, <1>3, <2>3
<1> HIDE DEF Bounds
<1>5. \E z \in S : \A y \in S : z >= y
  BY <1>3, <1>4
<1>6. QED
  BY <1>5, Zenon DEF W!Max

\* The longest window is a duration.
LEMMA LongestWindow == W!MaxWindow \in Nat
<1>1. \E x \in Windows : \A y \in Windows : x >= y
  BY WindowAssumptions
<1>2. W!Max(Windows) \in Windows
  BY <1>1, Zenon DEF W!Max
<1>3. QED
  BY <1>2, WindowAssumptions DEF W!MaxWindow

\* The slot splits an ordered buffer into what is not later than the new
\* reading and what is.
LEMMA SlotSplits ==
  ASSUME samples \in Seq(Reading), NEW t \in Int,
         \A i, j \in DOMAIN samples : i < j => samples[i].at <= samples[j].at
  PROVE  /\ W!Slot(t) \in 0..Len(samples)
         /\ \A i \in 1..W!Slot(t) : samples[i].at <= t
         /\ \A i \in (W!Slot(t) + 1)..Len(samples) : samples[i].at > t
<1> DEFINE S == {0} \cup {i \in DOMAIN samples : samples[i].at <= t}
<1>1. DOMAIN samples = 1..Len(samples) /\ Len(samples) \in Nat
  OBVIOUS
<1>2. \A i \in 1..Len(samples) : samples[i].at \in Int
  BY <1>1, ReadingFields
<1>3. S \in SUBSET Nat /\ S # {} /\ \A s \in S : s <= Len(samples)
  BY <1>1
<1>4. W!Slot(t) = W!Max(S)
  BY DEF W!Slot
<1>5. W!Slot(t) \in S /\ \A y \in S : W!Slot(t) >= y
  <2> HIDE DEF S
  <2> QED BY <1>1, <1>3, <1>4, MaxOf
<1>6. W!Slot(t) \in 0..Len(samples)
  BY <1>1, <1>5
<1>7. ASSUME NEW i \in 1..W!Slot(t) PROVE samples[i].at <= t
  <2>1. W!Slot(t) \in DOMAIN samples /\ samples[W!Slot(t)].at <= t
    BY <1>5, <1>6
  <2>2. i \in DOMAIN samples /\ (i < W!Slot(t) \/ i = W!Slot(t))
    BY <1>1, <1>6
  <2>3. samples[i].at <= samples[W!Slot(t)].at
    BY <1>1, <1>2, <2>1, <2>2
  <2>4. QED
    BY <1>1, <1>2, <2>1, <2>2, <2>3
<1>8. ASSUME NEW i \in (W!Slot(t) + 1)..Len(samples) PROVE samples[i].at > t
  <2>1. i \in DOMAIN samples /\ ~(W!Slot(t) >= i)
    BY <1>1, <1>6
  <2>2. i \notin S
    BY <1>5, <2>1
  <2>3. QED
    BY <1>1, <1>2, <2>1, <2>2
<1>9. QED
  BY <1>6, <1>7, <1>8

\* What Inserted puts where.
LEMMA InsertedAt ==
  ASSUME samples \in Seq(Reading), NEW x \in Reading,
         W!Slot(x.at) \in 0..Len(samples)
  PROVE  /\ W!Inserted(x) \in Seq(Reading)
         /\ Len(W!Inserted(x)) = Len(samples) + 1
         /\ \A i \in 1..(Len(samples) + 1) :
              W!Inserted(x)[i] = IF i <= W!Slot(x.at) THEN samples[i]
                                 ELSE IF i = W!Slot(x.at) + 1 THEN x
                                 ELSE samples[i - 1]
<1>1. PICK n \in 0..Len(samples) : n = W!Slot(x.at)
  OBVIOUS
<1> DEFINE A == SubSeq(samples, 1, n)
           B == SubSeq(samples, n + 1, Len(samples))
<1>2. Len(samples) \in Nat /\ n \in Nat /\ n <= Len(samples)
  OBVIOUS
<1>3. A \in Seq(Reading) /\ Len(A) = n /\ \A i \in 1..n : A[i] = samples[i]
  <2>1. \A i \in 1..n : samples[i] \in Reading
    BY <1>2
  <2>2. QED
    BY <1>2, <2>1, SubSeqProperties
<1>4. /\ B \in Seq(Reading) /\ Len(B) = Len(samples) - n
      /\ \A i \in 1..(Len(samples) - n) : B[i] = samples[n + i]
  <2>1. \A i \in (n + 1)..Len(samples) : samples[i] \in Reading
    BY <1>2
  <2>2. /\ B \in Seq(Reading)
        /\ Len(B) = IF n + 1 <= Len(samples) THEN Len(samples) - (n + 1) + 1 ELSE 0
        /\ \A i \in 1..(Len(samples) - (n + 1) + 1) : B[i] = samples[(n + 1) + i - 1]
    BY <1>2, <2>1, SubSeqProperties
  <2> HIDE DEF B
  <2>3. QED
    BY <1>2, <2>2
<1>5. W!Inserted(x) = (A \o <<x>>) \o B
  BY <1>1 DEF W!Inserted
<1> HIDE DEF A, B
<1> DEFINE AX == A \o <<x>>
<1>6. /\ AX \in Seq(Reading) /\ Len(AX) = n + 1
      /\ \A i \in 1..(n + 1) : AX[i] = IF i <= n THEN samples[i] ELSE x
  BY <1>2, <1>3
<1>7. W!Inserted(x) = AX \o B
  BY <1>5
<1> HIDE DEF AX
<1>8. /\ AX \o B \in Seq(Reading) /\ Len(AX \o B) = Len(AX) + Len(B)
      /\ \A i \in 1..(Len(AX) + Len(B)) :
           (AX \o B)[i] = IF i <= Len(AX) THEN AX[i] ELSE B[i - Len(AX)]
  BY <1>4, <1>6, ConcatProperties
<1>9. Len(AX) + Len(B) = Len(samples) + 1
  <2>1. \A m, k \in Nat : (k + 1) + (m - k) = m + 1
    OBVIOUS
  <2>2. QED
    BY <1>2, <1>4, <1>6, <2>1
<1>10. ASSUME NEW i \in 1..(Len(samples) + 1)
      PROVE  (AX \o B)[i] = IF i <= n THEN samples[i]
                            ELSE IF i = n + 1 THEN x ELSE samples[i - 1]
  <2>1. CASE i <= n + 1
    BY <1>2, <1>6, <1>8, <1>9, <2>1
  <2>2. CASE i > n + 1
    <3>1. i - (n + 1) \in 1..(Len(samples) - n) /\ n + (i - (n + 1)) = i - 1
      BY <1>2, <2>2
    <3>2. (AX \o B)[i] = B[i - (n + 1)]
      BY <1>2, <1>6, <1>8, <1>9, <2>2
    <3>3. B[i - (n + 1)] = samples[i - 1]
      BY <1>4, <3>1
    <3>4. ~(i <= n) /\ i # n + 1
      BY <1>2, <2>2
    <3>5. QED
      BY <3>2, <3>3, <3>4
  <2>3. i <= n + 1 \/ i > n + 1
    BY <1>2
  <2>4. QED
    BY <2>1, <2>2, <2>3
<1>11. QED
  BY <1>1, <1>7, <1>8, <1>9, <1>10

\* A buffer that holds its readings is in order of event time.
LEMMA HoldsSorted ==
  ASSUME NEW s \in Seq(Reading), NEW r \in Seq(Reading), NEW g, Holds(s, r, g)
  PROVE  \A i, j \in DOMAIN s : i < j => s[i].at <= s[j].at
<1>1. ASSUME NEW i \in DOMAIN s, NEW j \in DOMAIN s, i < j
      PROVE  s[i].at <= s[j].at
  <2>1. Earlier(r, g[i], g[j]) /\ s[i] = r[g[i]] /\ s[j] = r[g[j]]
    BY <1>1 DEF Holds
  <2>2. s[i].at \in Int /\ s[j].at \in Int
    BY ReadingFields
  <2>3. QED
    BY <2>1, <2>2 DEF Earlier
<1>2. QED
  BY <1>1

\* The reading that is inserted takes its place in the order.
LEMMA InsertHolds ==
  ASSUME NEW s \in Seq(Reading), NEW r \in Seq(Reading), NEW g, Holds(s, r, g),
         NEW x \in Reading, NEW n \in 0..Len(s), NEW t \in Seq(Reading),
         \A i \in 1..n : s[i].at <= x.at,
         \A i \in (n + 1)..Len(s) : s[i].at > x.at,
         Len(t) = Len(s) + 1,
         \A i \in 1..(Len(s) + 1) : t[i] = IF i <= n THEN s[i]
                                           ELSE IF i = n + 1 THEN x ELSE s[i - 1]
  PROVE  \E h : Holds(t, Append(r, x), h)
<1> DEFINE q == Append(r, x)
           h == [i \in 1..(Len(s) + 1) |-> IF i <= n THEN g[i]
                                           ELSE IF i = n + 1 THEN Len(r) + 1
                                           ELSE g[i - 1]]
<1>1. /\ DOMAIN s = 1..Len(s) /\ DOMAIN r = 1..Len(r) /\ DOMAIN t = 1..(Len(s) + 1)
      /\ Len(s) \in Nat /\ Len(r) \in Nat /\ n \in Nat /\ n <= Len(s)
  OBVIOUS
<1>2. /\ q \in Seq(Reading) /\ DOMAIN q = 1..(Len(r) + 1)
      /\ \A k \in 1..Len(r) : q[k] = r[k]
      /\ q[Len(r) + 1] = x
  OBVIOUS
<1>3. \A i \in 1..Len(s) : g[i] \in 1..Len(r) /\ s[i] = r[g[i]] /\ q[g[i]] = s[i]
  BY <1>1, <1>2 DEF Holds
<1>4. \A i \in 1..Len(s) : s[i].at \in Int /\ x.at \in Int
  BY <1>1, ReadingFields
<1> HIDE DEF q
<1>5. \A i \in 1..(Len(s) + 1) : \/ i \in 1..n /\ h[i] = g[i] /\ t[i] = s[i]
                                 \/ i = n + 1 /\ h[i] = Len(r) + 1 /\ t[i] = x
                                 \/ /\ i - 1 \in (n + 1)..Len(s)
                                    /\ h[i] = g[i - 1] /\ t[i] = s[i - 1]
  BY <1>1
<1>6. \A i \in 1..(Len(s) + 1) : h[i] \in 1..(Len(r) + 1) /\ t[i] = q[h[i]]
  <2>1. ASSUME NEW i \in 1..(Len(s) + 1)
        PROVE  h[i] \in 1..(Len(r) + 1) /\ t[i] = q[h[i]]
    <3> HIDE DEF h
    <3>1. CASE i \in 1..n /\ h[i] = g[i] /\ t[i] = s[i]
      <4>1. i \in 1..Len(s)
        BY <1>1, <3>1
      <4>2. QED
        BY <1>1, <1>3, <3>1, <4>1
    <3>2. CASE i = n + 1 /\ h[i] = Len(r) + 1 /\ t[i] = x
      BY <1>1, <1>2, <3>2
    <3>3. CASE i - 1 \in (n + 1)..Len(s) /\ h[i] = g[i - 1] /\ t[i] = s[i - 1]
      <4>1. i - 1 \in 1..Len(s)
        BY <1>1, <3>3
      <4>2. QED
        BY <1>1, <1>3, <3>3, <4>1
    <3>4. QED
      BY <1>5, <3>1, <3>2, <3>3
  <2>2. QED
    BY <2>1
<1>7. h \in [DOMAIN t -> DOMAIN q]
  <2>1. h = [i \in 1..(Len(s) + 1) |-> h[i]]
    OBVIOUS
  <2> HIDE DEF h
  <2>2. QED
    BY <1>1, <1>2, <1>6, <2>1
<1>8. ASSUME NEW i \in 1..Len(s), NEW j \in 1..Len(s), i < j
      PROVE  Earlier(q, g[i], g[j])
  <2>1. Earlier(r, g[i], g[j])
    BY <1>1, <1>8 DEF Holds
  <2>2. q[g[i]] = r[g[i]] /\ q[g[j]] = r[g[j]]
    BY <1>3
  <2>3. QED
    BY <2>1, <2>2 DEF Earlier
<1>9. ASSUME NEW i \in DOMAIN t, NEW j \in DOMAIN t, i < j
      PROVE  Earlier(q, h[i], h[j])
  <2> HIDE DEF h
  <2>1. CASE i \in 1..n /\ j \in 1..n
    <3>1. i \in 1..Len(s) /\ j \in 1..Len(s) /\ h[i] = g[i] /\ h[j] = g[j]
      BY <1>1, <1>5, <2>1
    <3>2. QED
      BY <1>8, <1>9, <3>1
  <2>2. CASE i \in 1..n /\ j = n + 1
    <3>1. i \in 1..Len(s) /\ h[i] = g[i] /\ h[j] = Len(r) + 1
      BY <1>1, <1>5, <2>2
    <3>2. q[g[i]].at <= x.at /\ g[i] < Len(r) + 1 /\ q[Len(r) + 1] = x
      BY <1>1, <1>2, <1>3, <2>2, <3>1
    <3>3. QED
      BY <1>3, <1>4, <3>1, <3>2 DEF Earlier
  <2>3. CASE i \in 1..n /\ j - 1 \in (n + 1)..Len(s)
    <3>1. /\ i \in 1..Len(s) /\ j - 1 \in 1..Len(s) /\ i < j - 1
          /\ h[i] = g[i] /\ h[j] = g[j - 1]
      BY <1>1, <1>5, <2>3
    <3>2. QED
      BY <1>8, <3>1
  <2>4. CASE i = n + 1 /\ j - 1 \in (n + 1)..Len(s)
    <3>1. j - 1 \in 1..Len(s) /\ h[i] = Len(r) + 1 /\ h[j] = g[j - 1]
      BY <1>1, <1>5, <2>4
    <3>2. q[g[j - 1]].at > x.at /\ q[Len(r) + 1] = x
      BY <1>1, <1>2, <1>3, <2>4, <3>1
    <3>3. QED
      BY <1>3, <1>4, <3>1, <3>2 DEF Earlier
  <2>5. CASE i - 1 \in (n + 1)..Len(s) /\ j - 1 \in (n + 1)..Len(s)
    <3>1. /\ i - 1 \in 1..Len(s) /\ j - 1 \in 1..Len(s) /\ i - 1 < j - 1
          /\ h[i] = g[i - 1] /\ h[j] = g[j - 1]
      BY <1>1, <1>5, <1>9, <2>5
    <3>2. QED
      BY <1>8, <3>1
  <2>6. \A a \in DOMAIN t : a \in 1..n \/ a = n + 1 \/ a - 1 \in (n + 1)..Len(s)
    BY <1>1
  <2>7. /\ i = n + 1 => ~(j \in 1..n) /\ j # n + 1
        /\ i - 1 \in (n + 1)..Len(s) => ~(j \in 1..n) /\ j # n + 1
    BY <1>1, <1>9
  <2>8. QED
    BY <2>1, <2>2, <2>3, <2>4, <2>5, <2>6, <2>7
<1>10. ASSUME NEW k \in DOMAIN q
       PROVE  \/ \E i \in DOMAIN t : h[i] = k
              \/ \E m \in DOMAIN q : q[k].at < q[m].at - W!MaxWindow
  <2> HIDE DEF h
  <2>1. CASE k = Len(r) + 1
    <3>1. n + 1 \in DOMAIN t /\ ~(n + 1 \in 1..n) /\ ~((n + 1) - 1 \in (n + 1)..Len(s))
      BY <1>1
    <3>2. h[n + 1] = k
      BY <1>1, <1>5, <2>1, <3>1
    <3>3. QED
      BY <3>1, <3>2
  <2>2. CASE k \in DOMAIN r /\ \E i \in DOMAIN s : g[i] = k
    <3>1. PICK i \in DOMAIN s : g[i] = k
      BY <2>2
    <3>2. CASE i <= n
      BY <1>1, <1>5, <3>1, <3>2
    <3>3. CASE i > n
      <4>1. i + 1 \in DOMAIN t /\ (i + 1) - 1 = i /\ ~(i + 1 \in 1..n) /\ i + 1 # n + 1
        BY <1>1, <3>3
      <4>2. h[i + 1] = g[(i + 1) - 1]
        BY <1>1, <1>5, <4>1
      <4>3. QED
        BY <3>1, <4>1, <4>2
    <3>4. QED
      BY <1>1, <3>2, <3>3
  <2>3. CASE k \in DOMAIN r /\ \E m \in DOMAIN r : r[k].at < r[m].at - W!MaxWindow
    <3>1. PICK m \in DOMAIN r : r[k].at < r[m].at - W!MaxWindow
      BY <2>3
    <3>2. m \in DOMAIN q /\ q[m] = r[m] /\ q[k] = r[k]
      BY <1>1, <1>2, <2>3
    <3>3. QED
      BY <3>1, <3>2
  <2>4. k = Len(r) + 1 \/ k \in DOMAIN r
    BY <1>1, <1>2
  <2>5. QED
    BY <2>1, <2>2, <2>3, <2>4 DEF Holds
<1> HIDE DEF h
<1>11. Holds(t, q, h)
  BY <1>1, <1>6, <1>7, <1>9, <1>10 DEF Holds
<1>12. QED
  BY <1>11 DEF q

\* Trimming drops only what is older than the last reading by more than the
\* longest window.
LEMMA TrimHolds ==
  ASSUME NEW t \in Seq(Reading), t # <<>>, NEW r \in Seq(Reading),
         NEW g, Holds(t, r, g)
  PROVE  W!Trimmed(t) \in Seq(Reading) /\ \E h : Holds(W!Trimmed(t), r, h)
<1> DEFINE cutoff == t[Len(t)].at - W!MaxWindow
           kept == {i \in DOMAIN t : t[i].at >= cutoff}
<1>1. Len(t) \in Nat /\ Len(t) >= 1 /\ DOMAIN t = 1..Len(t)
  OBVIOUS
<1>2. \A i \in 1..Len(t) : t[i].at \in Int
  BY <1>1, ReadingFields
<1>3. Len(t) \in kept /\ kept \in SUBSET Nat
  BY <1>1, <1>2, LongestWindow
<1>4. PICK c : c = W!Min(kept)
  OBVIOUS
<1>5. c \in kept /\ \A y \in kept : c <= y
  <2> HIDE DEF kept
  <2> QED BY <1>3, <1>4, MinOf
<1>6. c \in 1..Len(t) /\ \A i \in 1..(c - 1) : t[i].at < cutoff
  BY <1>1, <1>2, <1>5, LongestWindow
<1> DEFINE u == SubSeq(t, c, Len(t))
           h == [i \in 1..(Len(t) - c + 1) |-> g[i + c - 1]]
<1>7. W!Trimmed(t) = u
  BY <1>4 DEF W!Trimmed
<1>8. /\ u \in Seq(Reading) /\ DOMAIN u = 1..(Len(t) - c + 1)
      /\ \A i \in 1..(Len(t) - c + 1) : u[i] = t[i + c - 1]
  <2>1. \A i \in c..Len(t) : t[i] \in Reading
    BY <1>1, <1>6
  <2>2. /\ u \in Seq(Reading)
        /\ Len(u) = IF c <= Len(t) THEN Len(t) - c + 1 ELSE 0
        /\ \A i \in 1..(Len(t) - c + 1) : u[i] = t[c + i - 1]
    <3>1. c \in Int /\ Len(t) \in Int
      BY <1>1, <1>6
    <3>2. QED
      BY <2>1, <3>1, SubSeqProperties
  <2> HIDE DEF u
  <2>3. \A i \in 1..(Len(t) - c + 1) : c + i - 1 = i + c - 1
    BY <1>1, <1>6
  <2>4. Len(u) = Len(t) - c + 1
    BY <1>1, <1>6, <2>2
  <2>5. QED
    BY <2>2, <2>3, <2>4
<1> HIDE DEF u, kept
<1>9. \A i \in 1..(Len(t) - c + 1) : i + c - 1 \in DOMAIN t
  BY <1>1, <1>6
<1>10. h \in [DOMAIN u -> DOMAIN r] /\ \A i \in DOMAIN u : u[i] = r[h[i]]
  BY <1>8, <1>9 DEF Holds
<1>11. ASSUME NEW i \in DOMAIN u, NEW j \in DOMAIN u, i < j
       PROVE  Earlier(r, h[i], h[j])
  <2>1. i + c - 1 < j + c - 1
    BY <1>1, <1>6, <1>8, <1>11
  <2>2. QED
    BY <1>8, <1>9, <2>1 DEF Holds
<1>12. ASSUME NEW k \in DOMAIN r
       PROVE  \/ \E i \in DOMAIN u : h[i] = k
              \/ \E m \in DOMAIN r : r[k].at < r[m].at - W!MaxWindow
  <2>1. CASE \E i \in DOMAIN t : g[i] = k
    <3>1. PICK i \in DOMAIN t : g[i] = k
      BY <2>1
    <3>2. CASE i < c
      <4>1. i \in 1..(c - 1) /\ t[i] = r[k]
        BY <1>1, <1>6, <3>1, <3>2 DEF Holds
      <4>2. g[Len(t)] \in DOMAIN r /\ t[Len(t)] = r[g[Len(t)]]
        BY <1>1 DEF Holds
      <4>3. QED
        BY <1>6, <4>1, <4>2
    <3>3. CASE i >= c
      <4>1. i - c + 1 \in 1..(Len(t) - c + 1) /\ (i - c + 1) + c - 1 = i
        BY <1>1, <1>6, <3>3
      <4>2. QED
        BY <1>8, <3>1, <4>1
    <3>4. i < c \/ i >= c
      BY <1>1, <1>6
    <3>5. QED
      BY <3>2, <3>3, <3>4
  <2>2. QED
    BY <2>1 DEF Holds
<1> HIDE DEF h
<1>13. Holds(u, r, h)
  BY <1>10, <1>11, <1>12 DEF Holds
<1>14. QED
  BY <1>7, <1>8, <1>13

\* b takes the positions I of s to the positions R of r that hold the same
\* readings.
Corresponds(s, I, r, R, b) ==
  /\ IsFiniteSet(I) /\ IsFiniteSet(R)
  /\ b \in Bijection(I, R)
  /\ \A i \in I : s[i] = r[b[i]] /\ s[i] \in Reading
  /\ \A i \in R : r[i] \in Reading

\* Corresponding positions add up to the same sums.
LEMMA SameSums ==
  ASSUME NEW s, NEW I, NEW r, NEW R, NEW b, Corresponds(s, I, r, R, b)
  PROVE  /\ SumFunction([i \in I |-> s[i].value]) = SumFunction([i \in R |-> r[i].value])
         /\ SumFunction([i \in I |-> s[i].value * s[i].value])
              = SumFunction([i \in R |-> r[i].value * r[i].value])
<1>1. IsFiniteSet(I) /\ IsFiniteSet(R) /\ b \in Bijection(I, R)
  BY DEF Corresponds
<1>2. \A i \in I : b[i] \in R /\ s[i] = r[b[i]]
  BY DEF Corresponds, Bijection, Surjection
<1>3. \A i \in I : s[i].value \in Int
  BY ReadingFields DEF Corresponds
<1>4. \A i \in R : r[i].value \in Int
  BY ReadingFields DEF Corresponds
<1>5. SumFunction([i \in I |-> s[i].value]) = SumFunction([i \in R |-> r[i].value])
  <2>1. PICK v, u : v = [i \in I |-> s[i].value] /\ u = [i \in R |-> r[i].value]
    OBVIOUS
  <2>2. v \in [I -> Int] /\ u \in [R -> Int] /\ Renumbers(b, v, u)
    BY <1>2, <1>3, <1>4, <2>1 DEF Renumbers
  <2>3. SumFunction(v) = SumFunction(u)
    BY <1>1, <2>2, SumBijection
  <2>4. QED
    BY <2>1, <2>3
<1>6. SumFunction([i \in I |-> s[i].value * s[i].value])
        = SumFunction([i \in R |-> r[i].value * r[i].value])
  <2>1. PICK v, u : /\ v = [i \in I |-> s[i].value * s[i].value]
                    /\ u = [i \in R |-> r[i].value * r[i].value]
    OBVIOUS
  <2>2. v \in [I -> Int] /\ u \in [R -> Int] /\ Renumbers(b, v, u)
    BY <1>2, <1>3, <1>4, <2>1 DEF Renumbers
  <2>3. SumFunction(v) = SumFunction(u)
    BY <1>1, <2>2, SumBijection
  <2>4. QED
    BY <2>1, <2>3
<1>7. QED
  BY <1>5, <1>6

\* Two sequences whose chosen positions correspond have one summary.
LEMMA SameSummary ==
  ASSUME NEW s, NEW I, NEW r, NEW R, NEW b, Corresponds(s, I, r, R, b),
         NEW f \in I, NEW l \in I
  PROVE  W!Summary(s, I, f, l) = W!Summary(r, R, b[f], b[l])
<1>1. W!Cardinality(I) = W!Cardinality(R)
  <2>1. IsFiniteSet(I) /\ ExistsBijection(I, R)
    BY DEF Corresponds, ExistsBijection
  <2>2. Cardinality(I) = Cardinality(R)
    BY <2>1, FS_Bijection
  <2>3. \A S : W!Cardinality(S) = Cardinality(S)
    BY DEF Cardinality, W!Cardinality
  <2>4. QED
    BY <2>2, <2>3
<1>2. \A v : W!SumFunction(v) = SumFunction(v)
  BY DEF W!SumFunction, W!SumFunctionOnSet, W!FoldFunctionOnSet,
         W!MapThenFoldSet, SumFunction, SumFunctionOnSet, FoldFunctionOnSet,
         MapThenFoldSet
<1>3. {s[i].value : i \in I} = {r[i].value : i \in R}
  <2>1. \A i \in I : b[i] \in R /\ s[i] = r[b[i]]
    BY DEF Corresponds, Bijection, Surjection
  <2>2. \A k \in R : \E i \in I : b[i] = k
    BY DEF Corresponds, Bijection, Surjection
  <2>3. QED
    BY <2>1, <2>2
<1>4. s[f] = r[b[f]] /\ s[l] = r[b[l]]
  BY DEF Corresponds
<1>5. /\ SumFunction([i \in I |-> s[i].value]) = SumFunction([i \in R |-> r[i].value])
      /\ SumFunction([i \in I |-> s[i].value * s[i].value])
           = SumFunction([i \in R |-> r[i].value * r[i].value])
  BY SameSums
<1>6. QED
  BY <1>1, <1>2, <1>3, <1>4, <1>5 DEF W!Summary

\* The statistics of a window computed from the buffer are those of all
\* readings, unless some reading is so far ahead that the buffer lost others.
LEMMA StatsExact ==
  ASSUME samples \in Seq(Reading), recorded \in Seq(Reading), now \in Int,
         NEW g, Holds(samples, recorded, g),
         NEW w \in Nat, W!InWindow(samples, w) # {},
         \A i \in DOMAIN recorded : recorded[i].at - now <= W!MaxWindow - w
  PROVE  W!stats_for(w) = W!Reference(recorded, now, w)
<1>1. PICK I : I = {i \in DOMAIN samples : samples[i].at >= now - w}
  OBVIOUS
<1>2. PICK R : R = {i \in DOMAIN recorded : recorded[i].at >= now - w}
  OBVIOUS
<1>3. PICK b : b = [i \in I |-> g[i]]
  OBVIOUS
<1>4. /\ DOMAIN samples = 1..Len(samples) /\ Len(samples) \in Nat
      /\ DOMAIN recorded = 1..Len(recorded) /\ Len(recorded) \in Nat
  OBVIOUS
<1>5. \A k \in DOMAIN recorded : recorded[k] \in Reading /\ recorded[k].at \in Int
  BY ReadingFields
<1>6. I \subseteq DOMAIN samples /\ I \subseteq Nat /\ R \subseteq Nat /\ I # {}
  BY <1>1, <1>2, <1>4 DEF W!InWindow
<1>7. \A i \in I : b[i] \in R /\ samples[i] = recorded[b[i]]
  <2>1. \A i \in DOMAIN samples : g[i] \in DOMAIN recorded /\ samples[i] = recorded[g[i]]
    BY DEF Holds
  <2>2. QED
    BY <1>1, <1>2, <1>3, <2>1
<1>8. \A i, j \in I : i < j => Earlier(recorded, b[i], b[j])
  BY <1>3, <1>6 DEF Holds
<1>9. \A i, j \in I : b[i] = b[j] => i = j
  <2>1. \A k \in R : ~Earlier(recorded, k, k)
    BY <1>2, <1>4, <1>5 DEF Earlier
  <2>2. ASSUME NEW i \in I, NEW j \in I, b[i] = b[j], i # j PROVE FALSE
    <3>1. i < j \/ j < i
      BY <1>6, <2>2
    <3>2. Earlier(recorded, b[i], b[j]) \/ Earlier(recorded, b[j], b[i])
      BY <1>8, <3>1
    <3>3. Earlier(recorded, b[i], b[i]) /\ b[i] \in R
      BY <1>7, <2>2, <3>2
    <3>4. QED
      BY <2>1, <3>3
  <2>3. QED
    BY <2>2
<1>10. \A k \in R : \E i \in I : b[i] = k
  <2>1. ASSUME NEW k \in R PROVE \E i \in I : b[i] = k
    <3>1. k \in DOMAIN recorded /\ recorded[k].at >= now - w
      BY <1>2
    <3>2. ASSUME NEW m \in DOMAIN recorded,
                 recorded[k].at < recorded[m].at - W!MaxWindow
          PROVE  FALSE
      <4>1. recorded[m].at - now <= W!MaxWindow - w
        OBVIOUS
      <4>2. \A a, c, t, x \in Int : c - t <= x - w /\ a < c - x => ~(a >= t - w)
        OBVIOUS
      <4>3. W!MaxWindow \in Int /\ recorded[k].at \in Int /\ recorded[m].at \in Int
        BY <1>5, <3>1, LongestWindow
      <4>4. QED
        BY <3>1, <3>2, <4>1, <4>2, <4>3
    <3>3. PICK i \in DOMAIN samples : g[i] = k
      BY <3>1, <3>2 DEF Holds
    <3>4. samples[i] = recorded[k]
      BY <3>3 DEF Holds
    <3>5. i \in I
      BY <1>1, <3>1, <3>4
    <3>6. QED
      BY <1>3, <3>3, <3>5
  <2>2. QED
    BY <2>1
<1>11. Corresponds(samples, I, recorded, R, b)
  <2>1. b \in Bijection(I, R)
    <3>1. b \in [I -> R]
      BY <1>3, <1>7
    <3>2. QED
      BY <1>9, <1>10, <3>1 DEF Bijection, Injection, Surjection, IsInjective
  <2>2. IsFiniteSet(1..Len(samples)) /\ IsFiniteSet(1..Len(recorded))
    BY <1>4, FS_Interval
  <2>3. I \in SUBSET (1..Len(samples)) /\ R \in SUBSET (1..Len(recorded))
    BY <1>1, <1>2, <1>4
  <2>4. IsFiniteSet(I)
    BY <2>2, <2>3, FS_Subset
  <2>5. IsFiniteSet(R)
    BY <2>2, <2>3, FS_Subset
  <2>6. \A i \in R : recorded[i] \in Reading
    BY <1>2, <1>5
  <2>7. QED
    BY <1>7, <2>1, <2>4, <2>5, <2>6 DEF Corresponds
<1>12. PICK f, l : f = W!Min(I) /\ l = W!Max(I)
  OBVIOUS
<1>13. f \in I /\ l \in I /\ \A i \in I : f <= i /\ i <= l
  <2>1. I \in SUBSET Nat /\ \A i \in I : i <= Len(samples)
    BY <1>1, <1>4
  <2>2. f \in I /\ \A i \in I : f <= i
    BY <1>6, <1>12, <2>1, MinOf
  <2>3. l \in I /\ \A i \in I : l >= i
    BY <1>4, <1>6, <1>12, <2>1, MaxOf
  <2>4. QED
    BY <1>6, <2>2, <2>3
<1> DEFINE Before(i, j) == \/ recorded[i].at < recorded[j].at
                           \/ recorded[i].at = recorded[j].at /\ i <= j
<1>14. \A i, j \in R : Before(i, j) /\ Before(j, i) => i = j
  BY <1>2, <1>4, <1>5
<1>15. \A i, j \in I : i <= j => Before(b[i], b[j])
  <2>1. ASSUME NEW i \in I, NEW j \in I, i <= j PROVE Before(b[i], b[j])
    <3>1. i < j \/ i = j
      BY <1>6, <2>1
    <3>2. b[i] \in Nat /\ b[j] \in Nat
      BY <1>6, <1>7
    <3>3. CASE i < j
      BY <1>8, <3>2, <3>3 DEF Earlier
    <3>4. CASE i = j
      BY <3>2, <3>4
    <3>5. QED
      BY <3>1, <3>3, <3>4
  <2>2. QED
    BY <2>1
<1>16. b[f] \in R /\ \A j \in R : Before(b[f], j)
  <2> HIDE DEF Before
  <2> QED BY <1>7, <1>10, <1>13, <1>15
<1>17. b[l] \in R /\ \A j \in R : Before(j, b[l])
  <2> HIDE DEF Before
  <2> QED BY <1>7, <1>10, <1>13, <1>15
<1>18. (CHOOSE i \in R : \A j \in R : Before(i, j)) = b[f]
  <2> HIDE DEF Before
  <2>1. PICK x : x = CHOOSE i \in R : \A j \in R : Before(i, j)
    OBVIOUS
  <2>2. x \in R /\ \A j \in R : Before(x, j)
    BY <1>16, <2>1, Zenon
  <2>3. QED
    BY <1>14, <1>16, <2>1, <2>2
<1>19. (CHOOSE i \in R : \A j \in R : Before(j, i)) = b[l]
  <2> HIDE DEF Before
  <2>1. PICK x : x = CHOOSE i \in R : \A j \in R : Before(j, i)
    OBVIOUS
  <2>2. x \in R /\ \A j \in R : Before(j, x)
    BY <1>17, <2>1, Zenon
  <2>3. QED
    BY <1>14, <1>17, <2>1, <2>2
<1>20. W!stats_for(w) = W!Summary(samples, I, f, l)
  BY <1>1, <1>12 DEF W!stats_for, W!InWindow
<1>21. W!Reference(recorded, now, w) = W!Summary(recorded, R, b[f], b[l])
  BY <1>2, <1>18, <1>19 DEF W!Reference
<1>22. W!Summary(samples, I, f, l) = W!Summary(recorded, R, b[f], b[l])
  BY <1>11, <1>13, SameSummary
<1>23. QED
  BY <1>20, <1>21, <1>22

\* One reading more: the buffer still holds all a window may need.
LEMMA AddHolds ==
  ASSUME samples \in Seq(Reading), recorded \in Seq(Reading), BufferHolds,
         NEW x \in Reading
  PROVE  /\ W!Trimmed(W!Inserted(x)) \in Seq(Reading)
         /\ \E h : Holds(W!Trimmed(W!Inserted(x)), Append(recorded, x), h)
<1>1. PICK g : Holds(samples, recorded, g)
  BY DEF BufferHolds
<1>2. \A i, j \in DOMAIN samples : i < j => samples[i].at <= samples[j].at
  BY <1>1, HoldsSorted
<1>3. x.at \in Int
  BY ReadingFields
<1>4. PICK n : n = W!Slot(x.at)
  OBVIOUS
<1>5. /\ n \in 0..Len(samples)
      /\ \A i \in 1..n : samples[i].at <= x.at
      /\ \A i \in (n + 1)..Len(samples) : samples[i].at > x.at
  BY <1>2, <1>3, <1>4, SlotSplits
<1>6. PICK t : t = W!Inserted(x)
  OBVIOUS
<1>7. /\ t \in Seq(Reading) /\ Len(t) = Len(samples) + 1
      /\ \A i \in 1..(Len(samples) + 1) :
           t[i] = IF i <= n THEN samples[i]
                  ELSE IF i = n + 1 THEN x ELSE samples[i - 1]
  BY <1>4, <1>5, <1>6, InsertedAt
<1>8. PICK h : Holds(t, Append(recorded, x), h)
  BY <1>1, <1>5, <1>7, InsertHolds
<1>9. t # <<>> /\ Append(recorded, x) \in Seq(Reading)
  BY <1>7
<1>10. QED
  BY <1>6, <1>7, <1>8, <1>9, TrimHolds

\* The buffer starts empty, and so does the history.
LEMMA WindowsStart == W!Init => WindowsInv
<1> SUFFICES ASSUME W!Init PROVE WindowsInv
  OBVIOUS
<1>1. WindowsTypeOK
  BY DEF W!Init, W!None, WindowsTypeOK, Reading
<1>2. BufferHolds
  <2>1. samples = <<>> /\ recorded = <<>>
    BY DEF W!Init
  <2>2. \A g \in [DOMAIN samples -> DOMAIN recorded] : Holds(samples, recorded, g)
    BY <2>1 DEF Holds
  <2>3. \E g : g \in [DOMAIN samples -> DOMAIN recorded]
    <3>1. [i \in {} |-> i] \in [DOMAIN samples -> DOMAIN recorded]
      BY <2>1
    <3>2. QED
      BY <3>1
  <2>4. QED
    BY <2>2, <2>3 DEF BufferHolds
<1>3. PointsSeen /\ AggregatesAreExact
  BY DEF W!Init, PointsSeen, AggregatesAreExact, W!AggregatesAreExact
<1>4. QED
  BY <1>1, <1>2, <1>3 DEF WindowsInv

\* What a point says holds whatever is recorded later.
Exact(p, r) ==
  LET sofar == SubSeq(r, 1, p.seen)
  IN (\A i \in DOMAIN sofar : sofar[i].at - p.at <= W!MaxWindow - p.window)
       => p.stats = W!Reference(sofar, p.at, p.window)

\* AggregatesAreExact, point by point.
LEMMA ExactPoints ==
  AggregatesAreExact <=> \A p \in aggregates \cup batch : Exact(p, recorded)
BY DEF AggregatesAreExact, W!AggregatesAreExact, Exact

\* A later reading takes nothing from what a point says.
LEMMA ExactStays ==
  ASSUME NEW r \in Seq(Reading), NEW x \in Reading, NEW p, p.seen \in 0..Len(r),
         Exact(p, r)
  PROVE  Exact(p, Append(r, x))
<1>1. SubSeq(Append(r, x), 1, p.seen) = SubSeq(r, 1, p.seen)
  OBVIOUS
<1>2. QED
  BY <1>1 DEF Exact

\* Every step of the consumer, the flusher and the clock keeps the invariant.
LEMMA WindowsStep == WindowsInv /\ [W!Next]_windows => WindowsInv'
<1> SUFFICES ASSUME WindowsInv, [W!Next]_windows PROVE WindowsInv'
  OBVIOUS
<1>1. /\ hand \in Reading /\ samples \in Seq(Reading) /\ recorded \in Seq(Reading)
      /\ now \in Int /\ todo \subseteq Windows
  BY DEF WindowsInv, WindowsTypeOK
<1>2. PICK g : Holds(samples, recorded, g)
  BY DEF WindowsInv, BufferHolds
<1>3. \A p \in aggregates \cup batch : p.seen \in 0..Len(recorded) /\ Exact(p, recorded)
  BY ExactPoints DEF WindowsInv, PointsSeen
<1>4. ASSUME hand' \in Reading, samples' \in Seq(Reading),
             recorded' \in Seq(Reading), now' \in Int, todo' \subseteq Windows,
             NEW h, Holds(samples', recorded', h),
             \A p \in aggregates' \cup batch' : /\ p.seen \in 0..Len(recorded')
                                                /\ Exact(p, recorded')
      PROVE  WindowsInv'
  <2>1. WindowsTypeOK'
    BY <1>4 DEF WindowsTypeOK
  <2>2. BufferHolds'
    BY <1>4 DEF BufferHolds, Holds
  <2>3. PointsSeen'
    BY <1>4 DEF PointsSeen
  <2>4. AggregatesAreExact'
    BY <1>4 DEF AggregatesAreExact, W!AggregatesAreExact, Exact
  <2>5. QED
    BY <2>1, <2>2, <2>3, <2>4 DEF WindowsInv
<1>5. ASSUME NEW at \in Times, NEW value \in Values,
             W!Track([at |-> at, value |-> value])
      PROVE  WindowsInv'
  <2>1. [at |-> at, value |-> value] \in Reading
    BY WindowAssumptions DEF Reading
  <2>2. UNCHANGED <<samples, recorded, now, todo, batch, aggregates>>
    BY <1>5 DEF W!Track, W!flusher
  <2>3. hand' \in Reading
    BY <1>5, <2>1 DEF W!Track
  <2>4. QED
    BY <1>1, <1>2, <1>3, <1>4, <2>2, <2>3
<1>6. CASE W!Add
  <2>1. /\ samples' = W!Trimmed(W!Inserted(hand)) /\ recorded' = Append(recorded, hand)
        /\ UNCHANGED <<now, todo, batch, aggregates>>
    BY <1>6 DEF W!Add, W!flusher
  <2>2. hand' \in Reading
    BY <1>6 DEF W!Add, W!None, Reading
  <2>3. /\ W!Trimmed(W!Inserted(hand)) \in Seq(Reading)
        /\ \E h : Holds(W!Trimmed(W!Inserted(hand)), Append(recorded, hand), h)
    BY <1>1, AddHolds DEF WindowsInv
  <2>4. Append(recorded, hand) \in Seq(Reading) /\ Len(Append(recorded, hand)) = Len(recorded) + 1
    BY <1>1
  <2>5. \A p \in aggregates \cup batch : /\ p.seen \in 0..Len(Append(recorded, hand))
                                         /\ Exact(p, Append(recorded, hand))
    <3>1. ASSUME NEW p \in aggregates \cup batch
          PROVE  /\ p.seen \in 0..Len(Append(recorded, hand))
                 /\ Exact(p, Append(recorded, hand))
      <4>1. p.seen \in 0..Len(recorded) /\ Exact(p, recorded)
        BY <1>3
      <4>2. Exact(p, Append(recorded, hand))
        BY <1>1, <4>1, ExactStays
      <4>3. Len(recorded) \in Nat
        BY <1>1
      <4>4. QED
        BY <2>4, <4>1, <4>2, <4>3
    <3>2. QED
      BY <3>1
  <2>6. QED
    BY <1>1, <1>4, <2>1, <2>2, <2>3, <2>4, <2>5
<1>7. ASSUME NEW t \in Times, W!StartFlush(t) PROVE WindowsInv'
  <2>1. UNCHANGED <<samples, recorded, hand, batch, aggregates>>
    BY <1>7 DEF W!StartFlush, W!buffer
  <2>2. now' \in Int /\ todo' \subseteq Windows
    BY <1>7, WindowAssumptions DEF W!StartFlush
  <2>3. QED
    BY <1>1, <1>2, <1>3, <1>4, <2>1, <2>2
<1>8. ASSUME NEW w \in Windows, W!Compute(w) PROVE WindowsInv'
  <2>1. UNCHANGED <<samples, recorded, hand, now, aggregates>> /\ todo' \subseteq Windows
    BY <1>1, <1>8 DEF W!Compute, W!buffer
  <2>2. CASE W!InWindow(samples, w) = {}
    <3>1. batch' = batch
      BY <1>8, <2>2 DEF W!Compute
    <3>2. QED
      BY <1>1, <1>2, <1>3, <1>4, <2>1, <3>1
  <2>3. CASE W!InWindow(samples, w) # {}
    <3>1. PICK q : q = [window |-> w, at |-> now, stats |-> W!stats_for(w),
                        seen |-> Len(recorded)]
      OBVIOUS
    <3>2. batch' = batch \cup {q}
      BY <1>8, <2>3, <3>1 DEF W!Compute
    <3>3. Len(recorded) \in Nat /\ SubSeq(recorded, 1, Len(recorded)) = recorded
      BY <1>1
    <3>4. q.seen = Len(recorded) /\ q.at = now /\ q.window = w
          /\ q.stats = W!stats_for(w)
      BY <3>1
    <3>5. w \in Nat
      BY WindowAssumptions
    <3>6. (\A i \in DOMAIN recorded : recorded[i].at - now <= W!MaxWindow - w)
            => W!stats_for(w) = W!Reference(recorded, now, w)
      BY <1>1, <1>2, <2>3, <3>5, StatsExact
    <3>7. Exact(q, recorded) /\ q.seen \in 0..Len(recorded)
      <4>1. SubSeq(recorded, 1, q.seen) = recorded /\ q.seen \in 0..Len(recorded)
        BY <3>3, <3>4
      <4>2. Exact(q, recorded) <=>
              ((\A i \in DOMAIN recorded : recorded[i].at - q.at <= W!MaxWindow - q.window)
                 => q.stats = W!Reference(recorded, q.at, q.window))
        BY <4>1, Zenon DEF Exact
      <4>3. QED
        BY <3>4, <3>6, <4>1, <4>2
    <3>8. QED
      BY <1>1, <1>2, <1>3, <1>4, <2>1, <3>2, <3>7
  <2>4. QED
    BY <2>2, <2>3
<1>9. CASE W!Write
  <2>1. /\ UNCHANGED <<samples, recorded, hand, now, todo>>
        /\ aggregates' \cup batch' \subseteq aggregates \cup batch
    BY <1>9 DEF W!Write, W!buffer
  <2>2. QED
    BY <1>1, <1>2, <1>3, <1>4, <2>1
<1>10. CASE W!Restart
  <2>1. /\ samples' = <<>> /\ recorded' = <<>> /\ now' = now /\ todo' = {}
        /\ aggregates' = {} /\ batch' = {}
    BY <1>10 DEF W!Restart
  <2>2. hand' \in Reading
    BY <1>10 DEF W!Restart, W!None, Reading
  <2>3. Holds(<<>>, <<>>, [i \in {} |-> i])
    BY DEF Holds
  <2>4. QED
    BY <1>1, <1>4, <2>1, <2>2, <2>3
<1>11. CASE UNCHANGED windows
  BY <1>1, <1>2, <1>3, <1>4, <1>11 DEF windows
<1>12. QED
  BY <1>5, <1>6, <1>7, <1>8, <1>9, <1>10, <1>11 DEF W!Next

-----------------------------------------------------------------------------
(* The anomaly counts. *)

Anomaly == [device : Devices, at : Int, cutoff : Int]

\* An anomaly's time and its evaluation's cut-off are numbers.
LEMMA AnomalyFields ==
  \A x \in Anomaly : x.device \in Devices /\ x.at \in Int /\ x.cutoff \in Int
BY DEF Anomaly

\* The anomalies of a device that no later evaluation has cut off.
Survivors(c, d) ==
  {i \in DOMAIN c :
     /\ c[i].device = d
     /\ \A k \in DOMAIN c : k > i /\ c[k].device = d => c[i].at >= c[k].cutoff}

Stored(c, d) == {[nr |-> i, at |-> c[i].at] : i \in Survivors(c, d)}

\* The tracker holds exactly the anomalies that survived every cut-off.
TrackerHolds == \A d \in Devices : seen[d] = Stored(counted, d)

\* A verdict on a count is about the anomaly counted last.
VerdictIsLatest ==
  verdict.rule # NoRule /\ verdict.rule.condition = "ANOMALY_COUNT" =>
    /\ verdict.rule \in Versions /\ verdict.device \in Devices
    /\ verdict.at \in Int
    /\ counted # <<>>
    /\ counted[Len(counted)] = [device |-> verdict.device, at |-> verdict.at,
                                cutoff |-> verdict.at - verdict.rule.window]
    /\ verdict.count = Cardinality(seen[verdict.device])
    /\ verdict.due <=> /\ verdict.rule.threshold # Null
                       /\ verdict.count >= verdict.rule.threshold

CountsTypeOK ==
  /\ rule \in Versions \cup {NoRule} /\ cached \in Versions \cup {NoRule}
  /\ DOMAIN seen = Devices
  /\ counted \in Seq(Anomaly)

CountsInv == CountsTypeOK /\ TrackerHolds /\ VerdictIsLatest

\* What one more anomaly leaves of the earlier ones.
LEMMA SurvivorsAfter ==
  ASSUME NEW c \in Seq(Anomaly), NEW x \in Anomaly, NEW d
  PROVE  Survivors(Append(c, x), d) =
           IF x.device = d
           THEN {i \in Survivors(c, d) : c[i].at >= x.cutoff} \cup {Len(c) + 1}
           ELSE Survivors(c, d)
<1>1. PICK q : q = Append(c, x)
  OBVIOUS
<1>2. PICK n \in Nat : n = Len(c)
  OBVIOUS
<1>3. /\ DOMAIN c = 1..n /\ DOMAIN q = 1..(n + 1)
      /\ \A i \in 1..n : q[i] = c[i]
      /\ q[n + 1] = x
  BY <1>1, <1>2
<1>4. \A k \in 1..(n + 1) : k \in 1..n \/ k = n + 1
  OBVIOUS
<1>5. \A i \in 1..n : i \in 1..(n + 1) /\ n + 1 > i /\ i # n + 1 /\ ~(i > n + 1)
  OBVIOUS
<1>6. n + 1 \in 1..(n + 1) /\ ~(n + 1 > n + 1)
  OBVIOUS
<1>7. ASSUME NEW i \in 1..n
      PROVE  i \in Survivors(q, d) <=> /\ i \in Survivors(c, d)
                                       /\ x.device = d => c[i].at >= x.cutoff
  BY <1>3, <1>4, <1>5, <1>6 DEF Survivors
<1>8. n + 1 \in Survivors(q, d) <=> x.device = d
  BY <1>3, <1>4, <1>5, <1>6 DEF Survivors
<1>9. Survivors(c, d) \subseteq 1..n /\ Survivors(q, d) \subseteq 1..(n + 1)
  BY <1>3 DEF Survivors
<1>10. CASE x.device = d
  <2>1. Survivors(q, d) = {i \in Survivors(c, d) : c[i].at >= x.cutoff} \cup {n + 1}
    BY <1>4, <1>7, <1>8, <1>9, <1>10
  <2>2. QED
    BY <1>1, <1>2, <1>10, <2>1
<1>11. CASE x.device # d
  <2>1. Survivors(q, d) = Survivors(c, d)
    BY <1>4, <1>5, <1>7, <1>8, <1>9, <1>11
  <2>2. QED
    BY <1>1, <1>11, <2>1
<1>12. QED
  BY <1>10, <1>11

\* What one more anomaly leaves stored for a device.
LEMMA StoredAfter ==
  ASSUME NEW c \in Seq(Anomaly), NEW x \in Anomaly, NEW d
  PROVE  Stored(Append(c, x), d) =
           IF x.device = d
           THEN {t \in Stored(c, d) : t.at >= x.cutoff}
                  \cup {[nr |-> Len(c) + 1, at |-> x.at]}
           ELSE Stored(c, d)
<1>1. PICK q : q = Append(c, x)
  OBVIOUS
<1>2. /\ \A i \in DOMAIN c : q[i] = c[i]
      /\ q[Len(c) + 1] = x
  BY <1>1
<1>3. \A i \in Survivors(c, d) : q[i] = c[i]
  BY <1>2 DEF Survivors
<1>4. CASE x.device = d
  <2>1. Survivors(q, d) = {i \in Survivors(c, d) : c[i].at >= x.cutoff} \cup {Len(c) + 1}
    BY <1>1, <1>4, SurvivorsAfter
  <2>2. Stored(q, d) = {[nr |-> i, at |-> c[i].at] :
                          i \in {j \in Survivors(c, d) : c[j].at >= x.cutoff}}
                         \cup {[nr |-> Len(c) + 1, at |-> x.at]}
    BY <1>2, <1>3, <2>1 DEF Stored
  <2>3. {[nr |-> i, at |-> c[i].at] :
           i \in {j \in Survivors(c, d) : c[j].at >= x.cutoff}}
          = {t \in Stored(c, d) : t.at >= x.cutoff}
    BY DEF Stored
  <2>4. QED
    BY <1>1, <1>4, <2>2, <2>3
<1>5. CASE x.device # d
  <2>1. Survivors(q, d) = Survivors(c, d)
    BY <1>1, <1>5, SurvivorsAfter
  <2>2. Stored(q, d) = Stored(c, d)
    BY <1>3, <2>1 DEF Stored
  <2>3. QED
    BY <1>1, <1>5, <2>2
<1>6. QED
  BY <1>4, <1>5

\* Equal times are kept apart, so what is stored is counted once each.
LEMMA StoredCount ==
  ASSUME NEW c \in Seq(Anomaly), NEW d
  PROVE  Cardinality(Stored(c, d)) = Cardinality(Survivors(c, d))
<1>1. IsFiniteSet(Survivors(c, d))
  <2>1. IsFiniteSet(1..Len(c))
    BY FS_Interval
  <2>2. Survivors(c, d) \in SUBSET (1..Len(c))
    BY DEF Survivors
  <2>3. QED
    BY <2>1, <2>2, FS_Subset
<1>2. PICK S : S = Survivors(c, d)
  OBVIOUS
<1>3. PICK b : b = [i \in S |-> [nr |-> i, at |-> c[i].at]]
  OBVIOUS
<1>4. b \in [S -> Stored(c, d)] /\ \A i \in S : b[i].nr = i
  BY <1>2, <1>3 DEF Stored
<1>5. \A t \in Stored(c, d) : \E i \in S : b[i] = t
  BY <1>2, <1>3 DEF Stored
<1>6. b \in Bijection(S, Stored(c, d))
  BY <1>4, <1>5 DEF Bijection, Injection, Surjection, IsInjective
<1>7. ExistsBijection(S, Stored(c, d))
  BY <1>6 DEF ExistsBijection
<1>8. QED
  BY <1>1, <1>2, <1>7, FS_Bijection

\* Cardinality means one thing in both modules.
LEMMA SameCardinality == \A S : C!Cardinality(S) = Cardinality(S)
BY DEF Cardinality, C!Cardinality

\* The tracker starts empty, and so does the history.
LEMMA CountsStart == C!Init => CountsInv
<1> SUFFICES ASSUME C!Init PROVE CountsInv
  OBVIOUS
<1>1. CountsTypeOK
  BY DEF C!Init, CountsTypeOK
<1>2. TrackerHolds
  BY DEF C!Init, TrackerHolds, Stored, Survivors
<1>3. VerdictIsLatest
  BY DEF C!Init, C!Unknown, VerdictIsLatest
<1>4. QED
  BY <1>1, <1>2, <1>3 DEF CountsInv

\* Every step of the consumer, the rule cache and the editors keeps the invariant.
LEMMA CountsStep == CountsInv /\ [C!Next]_counts => CountsInv'
<1> SUFFICES ASSUME CountsInv, [C!Next]_counts PROVE CountsInv'
  OBVIOUS
<1>1. CountsTypeOK /\ TrackerHolds /\ VerdictIsLatest
  BY DEF CountsInv
<1>2. ASSUME NEW v \in Versions \cup {NoRule}, C!EditRule(v) PROVE CountsInv'
  <2>1. UNCHANGED <<cached, seen, verdict, counted>> /\ rule' = v
    BY <1>2 DEF C!EditRule
  <2>2. CountsTypeOK'
    BY <1>1, <2>1 DEF CountsTypeOK
  <2>3. TrackerHolds' /\ VerdictIsLatest'
    BY <1>1, <2>1 DEF TrackerHolds, VerdictIsLatest
  <2>4. QED
    BY <2>2, <2>3 DEF CountsInv
<1>3. CASE C!refresh
  <2>1. UNCHANGED <<rule, seen, verdict, counted>> /\ cached' = rule
    BY <1>3 DEF C!refresh
  <2>2. CountsTypeOK'
    BY <1>1, <2>1 DEF CountsTypeOK
  <2>3. TrackerHolds' /\ VerdictIsLatest'
    BY <1>1, <2>1 DEF TrackerHolds, VerdictIsLatest
  <2>4. QED
    BY <2>2, <2>3 DEF CountsInv
<1>4. ASSUME NEW d \in Devices, NEW at \in Times, NEW value \in Values,
             C!CountAnomaly(d, at, value)
      PROVE  CountsInv'
  <2>1. cached \in Versions /\ cached.condition = "ANOMALY_COUNT"
    BY <1>1, <1>4 DEF C!CountAnomaly, C!Applies, C!Counts, CountsTypeOK
  <2>2. /\ at \in Int /\ cached.window \in Nat /\ cached # NoRule
        /\ cached.threshold \in Int \cup {Null}
    BY <2>1, WindowAssumptions, RuleAssumptions
  <2>3. PICK x : x = [device |-> d, at |-> at, cutoff |-> at - cached.window]
    OBVIOUS
  <2>4. x \in Anomaly /\ x.device = d /\ x.at = at /\ x.cutoff = at - cached.window
    BY <2>2, <2>3 DEF Anomaly
  <2>5. /\ counted' = Append(counted, x)
        /\ seen' = [seen EXCEPT ![d] = C!Recorded(d, at)]
        /\ verdict' = [rule |-> cached, device |-> d, at |-> at,
                       count |-> C!Cardinality(C!Recorded(d, at)),
                       due |-> C!condition_matches(cached, value,
                                 C!Cardinality(C!Recorded(d, at)))]
        /\ UNCHANGED <<rule, cached>>
    BY <1>4, <2>3 DEF C!CountAnomaly
  <2>6. counted \in Seq(Anomaly) /\ DOMAIN seen = Devices
    BY <1>1 DEF CountsTypeOK
  <2>7. CountsTypeOK'
    BY <1>1, <2>4, <2>5, <2>6 DEF CountsTypeOK
  <2>8. C!Recorded(d, at) = Stored(counted', d)
    <3>1. seen[d] = Stored(counted, d)
      BY <1>1 DEF TrackerHolds
    <3>2. Stored(Append(counted, x), d) =
            {t \in Stored(counted, d) : t.at >= x.cutoff}
              \cup {[nr |-> Len(counted) + 1, at |-> x.at]}
      BY <2>4, <2>6, StoredAfter
    <3>3. QED
      BY <2>4, <2>5, <3>1, <3>2 DEF C!Recorded, C!Kept
  <2>9. seen'[d] = Stored(counted', d)
    BY <2>5, <2>6, <2>8
  <2>10. ASSUME NEW e \in Devices, e # d PROVE seen'[e] = Stored(counted', e)
    <3>1. Stored(Append(counted, x), e) = Stored(counted, e)
      BY <2>4, <2>6, <2>10, StoredAfter
    <3>2. seen'[e] = seen[e] /\ seen[e] = Stored(counted, e)
      BY <1>1, <2>5, <2>6, <2>10 DEF TrackerHolds
    <3>3. QED
      BY <2>5, <3>1, <3>2
  <2>11. TrackerHolds'
    BY <2>9, <2>10 DEF TrackerHolds
  <2>12. PICK n : n = C!Cardinality(C!Recorded(d, at))
    OBVIOUS
  <2>13. n = Cardinality(seen'[d])
    BY <2>8, <2>9, <2>12, SameCardinality
  <2>14. /\ verdict'.rule = cached /\ verdict'.device = d /\ verdict'.at = at
         /\ verdict'.count = n
         /\ verdict'.due = C!condition_matches(cached, value, n)
    BY <2>5, <2>12
  <2>15. C!condition_matches(cached, value, n)
           <=> cached.threshold # Null /\ n >= cached.threshold
    BY <2>1 DEF C!condition_matches
  <2>16. /\ counted' # <<>>
         /\ counted'[Len(counted')] = x
    BY <2>4, <2>5, <2>6
  <2>17. VerdictIsLatest'
    BY <2>1, <2>2, <2>3, <2>13, <2>14, <2>15, <2>16 DEF VerdictIsLatest
  <2>18. QED
    BY <2>7, <2>11, <2>17 DEF CountsInv
<1>5. ASSUME NEW d \in Devices, NEW at \in Times, NEW value \in Values,
             C!CompareAnomaly(d, at, value)
      PROVE  CountsInv'
  <2>1. UNCHANGED <<rule, cached, seen, counted>>
    BY <1>5 DEF C!CompareAnomaly
  <2>2. verdict'.rule.condition # "ANOMALY_COUNT"
    BY <1>5 DEF C!CompareAnomaly, C!Counts
  <2>3. CountsTypeOK'
    BY <1>1, <2>1 DEF CountsTypeOK
  <2>4. TrackerHolds' /\ VerdictIsLatest'
    BY <1>1, <2>1, <2>2 DEF TrackerHolds, VerdictIsLatest
  <2>5. QED
    BY <2>3, <2>4 DEF CountsInv
<1>6. CASE C!Restart
  <2>1. /\ seen' = [d \in Devices |-> {}] /\ counted' = <<>>
        /\ verdict' = C!Unknown /\ cached' = rule /\ UNCHANGED rule
    BY <1>6 DEF C!Restart
  <2>2. CountsTypeOK'
    BY <1>1, <2>1 DEF CountsTypeOK
  <2>3. TrackerHolds'
    BY <2>1 DEF TrackerHolds, Stored, Survivors
  <2>4. VerdictIsLatest'
    BY <2>1 DEF VerdictIsLatest, C!Unknown
  <2>5. QED
    BY <2>2, <2>3, <2>4 DEF CountsInv
<1>7. CASE UNCHANGED counts
  <2>1. UNCHANGED <<rule, cached, seen, verdict, counted>>
    BY <1>7 DEF counts
  <2>2. QED
    BY <1>1, <2>1 DEF CountsInv, CountsTypeOK, TrackerHolds, VerdictIsLatest
<1>8. QED
  BY <1>2, <1>3, <1>4, <1>5, <1>6, <1>7 DEF C!Next

\* Without an earlier, narrower cut-off the survivors are the anomalies within
\* the window.
LEMMA CountsInvExact == CountsInv => CountIsExact
<1> DEFINE past == {i \in DOMAIN counted : counted[i].device = verdict.device}
           cutoff == verdict.at - verdict.rule.window
           within == {i \in past : counted[i].at \in cutoff..verdict.at}
<1> SUFFICES ASSUME CountsInv, verdict.rule # NoRule,
                    verdict.rule.condition = "ANOMALY_COUNT",
                    \A i \in past : counted[i].at <= verdict.at
                                    /\ counted[i].cutoff <= cutoff
             PROVE  /\ verdict.count = C!Cardinality(within)
                    /\ verdict.due <=> /\ verdict.rule.threshold # Null
                                       /\ C!Cardinality(within) >= verdict.rule.threshold
  BY DEF CountIsExact, C!CountIsExact
<1>1. PICK d \in Devices : d = verdict.device
  BY DEF CountsInv, VerdictIsLatest
<1>2. PICK n : n = Len(counted)
  OBVIOUS
<1>3. /\ counted \in Seq(Anomaly) /\ n \in DOMAIN counted /\ DOMAIN counted \subseteq Nat
      /\ \A i \in DOMAIN counted : i <= n
  BY <1>2 DEF CountsInv, CountsTypeOK, VerdictIsLatest
<1>4. \A i \in DOMAIN counted : counted[i].at \in Int /\ counted[i].cutoff \in Int
  BY <1>3, AnomalyFields
<1>5. verdict.at \in Int /\ verdict.rule.window \in Nat /\ cutoff \in Int
      /\ cutoff <= verdict.at
  BY RuleAssumptions DEF CountsInv, VerdictIsLatest
<1>6. /\ counted[n].device = d /\ counted[n].at = verdict.at
      /\ counted[n].cutoff = cutoff
  BY <1>1, <1>2 DEF CountsInv, VerdictIsLatest
<1>7. \A i \in past : i \in Survivors(counted, d) <=> counted[i].at >= cutoff
  <2>1. ASSUME NEW i \in past, i \in Survivors(counted, d) PROVE counted[i].at >= cutoff
    <3>1. i \in DOMAIN counted /\ (i = n \/ n > i)
      BY <1>3, <2>1
    <3>2. CASE i = n
      BY <1>5, <1>6, <3>2
    <3>3. CASE n > i
      BY <1>3, <1>6, <2>1, <3>3 DEF Survivors
    <3>4. QED
      BY <3>1, <3>2, <3>3
  <2>2. ASSUME NEW i \in past, counted[i].at >= cutoff PROVE i \in Survivors(counted, d)
    <3>1. ASSUME NEW k \in DOMAIN counted, counted[k].device = d
          PROVE  counted[i].at >= counted[k].cutoff
      <4>1. k \in past /\ i \in DOMAIN counted
        BY <1>1, <3>1
      <4>2. counted[k].cutoff <= cutoff
        BY <4>1
      <4>3. QED
        BY <1>4, <1>5, <2>2, <4>1, <4>2
    <3>2. QED
      BY <1>1, <3>1 DEF Survivors
  <2>3. QED
    BY <2>1, <2>2
<1>8. within = Survivors(counted, d)
  <2>1. \A i \in past : counted[i].at \in cutoff..verdict.at <=> counted[i].at >= cutoff
    BY <1>4, <1>5
  <2>2. Survivors(counted, d) \subseteq past
    BY <1>1 DEF Survivors
  <2>3. QED
    BY <1>7, <2>1, <2>2
<1>9. verdict.count = C!Cardinality(within)
  <2>1. verdict.count = Cardinality(Stored(counted, d))
    BY <1>1 DEF CountsInv, VerdictIsLatest, TrackerHolds
  <2>2. QED
    BY <1>3, <1>8, <2>1, StoredCount, SameCardinality
<1>10. verdict.due <=> /\ verdict.rule.threshold # Null
                       /\ verdict.count >= verdict.rule.threshold
  BY DEF CountsInv, VerdictIsLatest
<1>11. QED
  BY <1>9, <1>10

-----------------------------------------------------------------------------
(* The composition.  Nothing below uses that one half waits for the other: *)
(* the results hold for every interleaving of the two.                     *)

\* A step of the composition is a step, or none, of each half.
LEMMA WindowsSplit ==
  [WindowsNext]_<<windows, counts>> => [W!Next]_windows /\ [C!Next]_counts
BY DEF WindowsNext

\* For any windows and any readings, in any order and at any time of the
\* flush, an aggregate that is written says of its window exactly what all
\* readings added by then say, unless a reading is ahead of the flush by more
\* than the longest window exceeds this one.
THEOREM WindowsAggregateExactly == WindowsSpec => []AggregatesAreExact
<1>1. WindowsInit => WindowsInv
  BY WindowsStart DEF WindowsInit
<1>2. WindowsInv /\ [WindowsNext]_<<windows, counts>> => WindowsInv'
  BY WindowsStep, WindowsSplit
<1>3. WindowsInv => AggregatesAreExact
  BY DEF WindowsInv
<1>4. QED
  BY <1>1, <1>2, <1>3, PTL DEF WindowsSpec

\* The buffer holds the readings in order of event time and has lost none but
\* those the longest window before some reading leaves out: the trim never
\* drops a reading because of the order in which readings came.
THEOREM BufferKeepsWindow == WindowsSpec => []BufferHolds
<1>1. WindowsInit => WindowsInv
  BY WindowsStart DEF WindowsInit
<1>2. WindowsInv /\ [WindowsNext]_<<windows, counts>> => WindowsInv'
  BY WindowsStep, WindowsSplit
<1>3. WindowsInv => BufferHolds
  BY DEF WindowsInv
<1>4. QED
  BY <1>1, <1>2, <1>3, PTL DEF WindowsSpec

\* For any devices and rules, an ANOMALY_COUNT rule is due at the newest
\* anomaly of a device exactly when its threshold of anomalies has come since
\* the cut-off, provided no earlier evaluation looked back less far.
THEOREM CountsAreExact == WindowsSpec => []CountIsExact
<1>1. WindowsInit => CountsInv
  BY CountsStart DEF WindowsInit
<1>2. CountsInv /\ [WindowsNext]_<<windows, counts>> => CountsInv'
  BY CountsStep, WindowsSplit
<1>3. QED
  BY <1>1, <1>2, CountsInvExact, PTL DEF WindowsSpec

\* Without any proviso: the tracker holds for each device exactly the
\* anomalies that every later evaluation of the device left standing.
THEOREM TrackerIsExact == WindowsSpec => []TrackerHolds
<1>1. WindowsInit => CountsInv
  BY CountsStart DEF WindowsInit
<1>2. CountsInv /\ [WindowsNext]_<<windows, counts>> => CountsInv'
  BY CountsStep, WindowsSplit
<1>3. CountsInv => TrackerHolds
  BY DEF CountsInv
<1>4. QED
  BY <1>1, <1>2, <1>3, PTL DEF WindowsSpec
=============================================================================
