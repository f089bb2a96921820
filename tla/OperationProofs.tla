-------------------------- MODULE OperationProofs ---------------------------
(***************************************************************************)
(* Theorems about requests, tasks and loops that read a record and write   *)
(* it later, each in turn with any number of others: the default policies, *)
(* the rates of a pass, the report schedules, the status of an interface,  *)
(* the retention of raw data, saved commands, bulkstats counters, the      *)
(* import of devices, the services, the audit trail, the roles and the     *)
(* backups of configurations.                                              *)
(***************************************************************************)
EXTENDS CounterRates, PolicySuite, ReportSchedules, InterfaceAdmin,
        RetentionPolicy, CommandRuns, IngestStats, BulkImport, ServiceCatalog,
        AccountTrail, RoleCatalog, ConfigBackups, FiniteSetTheorems,
        SequenceTheorems, WellFoundedInduction, TLAPS

-----------------------------------------------------------------------------
(* PolicySuite: a caller that has seen no row may still make one.          *)
SuiteInv ==
  /\ copies \in Nat
  /\ missing \subseteq Caller
  /\ copies + Cardinality(missing) <= Cardinality(Caller)

LEMMA CallersMissing ==
  ASSUME missing \subseteq Caller
  PROVE  /\ Cardinality(Caller) \in Nat
         /\ Cardinality(missing) \in Nat
         /\ Cardinality(missing) <= Cardinality(Caller)
         /\ IsFiniteSet(missing)
BY SuiteAssumption, FS_Subset, FS_CardinalityType DEF SuiteAssumption

LEMMA SuiteInitInv == SuiteInit => SuiteInv
BY SuiteAssumption, FS_EmptySet, FS_CardinalityType DEF SuiteInit, SuiteInv, SuiteAssumption

LEMMA SuiteStepInv == SuiteInv /\ [SuiteNext]_suite_vars => SuiteInv'
<1> SUFFICES ASSUME SuiteInv, [SuiteNext]_suite_vars
             PROVE  SuiteInv'
  OBVIOUS
<1>0. /\ Cardinality(Caller) \in Nat
      /\ Cardinality(missing) \in Nat
      /\ IsFiniteSet(missing)
  BY CallersMissing DEF SuiteInv
<1>1. CASE Remove
  BY <1>0, <1>1 DEF Remove, SuiteInv
<1>2. ASSUME NEW c \in Caller, Look(c)
      PROVE  SuiteInv'
  <2>1. CASE copies = 0
    <3>1. missing' = missing \cup {c} /\ copies' = 0 /\ missing' \subseteq Caller
      BY <1>2, <2>1 DEF Look, SuiteInv
    <3>2. Cardinality(missing') \in Nat /\ Cardinality(missing') <= Cardinality(Caller)
      BY <3>1, SuiteAssumption, FS_Subset, FS_CardinalityType DEF SuiteAssumption
    <3> QED
      BY <3>1, <3>2 DEF SuiteInv
  <2>2. CASE copies # 0
    BY <1>2, <2>2 DEF Look, SuiteInv
  <2> QED
    BY <2>1, <2>2
<1>3. ASSUME NEW c \in Caller, Create(c)
      PROVE  SuiteInv'
  <2>1. Cardinality(missing') = Cardinality(missing) - 1
    BY <1>0, <1>3, FS_RemoveElement DEF Create
  <2>2. copies' \in Nat /\ copies' <= copies + 1 /\ missing' \subseteq Caller
    BY <1>3 DEF Create, SuiteInv
  <2> QED
    BY <1>0, <2>1, <2>2 DEF SuiteInv
<1>4. CASE UNCHANGED suite_vars
  BY <1>4 DEF suite_vars, SuiteInv
<1> QED
  BY <1>1, <1>2, <1>3, <1>4 DEF SuiteNext

(* There are never more copies of a default policy than callers, however   *)
(* many pollers and requests there are and whatever is deleted meanwhile.  *)
THEOREM SuiteCopiesBounded == SuiteSpec => []SuiteCopies
<1>1. SuiteInv => SuiteCopies
  BY CallersMissing DEF SuiteInv, SuiteCopies
<1> QED
  BY <1>1, SuiteInitInv, SuiteStepInv, PTL DEF SuiteSpec

-----------------------------------------------------------------------------
(* CounterRates.  A reading is a counter that stands for some octets.      *)
Readings == {r \in [counter : Nat, octets : Nat, boots : Nat] : r.counter = r.octets % modulus}

Snapshots == [of : {"answer"}, ts : Nat, reading : Readings]

Rates ==
  [of : {"rate"}, delta : Int, elapsed : Int, new : Readings, prev : Readings]

RatesInv ==
  /\ clock \in Nat
  /\ octets \in Nat
  /\ boots \in Nat
  /\ modulus \in {Small, Big}
  /\ poll \in [Polling -> {Nothing} \cup [of : {"time"}, ts : Nat] \cup Snapshots]
  /\ snapshot \in {Nothing} \cup Snapshots
  /\ \/ rate = Nothing
     \/ rate \in Rates /\ rate.delta = Delta(rate.new.counter, rate.prev.counter)

\* Between two counts less than m apart a counter that wraps at m goes up
\* by their difference, or that and a turn back.
LEMMA ModuloOf ==
  ASSUME NEW m \in Nat \ {0}, NEW a \in Nat
  PROVE  \E q \in Nat : a = m * q + (a % m) /\ a % m \in 0..m - 1
  <1>1. a = m * (a \div m) + (a % m) /\ a % m \in 0..m - 1
    OBVIOUS
  <1>2. a \div m \in Nat
    OBVIOUS
  <1> QED
    BY <1>1, <1>2

LEMMA OneTurn ==
  ASSUME NEW m \in Nat \ {0}, NEW d \in Int, d < 2 * m, d > - m - 1 + 1, NEW k \in Int, d = m * k
  PROVE  k \in {0, 1}
  <1>1. CASE k >= 2
    <2>1. m * k >= m * 2
      BY <1>1, SMTT(30)
    <2> QED
      BY <2>1
  <1>2. CASE k <= -1
    <2>1. m * k <= m * (-1)
      BY <1>2, SMTT(30)
    <2> QED
      BY <2>1
  <1> QED
    BY <1>1, <1>2

LEMMA CounterSteps ==
  ASSUME NEW m \in Nat \ {0}, NEW a \in Nat, NEW b \in Nat, b - a \in 0..m - 1
  PROVE  \/ b % m = (a % m) + (b - a)
         \/ b % m = (a % m) + (b - a) - m
  <1>1. PICK q \in Nat : a = m * q + (a % m) /\ a % m \in 0..m - 1
    BY ModuloOf
  <1>2. PICK r \in Nat : b = m * r + (b % m) /\ b % m \in 0..m - 1
    BY ModuloOf
  <1> DEFINE x == a % m
             y == b % m
             d == x + (b - a) - y
  <1>3. x \in 0..m - 1 /\ y \in 0..m - 1
    BY <1>1, <1>2
  <1>4. d = m * (r - q)
    <2>1. m * (r - q) = m * r - m * q
      BY SMTT(30)
    <2>2. a = m * q + x /\ b = m * r + y
      BY <1>1, <1>2
    <2>3. m * r \in Int /\ m * q \in Int
      OBVIOUS
    <2> HIDE DEF x, y
    <2> QED
      BY <2>1, <2>2, <2>3, <1>3
  <1>5. d \in Int /\ d < 2 * m /\ d > - m
    <2> HIDE DEF x, y
    <2> QED
      BY <1>3
  <1>6. r - q \in {0, 1}
    <2> HIDE DEF d
    <2> QED
      BY <1>4, <1>5, OneTurn
  <1>7. m * 0 = 0 /\ m * 1 = m
    OBVIOUS
  <1> HIDE DEF x, y
  <1>8. x + (b - a) - y = 0 \/ x + (b - a) - y = m
    BY <1>4, <1>6, <1>7
  <1>9. y = x + (b - a) \/ y = x + (b - a) - m
    BY <1>8, <1>3
  <1> QED
    BY <1>9 DEF x, y

\* So the mapper's difference is what was counted.
LEMMA DeltaExact ==
  ASSUME NEW m \in {Small, Big}, NEW a \in Nat, NEW b \in Nat, b - a \in 0..m - 1,
         m = Big => b - a <= Big - Small
  PROVE  Delta(b % m, a % m) = b - a
  <1>1. m \in Nat \ {0} /\ Small \in Nat \ {0} /\ Big \in Nat \ {0} /\ Small <= Big
    BY RatesAssumption
  <1>2. a % m \in 0..m - 1 /\ b % m \in 0..m - 1
    BY <1>1, ModuloOf
  <1>3. b % m = (a % m) + (b - a) \/ b % m = (a % m) + (b - a) - m
    BY <1>1, CounterSteps
  <1> DEFINE x == a % m
             y == b % m
  <1>4. x \in 0..m - 1 /\ y \in 0..m - 1 /\ (y = x + (b - a) \/ y = x + (b - a) - m)
    BY <1>2, <1>3
  <1> HIDE DEF x, y
  <1>5. Delta(y, x) = b - a
    <2>1. CASE y = x + (b - a)
      BY <2>1, <1>1, <1>4 DEF Delta
    <2>2. CASE y = x + (b - a) - m /\ m = Small
      <3>1. y < x /\ x < Small
        BY <2>2, <1>1, <1>4
      <3> QED
        BY <3>1, <2>2, <1>1, <1>4 DEF Delta
    <2>3. CASE y = x + (b - a) - m /\ m = Big
      <3>1. y < x /\ x >= Small
        BY <2>3, <1>1, <1>4
      <3> QED
        BY <3>1, <2>3, <1>1, <1>4 DEF Delta
    <2> QED
      BY <2>1, <2>2, <2>3, <1>4
  <1> QED
    BY <1>5 DEF x, y

LEMMA ReadingsExact == RatesInv => RateExact
  <1> SUFFICES ASSUME RatesInv, rate # Nothing,
                      rate.new.octets - rate.prev.octets \in 0..modulus - 1,
                      modulus = Big => rate.new.octets - rate.prev.octets <= Big - Small
               PROVE  rate.delta = rate.new.octets - rate.prev.octets
    BY DEF RateExact
  <1>1. rate \in Rates /\ rate.delta = Delta(rate.new.counter, rate.prev.counter)
    BY DEF RatesInv
  <1>2. /\ rate.new.octets \in Nat /\ rate.new.counter = rate.new.octets % modulus
        /\ rate.prev.octets \in Nat /\ rate.prev.counter = rate.prev.octets % modulus
    BY <1>1 DEF Rates, Readings
  <1>3. modulus \in {Small, Big}
    BY DEF RatesInv
  <1> QED
    BY <1>1, <1>2, <1>3, DeltaExact

LEMMA RatesInitInv == RatesInit => RatesInv
  BY DEF RatesInit, RatesInv

LEMMA RatesStepInv == RatesInv /\ [RatesNext]_rates_vars => RatesInv'
  <1> SUFFICES ASSUME RatesInv, [RatesNext]_rates_vars
               PROVE  RatesInv'
    OBVIOUS
  <1> USE DEF RatesInv
  <1>1. CASE NewEngine
    BY <1>1 DEF NewEngine, Readings, Snapshots
  <1>2. ASSUME NEW p \in Polling, StartPoll(p)
        PROVE  RatesInv'
    BY <1>2 DEF StartPoll, Readings, Snapshots
  <1>3. ASSUME NEW p \in Polling, Answer(p)
        PROVE  RatesInv'
    <2>1. Reading \in Readings
      <3>1. modulus \in Nat \ {0}
        BY RatesAssumption
      <3>2. octets % modulus \in Nat
        BY <3>1
      <3> QED
        BY <3>2 DEF Reading, Counter, Readings
    <2>2. poll[p].of = "time" /\ poll[p] \in {Nothing} \cup [of : {"time"}, ts : Nat] \cup Snapshots
      BY <1>3 DEF Answer
    <2>3. poll[p].ts \in Nat
      BY <2>2 DEF Snapshots, Nothing
    <2>4. [of |-> "answer", ts |-> poll[p].ts, reading |-> Reading] \in Snapshots
      BY <2>1, <2>3 DEF Snapshots
    <2>5. Readings' = Readings /\ Snapshots' = Snapshots
      BY <1>3 DEF Answer, Readings, Snapshots
    <2>6. poll' \in [Polling -> {Nothing} \cup [of : {"time"}, ts : Nat] \cup Snapshots']
      BY <1>3, <2>4, <2>5 DEF Answer
    <2> QED
      BY <1>3, <2>5, <2>6 DEF Answer
  <1>4. ASSUME NEW p \in Polling, NoAnswer(p)
        PROVE  RatesInv'
    BY <1>4 DEF NoAnswer, Readings, Snapshots
  <1>5. ASSUME NEW p \in Polling, MapInterfaces(p)
        PROVE  RatesInv'
    <2>1. Readings' = Readings /\ Snapshots' = Snapshots /\ Rates' = Rates
      BY <1>5 DEF MapInterfaces, Readings, Snapshots, Rates
    <2>2. poll[p] \in Snapshots
      <3>1. poll[p].of = "answer" /\ poll[p] \in {Nothing} \cup [of : {"time"}, ts : Nat] \cup Snapshots
        BY <1>5 DEF MapInterfaces
      <3> QED
        BY <3>1 DEF Nothing
    <2>3. snapshot' \in Snapshots'
      BY <1>5, <2>1, <2>2 DEF MapInterfaces
    <2>4. poll' \in [Polling -> {Nothing} \cup [of : {"time"}, ts : Nat] \cup Snapshots']
      BY <1>5, <2>1 DEF MapInterfaces
    <2> DEFINE new     == poll[p].reading
               prev    == snapshot.reading
               elapsed == poll[p].ts - snapshot.ts
               made    == [of |-> "rate", delta |-> Delta(new.counter, prev.counter),
                           elapsed |-> elapsed, new |-> new, prev |-> prev]
    <2>5. CASE snapshot = Nothing \/ elapsed <= 0
      <3>1. rate' = Nothing
        BY <1>5, <2>5 DEF MapInterfaces
      <3> QED
        BY <1>5, <3>1, <2>3, <2>4 DEF MapInterfaces
    <2>6. CASE ~(snapshot = Nothing \/ elapsed <= 0)
      <3>1. rate' = made
        BY <1>5, <2>6 DEF MapInterfaces
      <3>2. snapshot \in Snapshots
        BY <2>6
      <3>3. new \in Readings /\ prev \in Readings /\ elapsed \in Int
        BY <2>2, <3>2 DEF Snapshots
      <3>4. Delta(new.counter, prev.counter) \in Int
        <4>1. new.counter \in Nat /\ prev.counter \in Nat
          BY <3>3 DEF Readings
        <4> HIDE DEF new, prev
        <4> QED
          BY <4>1, RatesAssumption DEF Delta
      <3>5. made \in Rates /\ made.delta = Delta(made.new.counter, made.prev.counter)
        BY <3>3, <3>4 DEF Rates
      <3>6. rate' \in Rates' /\ rate'.delta = Delta(rate'.new.counter, rate'.prev.counter)
        BY <3>1, <3>5, <2>1
      <3> QED
        BY <1>5, <3>6, <2>3, <2>4 DEF MapInterfaces, Delta
    <2> QED
      BY <2>5, <2>6
  <1>6. CASE Traffic
    BY <1>6 DEF Traffic, Readings, Snapshots
  <1>7. CASE Reboot
    BY <1>7 DEF Reboot, Readings, Snapshots
  <1>8. CASE Passes
    BY <1>8 DEF Passes, Readings, Snapshots
  <1>9. CASE UNCHANGED rates_vars
    BY <1>9 DEF rates_vars, Readings, Snapshots, Rates, Delta
  <1> QED
    BY <1>1, <1>2, <1>3, <1>4, <1>5, <1>6, <1>7, <1>8, <1>9 DEF RatesNext

(* A recorded rate is of what the interface counted, for any widths, any   *)
(* number of polls under way and any traffic, as long as the counter went  *)
(* around at most once and the device did not restart in between.          *)
THEOREM RatesAreExact == RatesSpec => []RateExact
  <1>1. RatesInit => RatesInv
    BY RatesInitInv
  <1>2. RatesInv /\ [RatesNext]_rates_vars => RatesInv'
    BY RatesStepInv
  <1>3. RatesInv => RateExact
    BY ReadingsExact
  <1> QED
    BY <1>1, <1>2, <1>3, PTL DEF RatesSpec

-----------------------------------------------------------------------------
(* ReportSchedules.  An artefact is old when there are enough newer ones,  *)
(* counting those that are deleted by now.                                 *)
Old(s) == least # 0 /\ Cardinality(Newer(s, stored)) >= least

\* A value of retain_last is within the bounds the history keeps.
Within(n) == n <= most /\ (n # 0 => least # 0 /\ least <= n)

(* What a job may be: it holds a retain_last the schedule has had, and     *)
(* deletes only what is old.                                               *)
Fits(j) ==
  \/ j \in {NoJob, [at |-> "fetch"]}
  \/ \E step \in {"generate", "prune"}, s \in 1..starts, n \in Keep :
       j = [at |-> step, stamp |-> s, keep |-> n] /\ Within(n)
  \/ \E stale \in SUBSET (1..starts) :
       j = [at |-> "delete", stale |-> stale] /\ \A s \in stale : Old(s)

\* What is going to be deleted.
Marked(s) == \E r \in Runner : At(r, "delete") /\ s \in job[r].stale

(* When nobody is about to prune, few artefacts are not marked.            *)
FewUnmarked ==
  (~unpruned /\ \A r \in Runner : ~At(r, "prune"))
    => Cardinality({s \in artefacts : ~Marked(s)}) <= most

Columns ==
  /\ schedule \in {"enabled", "disabled", "deleted"}
  /\ due \in BOOLEAN
  /\ keep \in Keep
  /\ starts \in 0..MaxStarts
  /\ artefacts \subseteq stored
  /\ stored \subseteq 1..starts
  /\ least \in Keep /\ most \in Keep
  /\ unpruned \in BOOLEAN

ReportInv ==
  /\ Columns
  /\ job = [r \in Runner |-> job[r]]
  /\ \A r \in Runner : Fits(job[r])
  /\ Within(keep)
  /\ \A s \in stored \ artefacts : Old(s)
  /\ FewUnmarked

-----------------------------------------------------------------------------
LEMMA StampsFinite ==
  ASSUME NEW n \in Nat, NEW S, S \subseteq 1..n
  PROVE  IsFiniteSet(S) /\ Cardinality(S) \in Nat
<1>1. IsFiniteSet(1..n)
  BY FS_Interval
<1>2. S \in SUBSET (1..n)
  OBVIOUS
<1>3. IsFiniteSet(S)
  BY <1>1, <1>2, FS_Subset
<1> QED
  BY <1>3, FS_CardinalityType

LEMMA MoreNewer ==
  ASSUME NEW n \in Nat, NEW S, NEW T, S \subseteq T, T \subseteq 1..n, NEW s
  PROVE  /\ Cardinality(Newer(s, S)) \in Nat
         /\ Cardinality(Newer(s, T)) \in Nat
         /\ Cardinality(Newer(s, S)) <= Cardinality(Newer(s, T))
<1>1. Newer(s, S) \subseteq Newer(s, T) /\ Newer(s, T) \subseteq 1..n
  BY DEF Newer
<1> QED
  BY <1>1, StampsFinite, FS_Subset

(* At most n of a set of stamps have less than n newer ones: each of them  *)
(* has another number of newer ones.                                       *)
LEMMA FewNewest ==
  ASSUME NEW m \in Nat, NEW S, S \subseteq 1..m, NEW n \in Nat
  PROVE  Cardinality({s \in S : ~(Cardinality(Newer(s, S)) >= n)}) <= n
<1> DEFINE N == {s \in S : ~(Cardinality(Newer(s, S)) >= n)}
           count == [s \in N |-> Cardinality(Newer(s, S))]
<1>1. \A s \in S : Cardinality(Newer(s, S)) \in Nat /\ IsFiniteSet(Newer(s, S))
  BY StampsFinite DEF Newer
<1>2. count \in [N -> 0..n - 1]
  <2>1. ASSUME NEW s \in N
        PROVE  Cardinality(Newer(s, S)) \in 0..n - 1
    <3>1. Cardinality(Newer(s, S)) \in Nat /\ ~(Cardinality(Newer(s, S)) >= n)
      BY <1>1
    <3> QED
      BY <3>1
  <2> QED
    BY <2>1
<1>3. ASSUME NEW s \in N, NEW t \in N, s < t
      PROVE  count[s] > count[t]
  <2>0. t \in S /\ s \in Int /\ t \in Int /\ \A u \in S : u \in Int
    OBVIOUS
  <2>1. Newer(t, S) \subseteq Newer(s, S) \ {t} /\ t \in Newer(s, S)
    <3>1. \A u \in S : u > t => u > s /\ u # t
      BY <1>3, <2>0
    <3>2. t > s
      BY <1>3, <2>0
    <3> QED
      BY <2>0, <3>1, <3>2 DEF Newer
  <2>2. Cardinality(Newer(s, S) \ {t}) = Cardinality(Newer(s, S)) - 1
    BY <1>1, <2>1, FS_RemoveElement
  <2>3. IsFiniteSet(Newer(s, S) \ {t})
    BY <1>1, FS_RemoveElement
  <2>4. Cardinality(Newer(t, S)) <= Cardinality(Newer(s, S) \ {t})
    BY <2>1, <2>3, FS_Subset
  <2> QED
    BY <1>1, <2>2, <2>4
<1>4. \A s, t \in N : count[s] = count[t] => s = t
  <2>1. \A s \in N : s \in Int
    <3>1. \A s \in N : s \in 1..m
      OBVIOUS
    <3> QED
      BY <3>1
  <2>2. \A s, t \in N : s = t \/ s < t \/ t < s
    BY <2>1
  <2>3. \A s \in N : count[s] \in Int
    BY <1>2
  <2> HIDE DEF N, count
  <2> QED
    BY <1>3, <2>2, <2>3
<1>5. count \in Injection(N, 0..n - 1)
  BY <1>2, <1>4 DEF Injection, IsInjective
<1>6. Cardinality(N) <= Cardinality(0..n - 1) /\ Cardinality(0..n - 1) = n
  BY <1>5, FS_Injection, FS_Interval
<1> QED
  BY <1>6

LEMMA KeepNat == Keep \subseteq Nat /\ MaxStarts \in Nat
BY ReportAssumption DEF ReportAssumption

LEMMA ColumnsNat ==
  ASSUME Columns
  PROVE  /\ keep \in Nat /\ least \in Nat /\ most \in Nat /\ starts \in Nat
         /\ stored \subseteq 1..starts /\ artefacts \subseteq 1..starts
BY KeepNat DEF Columns

LEMMA ReportInitInv == ReportInit => ReportInv
<1> SUFFICES ASSUME ReportInit
             PROVE  ReportInv
  OBVIOUS
<1>1. Columns
  <2>1. due \in BOOLEAN /\ unpruned \in BOOLEAN
    BY DEF ReportInit
  <2>2. starts = 0 /\ 0 \in 0..MaxStarts
    BY KeepNat DEF ReportInit
  <2> QED
    BY <2>1, <2>2 DEF ReportInit, Columns
<1>2. \A r \in Runner : job[r] = NoJob
  BY DEF ReportInit
<1>3. Within(keep)
  BY <1>1, ColumnsNat DEF ReportInit, Within
<1>4. FewUnmarked
  <2>1. {s \in artefacts : ~Marked(s)} = {}
    BY DEF ReportInit
  <2> QED
    BY <1>1, <2>1, ColumnsNat, FS_EmptySet DEF FewUnmarked
<1> QED
  BY <1>1, <1>2, <1>3, <1>4 DEF ReportInit, ReportInv, Fits

(* What is old stays old, and what a job holds stays within the bounds.    *)
LEMMA OldStaysOld ==
  ASSUME Columns, Columns', starts <= starts', stored \subseteq stored',
         least # 0 => least' # 0 /\ least' <= least, most <= most'
  PROVE  /\ \A s : Old(s) => Old(s)'
         /\ \A n \in Nat : Within(n) => Within(n)'
<1>1. /\ least \in Nat /\ least' \in Nat /\ most \in Nat /\ most' \in Nat
      /\ starts' \in Nat /\ stored' \subseteq 1..starts'
  BY KeepNat DEF Columns
<1>2. ASSUME NEW s, Old(s)
      PROVE  least' # 0 /\ Cardinality(Newer(s, stored')) >= least'
  <2>1. /\ Cardinality(Newer(s, stored)) \in Nat
        /\ Cardinality(Newer(s, stored')) \in Nat
        /\ Cardinality(Newer(s, stored)) <= Cardinality(Newer(s, stored'))
    BY <1>1, MoreNewer
  <2> QED
    BY <1>1, <1>2, <2>1 DEF Old
<1>3. ASSUME NEW n \in Nat, Within(n)
      PROVE  n <= most' /\ (n # 0 => least' # 0 /\ least' <= n)
  BY <1>1, <1>3 DEF Within
<1> QED
  BY <1>2, <1>3 DEF Old, Within, Newer

LEMMA FitsStill ==
  ASSUME Columns, Columns', starts <= starts', stored \subseteq stored',
         least # 0 => least' # 0 /\ least' <= least, most <= most',
         NEW r \in Runner, Fits(job[r]), job'[r] = job[r]
  PROVE  Fits(job[r])'
<1>1. /\ \A s : Old(s) => Old(s)'
      /\ \A n \in Nat : Within(n) => Within(n)'
  BY OldStaysOld
<1>2. 1..starts \subseteq 1..starts' /\ Keep \subseteq Nat
  BY KeepNat DEF Columns
<1>3. CASE job[r] \in {NoJob, [at |-> "fetch"]}
  BY <1>3 DEF Fits, NoJob
<1>4. CASE \E step \in {"generate", "prune"}, s \in 1..starts, n \in Keep :
             job[r] = [at |-> step, stamp |-> s, keep |-> n] /\ Within(n)
  <2>1. PICK step \in {"generate", "prune"}, s \in 1..starts, n \in Keep :
          job[r] = [at |-> step, stamp |-> s, keep |-> n] /\ Within(n)
    BY <1>4
  <2>2. s \in 1..starts' /\ Within(n)' /\ job'[r] = [at |-> step, stamp |-> s, keep |-> n]
    BY <1>1, <1>2, <2>1
  <2> QED
    BY <2>2 DEF Fits
<1>5. CASE \E stale \in SUBSET (1..starts) :
             job[r] = [at |-> "delete", stale |-> stale] /\ \A s \in stale : Old(s)
  <2>1. PICK stale \in SUBSET (1..starts) :
          job[r] = [at |-> "delete", stale |-> stale] /\ \A s \in stale : Old(s)
    BY <1>5
  <2>2. /\ stale \in SUBSET (1..starts')
        /\ job'[r] = [at |-> "delete", stale |-> stale]
        /\ \A s \in stale : Old(s)'
    BY <1>1, <1>2, <2>1
  <2> QED
    BY <2>2 DEF Fits
<1> QED
  BY <1>3, <1>4, <1>5 DEF Fits

LEMMA OneJob ==
  ASSUME ReportInv, Columns', starts <= starts', stored \subseteq stored',
         least # 0 => least' # 0 /\ least' <= least, most <= most',
         NEW r \in Runner, job' = [job EXCEPT ![r] = job'[r]], Fits(job[r])'
  PROVE  job' = [q \in Runner |-> job'[q]] /\ \A q \in Runner : Fits(job[q])'
<1>1. job = [q \in Runner |-> job[q]] /\ Columns /\ \A q \in Runner : Fits(job[q])
  BY DEF ReportInv
<1>2. \A q \in Runner : q # r => job'[q] = job[q]
  BY <1>1
<1>3. \A q \in Runner : q # r => Fits(job[q])'
  BY <1>1, <1>2, FitsStill
<1> QED
  BY <1>1, <1>3

LEMMA SameJobs ==
  ASSUME ReportInv, Columns', starts <= starts', stored \subseteq stored',
         least # 0 => least' # 0 /\ least' <= least, most <= most', job' = job
  PROVE  job' = [q \in Runner |-> job'[q]] /\ \A q \in Runner : Fits(job[q])'
BY FitsStill DEF ReportInv

\* Pruning and marking are no further behind than they were.
LEMMA FewUnmarkedStill ==
  ASSUME ReportInv, Columns', most <= most',
         \A q \in Runner : At(q, "prune") => At(q, "prune")',
         unpruned => unpruned',
         {s \in artefacts' : ~Marked(s)'} \subseteq {s \in artefacts : ~Marked(s)}
  PROVE  FewUnmarked'
<1>1. SUFFICES ASSUME ~unpruned', \A r \in Runner : ~At(r, "prune")'
               PROVE  Cardinality({s \in artefacts' : ~Marked(s)'}) <= most'
  BY DEF FewUnmarked
<1> DEFINE new == {s \in artefacts' : ~Marked(s)'}
           old == {s \in artefacts : ~Marked(s)}
<1>2. Cardinality(old) <= most
  BY <1>1 DEF ReportInv, FewUnmarked
<1>3. new \subseteq old /\ old \subseteq 1..starts /\ starts \in Nat /\ most \in Nat /\ most' \in Nat
  BY ColumnsNat, KeepNat DEF ReportInv, Columns
<1> HIDE DEF new, old
<1>4. IsFiniteSet(old) /\ Cardinality(old) \in Nat /\ Cardinality(new) \in Nat
  <2>1. new \subseteq 1..starts
    BY <1>3
  <2> QED
    BY <1>3, <2>1, StampsFinite
<1>5. Cardinality(new) <= Cardinality(old)
  BY <1>3, <1>4, FS_Subset
<1>6. Cardinality(new) <= most'
  BY <1>2, <1>3, <1>4, <1>5
<1> QED
  BY <1>6 DEF new

\* A step of one runner that neither prunes nor deletes leaves the marks.
LEMMA MarksStay ==
  ASSUME ReportInv, Columns', most <= most', unpruned' = unpruned, artefacts' = artefacts,
         NEW r \in Runner, job' = [job EXCEPT ![r] = job'[r]],
         ~At(r, "prune"), ~At(r, "delete"), ~At(r, "delete")'
  PROVE  FewUnmarked'
<1>1. \A q \in Runner : q # r => job'[q] = job[q]
  BY DEF ReportInv
<1>2. \A q \in Runner : At(q, "prune") => At(q, "prune")'
  BY <1>1 DEF At
<1>3. \A s : Marked(s) => Marked(s)'
  BY <1>1 DEF At, Marked
<1> QED
  BY <1>2, <1>3, FewUnmarkedStill

-----------------------------------------------------------------------------
LEMMA ReportBegins ==
  ASSUME ReportInv, NEW r \in Runner,
         ListDue(r) \/ AskForRun(r) \/ Fetch(r)
  PROVE  ReportInv'
<1>1. /\ UNCHANGED <<schedule, due, keep, artefacts, stored, bounds, unpruned>>
      /\ job' = [job EXCEPT ![r] = job'[r]]
      /\ ~At(r, "prune") /\ ~At(r, "delete")
  BY DEF ListDue, AskForRun, Fetch, Goto, At, ReportInv
<1>2. least' = least /\ most' = most
  BY <1>1 DEF bounds
<1>3. starts \in Nat /\ least \in Nat /\ most \in Nat /\ keep \in Nat /\ Columns
  BY ColumnsNat DEF ReportInv
<1>4. starts' \in 0..MaxStarts /\ starts <= starts'
  BY <1>3, KeepNat DEF ListDue, AskForRun, Fetch, Columns
<1>5. Columns'
  <2>1. stored \subseteq 1..starts'
    BY <1>3, <1>4 DEF Columns
  <2> QED
    BY <1>1, <1>2, <1>3, <1>4, <2>1 DEF Columns
<1>6. Fits(job[r])'
  <2>1. CASE job'[r] \in {NoJob, [at |-> "fetch"]}
    BY <2>1 DEF Fits, NoJob
  <2>2. CASE job'[r] \notin {NoJob, [at |-> "fetch"]}
    <3>1. /\ job'[r] = [at |-> "generate", stamp |-> starts', keep |-> keep']
          /\ starts' = starts + 1
      BY <1>1, <2>2 DEF ListDue, AskForRun, Fetch, Goto, ReportInv
    <3>2. starts' \in 1..starts' /\ keep' \in Keep /\ Within(keep)'
      BY <1>1, <1>2, <1>3, <3>1 DEF Columns, ReportInv, Within
    <3> QED
      BY <3>1, <3>2 DEF Fits
  <2> QED
    BY <2>1, <2>2
<1>7. job' = [q \in Runner |-> job'[q]] /\ \A q \in Runner : Fits(job[q])'
  BY <1>1, <1>2, <1>3, <1>4, <1>5, <1>6, OneJob
<1>8. ~At(r, "delete")'
  BY DEF ListDue, AskForRun, Fetch, Goto, At, ReportInv, NoJob
<1>9. FewUnmarked'
  BY <1>1, <1>2, <1>3, <1>5, <1>8, MarksStay
<1>10. Within(keep)' /\ \A s \in stored' \ artefacts' : Old(s)'
  BY <1>1, <1>2 DEF ReportInv, Within, Old, Newer
<1> QED
  BY <1>5, <1>7, <1>9, <1>10 DEF ReportInv

(* What a runner that generates, prunes or deletes holds.                  *)
LEMMA StampAndKeep ==
  ASSUME ReportInv, NEW r \in Runner, NEW step \in {"generate", "prune"}, At(r, step)
  PROVE  \E n \in Keep, s \in 1..starts :
           job[r] = [at |-> step, stamp |-> s, keep |-> n] /\ Within(n)
<1>1. Fits(job[r]) /\ job[r] # NoJob /\ job[r].at = step
  BY DEF ReportInv, At
<1>2. job[r] # [at |-> "fetch"]
  BY <1>1
<1>3. \A stale : job[r] # [at |-> "delete", stale |-> stale]
  BY <1>1
<1>4. \E i \in {"generate", "prune"}, s \in 1..starts, n \in Keep :
        job[r] = [at |-> i, stamp |-> s, keep |-> n] /\ Within(n)
  BY <1>1, <1>2, <1>3 DEF Fits
<1> QED
  BY <1>1, <1>4

LEMMA StaleIsOld ==
  ASSUME ReportInv, NEW r \in Runner, At(r, "delete")
  PROVE  \E stale \in SUBSET (1..starts) :
           job[r] = [at |-> "delete", stale |-> stale] /\ \A s \in stale : Old(s)
<1>1. Fits(job[r]) /\ job[r] # NoJob /\ job[r].at = "delete"
  BY DEF ReportInv, At
<1>2. job[r] # [at |-> "fetch"]
  BY <1>1
<1>3. \A i \in {"generate", "prune"} : \A s, n : job[r] # [at |-> i, stamp |-> s, keep |-> n]
  BY <1>1
<1> QED
  BY <1>1, <1>2, <1>3 DEF Fits

LEMMA StoreKeepsInv ==
  ASSUME ReportInv, NEW r \in Runner, Store(r)
  PROVE  ReportInv'
<1>1. PICK n \in Keep, s \in 1..starts :
        job[r] = [at |-> "generate", stamp |-> s, keep |-> n] /\ Within(n)
  <2>1. At(r, "generate")
    BY DEF Store
  <2> QED
    BY <2>1, StampAndKeep
<1>2. /\ UNCHANGED <<schedule, keep, starts, bounds, unpruned>>
      /\ due' \in BOOLEAN
      /\ artefacts' = artefacts \cup {s} /\ stored' = stored \cup {s}
      /\ job' = [job EXCEPT ![r] = [at |-> "prune", stamp |-> s, keep |-> n]]
  <2>1. job[r].stamp = s
    BY <1>1
  <2>2. [job[r] EXCEPT !.at = "prune"] = [at |-> "prune", stamp |-> s, keep |-> n]
    BY <1>1
  <2> QED
    BY <2>1, <2>2 DEF Store, Goto
<1>3. least' = least /\ most' = most
  BY <1>2 DEF bounds
<1>4. Columns /\ starts \in Nat /\ least \in Nat /\ most \in Nat
  BY ColumnsNat DEF ReportInv
<1>5. Columns'
  BY <1>2, <1>3, <1>4 DEF Columns
<1>6. /\ \A t : Old(t) => Old(t)'
      /\ \A i \in Nat : Within(i) => Within(i)'
  BY <1>2, <1>3, <1>4, <1>5, OldStaysOld
<1>7. Within(n)' /\ Within(keep)'
  BY <1>1, <1>2, <1>3 DEF Within, ReportInv
<1>8. job'[r] = [at |-> "prune", stamp |-> s, keep |-> n] /\ job' = [job EXCEPT ![r] = job'[r]]
  BY <1>2 DEF ReportInv
<1>9. Fits(job[r])'
  BY <1>1, <1>2, <1>7, <1>8 DEF Fits
<1>m. /\ starts <= starts' /\ stored \subseteq stored'
      /\ least # 0 => least' # 0 /\ least' <= least
      /\ most <= most'
  BY <1>2, <1>3, <1>4
<1>10. job' = [q \in Runner |-> job'[q]] /\ \A q \in Runner : Fits(job[q])'
  BY <1>m, <1>5, <1>8, <1>9, OneJob
<1>11. \A t \in stored' \ artefacts' : Old(t)'
  BY <1>2, <1>6 DEF ReportInv
<1>12. FewUnmarked'
  <2>1. At(r, "prune")'
    BY <1>8 DEF At, NoJob
  <2> QED
    BY <2>1 DEF FewUnmarked
<1> QED
  BY <1>5, <1>7, <1>10, <1>11, <1>12 DEF ReportInv

LEMMA PruneKeepsInv ==
  ASSUME ReportInv, NEW r \in Runner, Prune(r)
  PROVE  ReportInv'
<1>1. PICK n \in Keep, s \in 1..starts :
        job[r] = [at |-> "prune", stamp |-> s, keep |-> n] /\ Within(n)
  <2>1. At(r, "prune")
    BY DEF Prune
  <2> QED
    BY <2>1, StampAndKeep
<1>2. /\ UNCHANGED <<schedule, due, keep, artefacts, starts, stored, bounds>>
      /\ IF n = 0 THEN Goto(r, NoJob) /\ unpruned' = TRUE
         ELSE Goto(r, [at |-> "delete", stale |-> Beyond(n)]) /\ unpruned' = FALSE
  BY <1>1 DEF Prune
<1>3. least' = least /\ most' = most
  BY <1>2 DEF bounds
<1>4. /\ Columns /\ starts \in Nat /\ least \in Nat /\ most \in Nat /\ n \in Nat
      /\ artefacts \subseteq 1..starts /\ stored \subseteq 1..starts /\ artefacts \subseteq stored
  BY ColumnsNat, KeepNat DEF ReportInv, Columns
<1>5. Columns'
  <2>1. unpruned' \in BOOLEAN
    BY <1>2
  <2> QED
    BY <1>2, <1>3, <1>4, <2>1 DEF Columns
<1>6. Within(keep)' /\ \A t : Old(t) => Old(t)'
  BY <1>2, <1>3 DEF ReportInv, Within, Old, Newer
<1>7. \A t \in stored' \ artefacts' : Old(t)'
  BY <1>2, <1>6 DEF ReportInv
<1>8. CASE n = 0
  <2>1. job'[r] = NoJob /\ job' = [job EXCEPT ![r] = job'[r]] /\ unpruned'
    BY <1>2, <1>8 DEF Goto, ReportInv
  <2>2. Fits(job[r])'
    BY <2>1 DEF Fits, NoJob
  <2>3. job' = [q \in Runner |-> job'[q]] /\ \A q \in Runner : Fits(job[q])'
    BY <1>2, <1>3, <1>4, <1>5, <2>1, <2>2, OneJob
  <2> QED
    BY <1>5, <1>6, <1>7, <2>1, <2>3 DEF ReportInv, FewUnmarked
<1>9. CASE n # 0
  <2>1. /\ job'[r] = [at |-> "delete", stale |-> Beyond(n)]
        /\ job' = [job EXCEPT ![r] = job'[r]]
        /\ ~unpruned'
    BY <1>2, <1>9 DEF Goto, ReportInv
  <2>2. ASSUME NEW t \in Beyond(n)
        PROVE  Old(t)
    <3>1. least # 0 /\ least <= n
      BY <1>1, <1>9 DEF Within
    <3>2. Cardinality(Newer(t, artefacts)) >= n
      BY <2>2 DEF Beyond
    <3>3. /\ Cardinality(Newer(t, stored)) \in Nat
          /\ Cardinality(Newer(t, artefacts)) \in Nat
          /\ Cardinality(Newer(t, artefacts)) <= Cardinality(Newer(t, stored))
      BY <1>4, MoreNewer
    <3> QED
      BY <1>4, <3>1, <3>2, <3>3 DEF Old
  <2>3. Beyond(n) \in SUBSET (1..starts')
    BY <1>2, <1>4 DEF Beyond
  <2>4. \A t \in Beyond(n) : Old(t)'
    BY <1>6, <2>2
  <2>5. Fits(job[r])'
    BY <2>1, <2>3, <2>4 DEF Fits
  <2>6. job' = [q \in Runner |-> job'[q]] /\ \A q \in Runner : Fits(job[q])'
    BY <1>2, <1>3, <1>4, <1>5, <2>1, <2>5, OneJob
  <2>7. Cardinality({t \in artefacts' : ~Marked(t)'}) <= most'
    <3> DEFINE new == {t \in artefacts' : ~Marked(t)'}
               few == {t \in artefacts : ~(Cardinality(Newer(t, artefacts)) >= n)}
    <3>1. new \subseteq few
      <4>1. \A t \in Beyond(n) : Marked(t)'
        BY <2>1 DEF Marked, At, NoJob
      <4> QED
        BY <1>2, <4>1 DEF Beyond
    <3>2. Cardinality(few) <= n
      BY <1>4, FewNewest
    <3>3. few \subseteq 1..starts /\ new \subseteq 1..starts
      BY <1>4, <3>1
    <3> HIDE DEF new, few
    <3>4. Cardinality(new) <= Cardinality(few)
      BY <1>4, <3>1, <3>3, StampsFinite, FS_Subset
    <3>5. Cardinality(new) \in Nat /\ Cardinality(few) \in Nat /\ n <= most
      BY <1>1, <1>4, <3>3, StampsFinite DEF Within
    <3>6. Cardinality(new) <= most'
      BY <1>3, <1>4, <3>2, <3>4, <3>5
    <3> QED
      BY <3>6 DEF new
  <2> QED
    BY <1>5, <1>6, <1>7, <2>6, <2>7 DEF ReportInv, FewUnmarked
<1> QED
  BY <1>8, <1>9

LEMMA DeleteKeepsInv ==
  ASSUME ReportInv, NEW r \in Runner, DeleteStale(r)
  PROVE  ReportInv'
<1>1. PICK stale \in SUBSET (1..starts) :
        job[r] = [at |-> "delete", stale |-> stale] /\ \A t \in stale : Old(t)
  <2>1. At(r, "delete")
    BY DEF DeleteStale
  <2> QED
    BY <2>1, StaleIsOld
<1>2. /\ UNCHANGED <<schedule, due, keep, starts, stored, bounds, unpruned>>
      /\ artefacts' = artefacts \ stale
      /\ job' = [job EXCEPT ![r] = NoJob]
  BY <1>1 DEF DeleteStale, Goto
<1>3. least' = least /\ most' = most
  BY <1>2 DEF bounds
<1>4. Columns /\ starts \in Nat /\ least \in Nat /\ most \in Nat
  BY ColumnsNat DEF ReportInv
<1>5. Columns'
  BY <1>2, <1>3, <1>4 DEF Columns
<1>6. Within(keep)' /\ \A t : Old(t) => Old(t)'
  BY <1>2, <1>3 DEF ReportInv, Within, Old, Newer
<1>7. \A t \in stored' \ artefacts' : Old(t)'
  BY <1>1, <1>2, <1>6 DEF ReportInv
<1>8. /\ job'[r] = NoJob /\ job' = [job EXCEPT ![r] = job'[r]]
      /\ \A q \in Runner : q # r => job'[q] = job[q]
  BY <1>2 DEF ReportInv
<1>9. Fits(job[r])'
  BY <1>8 DEF Fits, NoJob
<1>m. /\ starts <= starts' /\ stored \subseteq stored'
      /\ least # 0 => least' # 0 /\ least' <= least
      /\ most <= most'
  BY <1>2, <1>3, <1>4
<1>10. job' = [q \in Runner |-> job'[q]] /\ \A q \in Runner : Fits(job[q])'
  BY <1>m, <1>5, <1>8, <1>9, OneJob
<1>11. FewUnmarked'
  <2>1. \A q \in Runner : At(q, "prune") => At(q, "prune")'
    BY <1>1, <1>8 DEF At
  <2>2. \A s \in artefacts' : Marked(s) => Marked(s)'
    BY <1>1, <1>2, <1>8 DEF At, Marked
  <2>3. {s \in artefacts' : ~Marked(s)'} \subseteq {s \in artefacts : ~Marked(s)}
    BY <1>2, <2>2
  <2> QED
    BY <1>2, <1>3, <1>4, <1>5, <2>1, <2>3, FewUnmarkedStill
<1> QED
  BY <1>5, <1>6, <1>7, <1>10, <1>11 DEF ReportInv

LEMMA GiveUpKeepsInv ==
  ASSUME ReportInv, NEW r \in Runner, GiveUp(r)
  PROVE  ReportInv'
<1>1. /\ UNCHANGED <<schedule, due, keep, artefacts, starts, stored, bounds>>
      /\ job' = [job EXCEPT ![r] = NoJob]
      /\ unpruned' = (unpruned \/ At(r, "prune") \/ At(r, "delete"))
  BY DEF GiveUp, Goto
<1>2. least' = least /\ most' = most
  BY <1>1 DEF bounds
<1>3. Columns /\ starts \in Nat /\ least \in Nat /\ most \in Nat
  BY ColumnsNat DEF ReportInv
<1>4. unpruned' \in BOOLEAN
  BY <1>1, Zenon
<1>5. Columns'
  BY <1>1, <1>2, <1>3, <1>4 DEF Columns
<1>6. Within(keep)' /\ \A t \in stored' \ artefacts' : Old(t)'
  BY <1>1, <1>2 DEF ReportInv, Within, Old, Newer
<1>7. job'[r] = NoJob /\ job' = [job EXCEPT ![r] = job'[r]]
  BY <1>1 DEF ReportInv
<1>8. Fits(job[r])'
  BY <1>7 DEF Fits, NoJob
<1>m. /\ starts <= starts' /\ stored \subseteq stored'
      /\ least # 0 => least' # 0 /\ least' <= least
      /\ most <= most'
  BY <1>1, <1>2, <1>3
<1>9. job' = [q \in Runner |-> job'[q]] /\ \A q \in Runner : Fits(job[q])'
  BY <1>m, <1>5, <1>7, <1>8, OneJob
<1>10. FewUnmarked'
  <2>1. CASE At(r, "prune") \/ At(r, "delete")
    <3>1. unpruned'
      BY <1>1, <2>1
    <3> QED
      BY <3>1 DEF FewUnmarked
  <2>2. CASE ~At(r, "prune") /\ ~At(r, "delete")
    <3>1. unpruned' = unpruned
      BY <1>1, <1>3, <2>2 DEF Columns
    <3>2. ~At(r, "delete")'
      BY <1>7 DEF At
    <3> QED
      BY <1>1, <1>m, <1>5, <1>7, <2>2, <3>1, <3>2, MarksStay
  <2> QED
    BY <2>1, <2>2
<1> QED
  BY <1>5, <1>6, <1>9, <1>10 DEF ReportInv

\* What an operator does, and the clock, leaves the jobs and the artefacts alone.
LEMMA EditKeepsInv ==
  ASSUME ReportInv, UNCHANGED <<artefacts, starts, job, stored, unpruned>>,
         \/ (\E to \in {"enabled", "disabled", "deleted"} : Switch(to))
         \/ (\E n \in Keep : Retain(n))
         \/ Elapse
         \/ UNCHANGED report_vars
  PROVE  ReportInv'
<1>1. /\ Columns /\ keep \in Nat /\ least \in Nat /\ most \in Nat /\ starts \in Nat
      /\ Within(keep)
  BY ColumnsNat DEF ReportInv
<1>2. /\ schedule' \in {"enabled", "disabled", "deleted"}
      /\ due' \in BOOLEAN
  BY <1>1 DEF Switch, Retain, Elapse, report_vars, Columns
<1>3. /\ keep' \in Keep /\ least' \in Keep /\ most' \in Keep
      /\ least # 0 => least' # 0 /\ least' <= least
      /\ most <= most'
      /\ Within(keep)'
  <2>1. CASE \E n \in Keep : Retain(n)
    <3>1. PICK n \in Keep : Retain(n)
      BY <2>1
    <3>2. n \in Nat /\ keep' = n
      BY <3>1, KeepNat DEF Retain
    <3>3. least' = IF n # 0 /\ (least = 0 \/ n < least) THEN n ELSE least
      BY <3>1 DEF Retain
    <3>4. most' = IF n > most THEN n ELSE most
      BY <3>1 DEF Retain
    <3>5. least' \in Keep /\ most' \in Keep
      BY <1>1, <3>1, <3>3, <3>4 DEF Columns
    <3> QED
      BY <1>1, <3>1, <3>2, <3>3, <3>4, <3>5 DEF Within
  <2>2. CASE ~\E n \in Keep : Retain(n)
    <3>1. keep' = keep /\ least' = least /\ most' = most
      BY <2>2 DEF Switch, Elapse, report_vars, bounds
    <3> QED
      BY <1>1, <3>1 DEF Columns, Within
  <2> QED
    BY <2>1, <2>2
<1>4. Columns'
  BY <1>1, <1>2, <1>3 DEF Columns
<1>5. job' = [q \in Runner |-> job'[q]] /\ \A q \in Runner : Fits(job[q])'
  BY <1>1, <1>3, <1>4, SameJobs
<1>6. \A s \in stored' \ artefacts' : Old(s)'
  BY <1>1, <1>3, <1>4, OldStaysOld DEF ReportInv
<1>7. FewUnmarked'
  <2>1. \A q \in Runner : At(q, "prune") => At(q, "prune")'
    BY DEF At
  <2>2. \A s : Marked(s) => Marked(s)'
    BY DEF At, Marked
  <2> QED
    BY <1>3, <1>4, <2>1, <2>2, FewUnmarkedStill
<1> QED
  BY <1>3, <1>4, <1>5, <1>6, <1>7 DEF ReportInv

LEMMA ReportStepInv == ReportInv /\ [ReportNext]_report_vars => ReportInv'
<1> SUFFICES ASSUME ReportInv, [ReportNext]_report_vars
             PROVE  ReportInv'
  OBVIOUS
<1>1. ASSUME NEW r \in Worker, ListDue(r)
      PROVE  ReportInv'
  BY <1>1, ReportBegins DEF Runner
<1>2. ASSUME NEW r \in Request, AskForRun(r)
      PROVE  ReportInv'
  BY <1>2, ReportBegins DEF Runner
<1>3. ASSUME NEW r \in Runner, Fetch(r) \/ Store(r) \/ Prune(r) \/ DeleteStale(r) \/ GiveUp(r)
      PROVE  ReportInv'
  BY <1>3, ReportBegins, StoreKeepsInv, PruneKeepsInv, DeleteKeepsInv, GiveUpKeepsInv
<1>4. ASSUME NEW to \in {"enabled", "disabled", "deleted"}, Switch(to)
      PROVE  ReportInv'
  BY <1>4, EditKeepsInv DEF Switch
<1>5. ASSUME NEW n \in Keep, Retain(n)
      PROVE  ReportInv'
  BY <1>5, EditKeepsInv DEF Retain
<1>6. CASE Elapse
  BY <1>6, EditKeepsInv DEF Elapse
<1>7. CASE UNCHANGED report_vars
  BY <1>7, EditKeepsInv DEF report_vars
<1> QED
  BY <1>1, <1>2, <1>3, <1>4, <1>5, <1>6, <1>7 DEF ReportNext

LEMMA ReportInvariant == ReportSpec => []ReportInv
BY ReportInitInv, ReportStepInv, PTL DEF ReportSpec

(* The schedule, its artefacts and what its runners do keep their types.   *)
THEOREM ReportTypeCorrect == ReportSpec => []ReportTypeOK
<1>1. ASSUME ReportInv
      PROVE  ReportTypeOK
  <2>1. Columns /\ starts \in Nat
    BY <1>1, ColumnsNat DEF ReportInv
  <2>2. 1..starts \subseteq Stamp
    BY <2>1, KeepNat DEF Columns, Stamp
  <2>3. ASSUME NEW r \in Runner
        PROVE  job[r] \in Job \cup {NoJob}
    <3>1. Fits(job[r])
      BY <1>1 DEF ReportInv
    <3>2. CASE job[r] \in {NoJob, [at |-> "fetch"]}
      BY <3>2 DEF Job
    <3>3. CASE \E step \in {"generate", "prune"}, s \in 1..starts, n \in Keep :
                 job[r] = [at |-> step, stamp |-> s, keep |-> n] /\ Within(n)
      BY <2>2, <3>3 DEF Job
    <3>4. CASE \E stale \in SUBSET (1..starts) :
                 job[r] = [at |-> "delete", stale |-> stale] /\ \A s \in stale : Old(s)
      BY <2>2, <3>4 DEF Job
    <3> QED
      BY <3>1, <3>2, <3>3, <3>4 DEF Fits
  <2>4. job \in [Runner -> Job \cup {NoJob}]
    BY <1>1, <2>3 DEF ReportInv
  <2> QED
    BY <2>1, <2>4 DEF Columns, ReportTypeOK
<1> QED
  BY <1>1, ReportInvariant, PTL

(* No run deletes one of the newest artefacts, as many as the schedule has *)
(* been asked to keep at least, however many runs overlap.                 *)
THEOREM ReportsNewestKept == ReportSpec => []NewestKept
<1>1. ReportInv => NewestKept
  BY DEF ReportInv, NewestKept, Old
<1> QED
  BY <1>1, ReportInvariant, PTL

(* And no more are left over, unless somebody who should have pruned gave  *)
(* up, or is still going to.                                               *)
THEOREM ReportsNoneLeftOver == ReportSpec => []NoneLeftOver
<1>1. ASSUME ReportInv, ~unpruned, \A r \in Runner : ~At(r, "prune") /\ ~At(r, "delete")
      PROVE  Cardinality(artefacts) <= most
  <2>1. {s \in artefacts : ~Marked(s)} = artefacts
    BY <1>1 DEF Marked
  <2> QED
    BY <1>1, <2>1 DEF ReportInv, FewUnmarked
<1>2. ReportInv => NoneLeftOver
  BY <1>1 DEF NoneLeftOver
<1> QED
  BY <1>2, ReportInvariant, PTL

(* Pruning deletes neither too much nor too little.                        *)
THEOREM ReportsPrunedToKeep == ReportSpec => []PrunedToKeep
<1>1. NewestKept /\ NoneLeftOver => PrunedToKeep
  BY DEF PrunedToKeep
<1> QED
  BY <1>1, ReportsNewestKept, ReportsNoneLeftOver, PTL

-----------------------------------------------------------------------------
(* InterfaceAdmin.  As long as no two requests overlap, a row and device   *)
(* agree but while one request is between its session and its end, and     *)
(* what that has loaded is what the row still says.                        *)
Asking == [at : {"loaded", "answered"}, wants : Status, loaded : Status,
           done : BOOLEAN]

AdminInv ==
  /\ configured \in Status /\ noted \in Status
  /\ crossed \in BOOLEAN /\ lost \in BOOLEAN
  /\ asking \in [Operator -> Asking \cup {None}]
  /\ ~crossed =>
       \A o, p \in Operator : asking[o] # None /\ asking[p] # None => o = p
  /\ ~crossed /\ ~lost =>
       /\ (\A o \in Operator : asking[o] = None) => noted = configured
       /\ \A o \in Operator : asking[o] # None =>
            /\ asking[o].loaded = noted
            /\ asking[o].at = "loaded" => noted = configured
            /\ asking[o].at = "answered" =>
                 configured = IF asking[o].done THEN asking[o].wants ELSE noted

LEMMA NotAsking == None \notin Asking
BY DEF None, Asking

LEMMA AdminInitInv == AdminInit => AdminInv
BY DEF AdminInit, AdminInv, Status

LEMMA AdminLoad ==
  ASSUME AdminInv, NEW o \in Operator, NEW status \in Status, Load(o, status)
  PROVE  AdminInv'
<1> DEFINE new == [at |-> "loaded", wants |-> status, loaded |-> noted, done |-> FALSE]
<1>a. noted \in Status
  BY DEF AdminInv
<1>b. new \in Asking
  BY <1>a DEF Asking
<1>0. new \in Asking /\ new # None
  BY <1>b, NotAsking
<1>1. asking'[o] = new /\ asking' = [asking EXCEPT ![o] = new]
  BY DEF Load, AdminInv
<1>2. \A p \in Operator : p # o => asking'[p] = asking[p]
  BY DEF Load, AdminInv
<1>3. asking' \in [Operator -> Asking \cup {None}] /\ crossed' \in BOOLEAN
  BY <1>0, <1>1 DEF Load, AdminInv
<1>4. ~crossed' => ~crossed /\ \A p \in Operator : asking[p] = None
  BY DEF Load
<1> QED
  BY <1>0, <1>1, <1>2, <1>3, <1>4 DEF Load, AdminInv

LEMMA AdminSession ==
  ASSUME AdminInv, NEW o \in Operator, Session(o)
  PROVE  AdminInv'
<1>1. PICK does \in BOOLEAN, success \in BOOLEAN :
        /\ success => does
        /\ configured' = IF does THEN asking[o].wants ELSE configured
        /\ asking' = [asking EXCEPT ![o].at = "answered", ![o].done = success]
        /\ lost' = (lost \/ (does /\ ~success))
  BY DEF Session
<1>2. asking[o] \in Asking /\ asking[o].at = "loaded"
  BY DEF Session, AdminInv
<1>3. /\ asking'[o] = [at |-> "answered", wants |-> asking[o].wants,
                       loaded |-> asking[o].loaded, done |-> success]
      /\ asking'[o] \in Asking /\ asking'[o] # None
  BY <1>1, <1>2, NotAsking DEF AdminInv, Asking
<1>4. \A p \in Operator : p # o => asking'[p] = asking[p]
  BY <1>1 DEF AdminInv
<1>5. asking' \in [Operator -> Asking \cup {None}]
  BY <1>1, <1>3, <1>4 DEF AdminInv
<1>6. configured' \in Status /\ lost' \in BOOLEAN
  BY <1>1, <1>2 DEF AdminInv, Asking
<1>7. asking[o] # None
  BY DEF Session
<1>8. ~crossed => \A p \in Operator : p # o => asking[p] = None /\ asking'[p] = None
  BY <1>4, <1>7 DEF AdminInv
<1>9. ASSUME ~crossed, ~lost'
      PROVE  configured' = IF success THEN asking[o].wants ELSE noted
  BY <1>1, <1>2, <1>7, <1>9 DEF AdminInv
<1>10. ~crossed /\ ~lost' => asking'[o].loaded = noted
  BY <1>1, <1>3, <1>7 DEF AdminInv
<1>11. crossed' = crossed /\ noted' = noted
  BY DEF Session
<1> QED
  BY <1>3, <1>4, <1>5, <1>6, <1>7, <1>8, <1>9, <1>10, <1>11 DEF AdminInv

LEMMA AdminFinish ==
  ASSUME AdminInv, NEW o \in Operator, Finish(o)
  PROVE  AdminInv'
<1>1. asking[o] \in Asking /\ asking[o].at = "answered"
  BY DEF Finish, AdminInv
<1>2. asking'[o] = None /\ \A p \in Operator : p # o => asking'[p] = asking[p]
  BY DEF Finish, AdminInv
<1>3. asking' \in [Operator -> Asking \cup {None}]
  BY <1>1 DEF Finish, AdminInv
<1>4. noted' \in Status /\ lost' \in BOOLEAN
  BY <1>1 DEF Finish, AdminInv, Asking
<1>5. ~crossed' /\ ~lost' => noted' = configured'
  BY <1>1, NotAsking DEF Finish, Assigned, AdminInv, Asking
<1> QED
  BY <1>1, <1>2, <1>3, <1>4, <1>5, NotAsking DEF Finish, AdminInv

LEMMA AdminStepInv == AdminInv /\ [AdminNext]_admin_vars => AdminInv'
<1>1. AdminInv /\ UNCHANGED admin_vars => AdminInv'
  BY DEF AdminInv, admin_vars
<1> QED
  BY <1>1, AdminLoad, AdminSession, AdminFinish DEF AdminNext

(* With no request under way, the row says what the device was last told,  *)
(* unless requests have overlapped, or one took effect and was not noted.  *)
THEOREM AdminStatusNoted == AdminSpec => []StatusNoted
<1>1. AdminInv => StatusNoted
  BY DEF AdminInv, StatusNoted
<1> QED
  BY <1>1, AdminInitInv, AdminStepInv, PTL DEF AdminSpec

-----------------------------------------------------------------------------
(* RetentionPolicy.  A seeder that has seen no policy may still write one. *)
RetentionInv ==
  /\ policy \in Nat \cup Days
  /\ none_yet \subseteq Seeder
  /\ seeded \in Nat
  /\ policy = 0 => setting = 0 /\ seeded = 0
  /\ CustomSurvives

LEMMA SeedersLeft ==
  ASSUME NEW S, S \subseteq Seeder
  PROVE  /\ IsFiniteSet(S) /\ Cardinality(S) \in Nat /\ Cardinality(Seeder) \in Nat
         /\ Cardinality(S) <= Cardinality(Seeder)
BY RetentionAssumption, FS_Subset, FS_CardinalityType DEF RetentionAssumption

LEMMA RetentionInitInv == RetentionInit => RetentionInv
BY SeedersLeft, FS_EmptySet DEF RetentionInit, RetentionInv, CustomSurvives

LEMMA RetentionStepInv == RetentionInv /\ [RetentionNext]_retention_vars => RetentionInv'
<1> SUFFICES ASSUME RetentionInv, [RetentionNext]_retention_vars
             PROVE  RetentionInv'
  OBVIOUS
<1>0. /\ IsFiniteSet(none_yet) /\ Cardinality(none_yet) \in Nat
      /\ Cardinality(Seeder) \in Nat /\ Default \in Days /\ 0 \notin Days
  BY SeedersLeft, RetentionAssumption DEF RetentionInv, RetentionAssumption
<1>1. ASSUME NEW s \in Seeder, LookForPolicy(s)
      PROVE  RetentionInv'
  <2>1. CASE HasPolicy
    <3>1. UNCHANGED retention_vars
      BY <1>1, <2>1 DEF LookForPolicy, retention_vars
    <3> QED
      BY <3>1 DEF retention_vars, RetentionInv, CustomSurvives
  <2>2. CASE ~HasPolicy
    <3>1. none_yet' = none_yet \cup {s} /\ s \notin none_yet
      BY <1>1, <2>2 DEF LookForPolicy
    <3>2. none_yet' \subseteq Seeder
      BY <3>1 DEF RetentionInv
    <3>3. Cardinality(none_yet') \in Nat /\ Cardinality(none_yet') <= Cardinality(Seeder)
      BY <3>2, SeedersLeft
    <3>4. policy = 0 /\ setting = 0 /\ seeded = 0
      BY <2>2 DEF HasPolicy, RetentionInv
    <3> QED
      BY <1>0, <1>1, <3>2, <3>3, <3>4 DEF LookForPolicy, RetentionInv, CustomSurvives
  <2> QED
    BY <2>1, <2>2
<1>2. ASSUME NEW s \in Seeder, Seed(s)
      PROVE  RetentionInv'
  <2>1. Cardinality(none_yet') = Cardinality(none_yet) - 1
    BY <1>0, <1>2, FS_RemoveElement DEF Seed
  <2>2. none_yet' \subseteq Seeder
    BY <1>2 DEF Seed, RetentionInv
  <2>3. seeded' \in Nat /\ seeded' <= seeded + 1
    BY <1>2 DEF Seed, RetentionInv
  <2> QED
    BY <1>0, <1>2, <2>1, <2>2, <2>3 DEF Seed, RetentionInv, CustomSurvives
<1>3. ASSUME NEW days \in Days, Save(days)
      PROVE  RetentionInv'
  BY <1>0, <1>3 DEF Save, RetentionInv, CustomSurvives
<1>4. CASE UNCHANGED retention_vars
  BY <1>4 DEF retention_vars, RetentionInv, CustomSurvives
<1> QED
  BY <1>1, <1>2, <1>3, <1>4 DEF RetentionNext

(* A policy an administrator set is only lost to a caller that had found   *)
(* none before there was one, each of whom resets it at most once.         *)
THEOREM RetentionCustomSurvives == RetentionSpec => []CustomSurvives
<1>1. RetentionInv => CustomSurvives
  BY DEF RetentionInv
<1> QED
  BY <1>1, RetentionInitInv, RetentionStepInv, PTL DEF RetentionSpec

-----------------------------------------------------------------------------
(* IngestStats.  What a session has read of the counter is no more than    *)
(* what is stored; with one session at a time it is what the counter says, *)
(* or there was no row, and there is one by now that counts no file.  A    *)
(* session that has found no row is yet to be refused, at most once each.  *)
FirstFile == {w \in Ingester : ingest[w] # NoFile /\ ingest[w].base = NoStat}

IngestInv ==
  /\ stat \in Nat \cup {NoStat} /\ samples \in Nat /\ refused \in Nat
  /\ overlap \in BOOLEAN
  /\ ingest \in [Ingester -> [at : {"read"}, base : Nat \cup {NoStat}] \cup {NoFile}]
  /\ stat = NoStat => samples = 0 /\ refused = 0
  /\ stat # NoStat =>
       /\ stat <= samples
       /\ refused + Cardinality(FirstFile) <= Cardinality(Ingester)
  /\ \A w \in AtFile : ingest[w].base # NoStat =>
       stat # NoStat /\ ingest[w].base <= samples
  /\ ~overlap =>
       /\ stat # NoStat => stat = samples
       /\ \A v, w \in AtFile : v = w
       /\ \A w \in AtFile :
            ingest[w].base = stat \/ (ingest[w].base = NoStat /\ stat = 0)

LEMMA FirstFinite ==
  ASSUME NEW S, S \subseteq Ingester
  PROVE  /\ IsFiniteSet(S) /\ Cardinality(S) \in Nat /\ Cardinality(Ingester) \in Nat
         /\ Cardinality(S) <= Cardinality(Ingester)
BY IngestAssumption, FS_Subset, FS_CardinalityType DEF IngestAssumption

LEMMA FileOrNone ==
  /\ NoStat \notin Nat
  /\ NoFile \notin [at : {"read"}, base : Nat \cup {NoStat}]
BY IngestAssumption DEF IngestAssumption, NoFile

LEMMA IngestInitInv == IngestInit => IngestInv
<1> SUFFICES ASSUME IngestInit PROVE IngestInv
  OBVIOUS
<1>1. AtFile = {} /\ ingest \in [Ingester -> {NoFile}]
  BY DEF IngestInit, AtFile
<1> QED
  BY <1>1 DEF IngestInit, IngestInv

LEMMA IngestBegins ==
  ASSUME IngestInv, NEW w \in Ingester, BeginFile(w)
  PROVE  IngestInv'
<1> DEFINE new == [at |-> "read", base |-> stat]
<1>1. new \in [at : {"read"}, base : Nat \cup {NoStat}]
  BY DEF IngestInv
<1>2. new # NoFile
  BY DEF NoFile
<1>3. /\ ingest' = [ingest EXCEPT ![w] = new]
      /\ ingest[w] = NoFile
      /\ stat' = stat /\ samples' = samples /\ refused' = refused
      /\ overlap' = (overlap \/ AtFile # {})
  BY DEF BeginFile
<1>4. ingest'[w] = new /\ \A v \in Ingester : v # w => ingest'[v] = ingest[v]
  BY <1>3 DEF IngestInv
<1>5. ingest' \in [Ingester -> [at : {"read"}, base : Nat \cup {NoStat}] \cup {NoFile}]
  BY <1>1, <1>3 DEF IngestInv
<1>6. stat # NoStat => FirstFile' = FirstFile
  BY <1>2, <1>3, <1>4 DEF FirstFile
<1>7. AtFile' = AtFile \cup {w}
  BY <1>2, <1>4 DEF AtFile
<1>8. \A v \in AtFile' : v = w \/ (v \in AtFile /\ ingest'[v] = ingest[v])
  BY <1>4, <1>7 DEF AtFile
<1>9. \A v \in AtFile' : ingest'[v].base # NoStat =>
        stat' # NoStat /\ ingest'[v].base <= samples'
  BY <1>1, <1>3, <1>4, <1>8 DEF IngestInv
<1>10. ~overlap' => ~overlap /\ AtFile' = {w}
  BY <1>3, <1>7 DEF IngestInv
<1> QED
  BY <1>3, <1>4, <1>5, <1>6, <1>9, <1>10 DEF IngestInv

LEMMA IngestLoses ==
  ASSUME IngestInv, NEW w \in Ingester, LoseFile(w)
  PROVE  IngestInv'
<1>1. ingest'[w] = NoFile /\ \A v \in Ingester : v # w => ingest'[v] = ingest[v]
  BY DEF LoseFile, IngestInv
<1>2. AtFile' = AtFile \ {w} /\ FirstFile' = FirstFile \ {w}
  BY <1>1 DEF AtFile, FirstFile
<1>3. Cardinality(FirstFile') <= Cardinality(FirstFile)
      /\ Cardinality(FirstFile') \in Nat /\ Cardinality(FirstFile) \in Nat
      /\ Cardinality(Ingester) \in Nat
  BY <1>2, FirstFinite, FS_Subset DEF FirstFile
<1>4. \A v \in AtFile' : v \in AtFile /\ ingest'[v] = ingest[v]
  BY <1>1, <1>2 DEF AtFile
<1>5. ingest' \in [Ingester -> [at : {"read"}, base : Nat \cup {NoStat}] \cup {NoFile}]
  BY DEF LoseFile, IngestInv
<1> QED
  BY <1>3, <1>4, <1>5 DEF LoseFile, IngestInv

LEMMA IngestCommits ==
  ASSUME IngestInv, NEW w \in Ingester, CommitFile(w)
  PROVE  IngestInv'
<1>0. /\ ingest[w] # NoFile /\ ingest' = [ingest EXCEPT ![w] = NoFile]
      /\ overlap' = overlap
      /\ ingest[w].base \in Nat \cup {NoStat}
  BY DEF CommitFile, IngestInv
<1>1. ingest'[w] = NoFile /\ \A v \in Ingester : v # w => ingest'[v] = ingest[v]
  BY <1>0 DEF IngestInv
<1>2. AtFile' = AtFile \ {w} /\ FirstFile' = FirstFile \ {w} /\ w \in AtFile
  BY <1>0, <1>1 DEF AtFile, FirstFile
<1>3. /\ IsFiniteSet(FirstFile) /\ Cardinality(FirstFile') \in Nat
      /\ Cardinality(FirstFile) \in Nat /\ Cardinality(Ingester) \in Nat
      /\ Cardinality(FirstFile') <= Cardinality(FirstFile)
      /\ Cardinality(FirstFile) <= Cardinality(Ingester)
  BY <1>2, FirstFinite, FS_Subset DEF FirstFile
<1>4. \A v \in AtFile' : v \in AtFile /\ v # w /\ ingest'[v] = ingest[v]
  BY <1>1, <1>2 DEF AtFile
<1>5. ingest' \in [Ingester -> [at : {"read"}, base : Nat \cup {NoStat}] \cup {NoFile}]
  BY <1>0 DEF IngestInv
<1>6. ~overlap => AtFile' = {}
  BY <1>2, <1>4 DEF IngestInv
<1>7. CASE ingest[w].base = NoStat /\ stat # NoStat
  <2>1. refused' = refused + 1 /\ stat' = stat /\ samples' = samples
    BY <1>7 DEF CommitFile
  <2>2. w \in FirstFile
    BY <1>0, <1>7 DEF FirstFile
  <2>3. Cardinality(FirstFile') = Cardinality(FirstFile) - 1
    BY <1>2, <1>3, <2>2, FS_RemoveElement
  <2> QED
    BY <1>0, <1>3, <1>4, <1>5, <1>6, <1>7, <2>1, <2>3 DEF IngestInv
<1>8. CASE ~(ingest[w].base = NoStat /\ stat # NoStat)
  <2>1. stat' = CountFile(ingest[w].base) /\ samples' = samples + 1 /\ refused' = refused
    BY <1>8 DEF CommitFile
  <2>2. stat' \in Nat /\ stat' <= samples + 1
    BY <1>0, <1>2, <2>1, FileOrNone DEF CountFile, IngestInv
  <2>3. ~overlap => stat' = samples + 1
    BY <1>0, <1>2, <1>8, <2>1, FileOrNone DEF CountFile, IngestInv
  <2>4. refused + Cardinality(FirstFile') <= Cardinality(Ingester)
    BY <1>3 DEF IngestInv
  <2>5. stat' # NoStat /\ samples' \in Nat /\ samples <= samples'
    BY <2>1, <2>2, FileOrNone DEF IngestInv
  <2>6. \A v \in AtFile' : ingest'[v].base # NoStat => ingest'[v].base <= samples'
    <3> SUFFICES ASSUME NEW v \in AtFile', ingest'[v].base # NoStat
                 PROVE  ingest'[v].base <= samples'
      OBVIOUS
    <3>1. ingest[v].base \in Nat /\ ingest[v].base <= samples
      BY <1>4, FileOrNone DEF IngestInv, AtFile
    <3> QED
      BY <1>4, <2>1, <3>1 DEF IngestInv
  <2> QED
    BY <1>0, <1>5, <1>6, <2>1, <2>2, <2>3, <2>4, <2>5, <2>6 DEF IngestInv
<1> QED
  BY <1>7, <1>8

LEMMA IngestStepInv == IngestInv /\ [IngestNext]_ingest_vars => IngestInv'
<1> SUFFICES ASSUME IngestInv, [IngestNext]_ingest_vars
             PROVE  IngestInv'
  OBVIOUS
<1>1. CASE NoteFirst
  <2>1. stat = NoStat /\ stat' = 0 /\ samples = 0 /\ refused = 0
    BY <1>1 DEF NoteFirst, IngestInv
  <2>2. FirstFile' = FirstFile /\ AtFile' = AtFile
    BY <1>1 DEF NoteFirst, FirstFile, AtFile
  <2>3. Cardinality(FirstFile) \in Nat /\ Cardinality(FirstFile) <= Cardinality(Ingester)
    BY FirstFinite DEF FirstFile
  <2> QED
    BY <1>1, <2>1, <2>2, <2>3, FileOrNone DEF NoteFirst, IngestInv
<1>2. CASE UNCHANGED ingest_vars
  BY <1>2 DEF ingest_vars, IngestInv, AtFile, FirstFile
<1> QED
  BY <1>1, <1>2, IngestBegins, IngestCommits, IngestLoses DEF IngestNext

(* The counter of a source never says more than is stored, and says just   *)
(* that as long as no two files were ingested at a time.                   *)
THEOREM IngestStatTrue == IngestSpec => []StatTrue
<1>1. IngestInv => StatTrue
  BY FirstFinite DEF IngestInv, StatTrue, FirstFile
<1> QED
  BY <1>1, IngestInitInv, IngestStepInv, PTL DEF IngestSpec

-----------------------------------------------------------------------------
(* CommandRuns.  What a session has read of a row, and what was written to *)
(* it since: between them they have what the row says now.                 *)
Value    == Output \cup {NoOutput, "ok", "error"}
ReadRow  == [base : Value, since : SUBSET Value]
Kind     == {"single", "bulk", "schedule"}
Tasks    == [at : {"none", "waits", "ok", "error"}] \cup [at : {"runs"}, row : ReadRow]
Requests == {NoRequest} \cup [kind : Kind, at : {"arrives"}]
            \cup [kind : Kind, at : {"open"}, row : ReadRow]

Covers(what, value) == value = what.base \/ value \in what.since

RunsInv ==
  /\ last \in [SavedRow -> Value] /\ recent \in [SavedRow -> SUBSET Value]
  /\ request \in [Client -> Requests]
  /\ task \in [Client -> [Router -> Tasks]]
  /\ \A r \in Client, d \in Router :
       task[r][d].at = "runs" => Covers(task[r][d].row, last["command"])
  /\ \A r \in Client : request[r].at = "open" => Covers(request[r].row, last["schedule"])
  /\ LastIsRecent

LEMMA RunHasRow ==
  ASSUME RunsInv, NEW r \in Client, NEW d \in Router, task[r][d].at = "runs"
  PROVE  /\ task[r][d] = [at |-> "runs", row |-> task[r][d].row]
         /\ task[r][d].row \in ReadRow
BY DEF RunsInv, Tasks

LEMMA OpenHasRow ==
  ASSUME RunsInv, NEW r \in Client, request[r].at = "open"
  PROVE  /\ request[r] = [kind |-> request[r].kind, at |-> "open", row |-> request[r].row]
         /\ request[r].kind \in Kind /\ request[r].row \in ReadRow
BY DEF RunsInv, Requests, NoRequest

LEMMA ReadNow ==
  ASSUME RunsInv, NEW x \in SavedRow
  PROVE  ReadOf(x) \in ReadRow /\ Covers(ReadOf(x), last[x])
BY DEF RunsInv, ReadOf, ReadRow, Covers

LEMMA SeenIsRow ==
  ASSUME NEW x, NEW what \in ReadRow, NEW value \in Value
  PROVE  /\ Seen(x, what, value) \in ReadRow
         /\ Seen(x, what, value).base = what.base
         /\ Seen(x, what, value).since = what.since \cup {value}
BY DEF Seen, ReadRow

(* A commit makes what it gives the last value, or leaves the last value;  *)
(* so those that have read the row have seen what it says, and it is among *)
(* what this session has seen.                                             *)
LEMMA CommitRecords ==
  ASSUME RunsInv, NEW x \in SavedRow, NEW what \in ReadRow, NEW value \in Value,
         Covers(what, last[x]), Records(x, what, value)
  PROVE  /\ last' \in [SavedRow -> Value] /\ recent' \in [SavedRow -> SUBSET Value]
         /\ last'[x] \in recent'[x]
         /\ \A y \in SavedRow : y # x => last'[y] = last[y] /\ recent'[y] = recent[y]
         /\ last'[x] \in {value, last[x]}
<1>1. /\ last' = [last EXCEPT ![x] = Written(x, what.base, value)]
      /\ recent' = [recent EXCEPT ![x] = what.since \cup {value}]
  BY DEF Records
<1>2. Written(x, what.base, value) \in {value, last[x]}
  BY DEF Written
<1>3. last[x] \in Value /\ what.since \in SUBSET Value
  BY DEF RunsInv, ReadRow
<1>4. Written(x, what.base, value) \in what.since \cup {value}
  BY DEF Written, Covers
<1> QED
  BY <1>1, <1>2, <1>3, <1>4 DEF RunsInv

LEMMA RecentStill ==
  ASSUME RunsInv, NEW x \in SavedRow, last'[x] \in recent'[x],
         \A y \in SavedRow : y # x => last'[y] = last[y] /\ recent'[y] = recent[y]
  PROVE  LastIsRecent'
BY DEF RunsInv, LastIsRecent

\* A task that does not begin or end.
LEMMA QuietTask ==
  ASSUME RunsInv, NEW r \in Client, NEW d \in Router,
         NEW t \in [at : {"none", "waits", "ok", "error"}],
         task' = [task EXCEPT ![r][d] = t],
         UNCHANGED <<last, recent, request>>
  PROVE  RunsInv'
<1>1. task' \in [Client -> [Router -> Tasks]]
  BY DEF RunsInv, Tasks
<1>2. \A q \in Client, e \in Router : task'[q][e].at = "runs" => task'[q][e] = task[q][e]
  BY DEF RunsInv
<1> QED
  BY <1>1, <1>2 DEF RunsInv, Covers, LastIsRecent

LEMMA AskKeeps ==
  ASSUME RunsInv, NEW r \in Client, NEW kind \in Kind, Ask(r, kind)
  PROVE  RunsInv'
<1>1. request' \in [Client -> Requests]
  BY DEF Ask, RunsInv, Requests
<1>2. \A q \in Client : request'[q].at = "open" => request'[q] = request[q]
  BY DEF Ask, RunsInv
<1> QED
  BY <1>1, <1>2 DEF Ask, RunsInv, Covers, LastIsRecent

LEMMA AdmitKeeps ==
  ASSUME RunsInv, NEW r \in Client, NEW devices \in SUBSET Router, Admit(r, devices)
  PROVE  RunsInv'
<1>1. request[r].kind \in Kind
  BY DEF Admit, RunsInv, Requests, NoRequest
<1> DEFINE new == [kind |-> request[r].kind, at |-> "open", row |-> ReadOf("schedule")]
<1>2. new \in Requests /\ Covers(new.row, last["schedule"])
  BY <1>1, ReadNow DEF Requests, SavedRow
<1>3. request' = [request EXCEPT ![r] = new]
  BY DEF Admit
<1>4. \A d \in Router : (IF d \in devices THEN [at |-> "waits"] ELSE NoTask) \in Tasks
  BY DEF NoTask, Tasks
<1>5. task' \in [Client -> [Router -> Tasks]]
  BY <1>4 DEF Admit, RunsInv
<1>6. \A q \in Client, d \in Router : task'[q][d].at = "runs" => task'[q][d] = task[q][d]
  BY DEF Admit, RunsInv, NoTask
<1> QED
  BY <1>2, <1>3, <1>5, <1>6 DEF Admit, RunsInv, Covers, LastIsRecent

LEMMA RefuseKeeps ==
  ASSUME RunsInv, NEW r \in Client, Refuse(r)
  PROVE  RunsInv'
<1>1. request' \in [Client -> Requests]
  BY DEF Refuse, RunsInv, Requests
<1>2. \A q \in Client : request'[q].at = "open" => request'[q] = request[q]
  BY DEF Refuse, RunsInv, NoRequest
<1> QED
  BY <1>1, <1>2 DEF Refuse, RunsInv, Covers, LastIsRecent

LEMMA LoadKeeps ==
  ASSUME RunsInv, NEW r \in Client, NEW d \in Router, LoadCommand(r, d)
  PROVE  RunsInv'
<1> DEFINE new == [at |-> "runs", row |-> ReadOf("command")]
<1>1. new \in Tasks /\ Covers(new.row, last["command"])
  BY ReadNow DEF Tasks, SavedRow
<1>2. task' = [task EXCEPT ![r][d] = new]
  BY DEF LoadCommand
<1>3. task' \in [Client -> [Router -> Tasks]]
  BY <1>1, <1>2 DEF RunsInv
<1>4. \A q \in Client, e \in Router : task'[q][e] \in {new, task[q][e]}
  BY <1>2 DEF RunsInv
<1> QED
  BY <1>1, <1>3, <1>4 DEF LoadCommand, RunsInv, Covers, LastIsRecent

LEMMA EndRunKeeps ==
  ASSUME RunsInv, NEW r \in Client, NEW d \in Router, NEW output \in Output,
         EndRun(r, d, output)
  PROVE  RunsInv'
<1>0. output \in Value /\ "command" \in SavedRow /\ "schedule" \in SavedRow
  BY DEF Value, SavedRow
<1>1. task[r][d].row \in ReadRow /\ Covers(task[r][d].row, last["command"])
  BY RunHasRow DEF EndRun, RunsInv
<1>2. Records("command", task[r][d].row, output)
  BY DEF EndRun
<1>3. /\ last' \in [SavedRow -> Value] /\ recent' \in [SavedRow -> SUBSET Value]
      /\ last'["command"] \in recent'["command"]
      /\ \A y \in SavedRow : y # "command" => last'[y] = last[y] /\ recent'[y] = recent[y]
      /\ last'["command"] \in {output, last["command"]}
  BY <1>0, <1>1, <1>2, CommitRecords
<1>4. LastIsRecent'
  BY <1>0, <1>3, RecentStill
<1>5. task' = [SeenByRuns(output) EXCEPT ![r][d] = [at |-> "ok"]] /\ request' = request
  BY DEF EndRun
<1>6. ASSUME NEW q \in Client, NEW e \in Router
      PROVE  /\ SeenByRuns(output)[q][e] \in Tasks
             /\ SeenByRuns(output)[q][e].at = "runs" =>
                  Covers(SeenByRuns(output)[q][e].row, last'["command"])
  <2>1. CASE task[q][e].at = "runs"
    <3>1. task[q][e].row \in ReadRow /\ Covers(task[q][e].row, last["command"])
      BY <2>1, RunHasRow DEF RunsInv
    <3>2. SeenByRuns(output)[q][e] =
            [at |-> "runs", row |-> Seen("command", task[q][e].row, output)]
      BY <2>1 DEF SeenByRuns
    <3>3. Seen("command", task[q][e].row, output) \in ReadRow
      BY <1>0, <3>1, SeenIsRow
    <3>4. Covers(Seen("command", task[q][e].row, output), last'["command"])
      BY <1>0, <1>3, <3>1, SeenIsRow DEF Covers
    <3> QED
      BY <3>2, <3>3, <3>4 DEF Tasks
  <2>2. CASE task[q][e].at # "runs"
    BY <2>2 DEF SeenByRuns, RunsInv
  <2> QED
    BY <2>1, <2>2
<1>7. SeenByRuns(output) \in [Client -> [Router -> Tasks]]
  BY <1>6 DEF SeenByRuns
<1>8. [at |-> "ok"] \in Tasks
  BY DEF Tasks
<1>9. task' \in [Client -> [Router -> Tasks]]
  BY <1>5, <1>7, <1>8
<1>10. \A q \in Client, e \in Router :
         task'[q][e] = [at |-> "ok"] \/ task'[q][e] = SeenByRuns(output)[q][e]
  BY <1>5, <1>7
<1>11. \A q \in Client, e \in Router :
         task'[q][e].at = "runs" => Covers(task'[q][e].row, last'["command"])
  BY <1>6, <1>10
<1> QED
  BY <1>0, <1>3, <1>4, <1>5, <1>9, <1>11 DEF RunsInv, Covers

LEMMA ReplyKeeps ==
  ASSUME RunsInv, NEW r \in Client, Reply(r)
  PROVE  RunsInv'
<1> DEFINE closed == [request EXCEPT ![r] = NoRequest]
<1>0. Verdict(r) \in Value /\ "schedule" \in SavedRow /\ "command" \in SavedRow
  BY DEF Verdict, Value, SavedRow
<1>1. task' \in [Client -> [Router -> Tasks]]
  BY DEF Reply, RunsInv, NoTask, Tasks
<1>2. \A q \in Client, d \in Router : task'[q][d].at = "runs" => task'[q][d] = task[q][d]
  BY DEF Reply, RunsInv, NoTask
<1>3. /\ closed \in [Client -> Requests]
      /\ \A q \in Client : closed[q].at = "open" => q # r /\ closed[q] = request[q]
  BY DEF RunsInv, Requests, NoRequest
<1>4. CASE request' = closed /\ UNCHANGED <<last, recent>>
  BY <1>1, <1>2, <1>3, <1>4 DEF RunsInv, Covers, LastIsRecent
<1>5. CASE /\ Records("schedule", request[r].row, Verdict(r))
           /\ request' = [q \in Client |->
                IF q # r /\ request[q].at = "open"
                THEN [request[q] EXCEPT !.row = Seen("schedule", @, Verdict(r))]
                ELSE closed[q]]
  <2>1. request[r].row \in ReadRow /\ Covers(request[r].row, last["schedule"])
    BY OpenHasRow DEF Reply, RunsInv
  <2>2. /\ last' \in [SavedRow -> Value] /\ recent' \in [SavedRow -> SUBSET Value]
        /\ last'["schedule"] \in recent'["schedule"]
        /\ \A y \in SavedRow : y # "schedule" => last'[y] = last[y] /\ recent'[y] = recent[y]
        /\ last'["schedule"] \in {Verdict(r), last["schedule"]}
    BY <1>0, <1>5, <2>1, CommitRecords
  <2>3. LastIsRecent'
    BY <1>0, <2>2, RecentStill
  <2>4. ASSUME NEW q \in Client
        PROVE  /\ request'[q] \in Requests
               /\ request'[q].at = "open" => Covers(request'[q].row, last'["schedule"])
    <3>1. CASE q # r /\ request[q].at = "open"
      <4>1. /\ request[q] = [kind |-> request[q].kind, at |-> "open", row |-> request[q].row]
            /\ request[q].kind \in Kind /\ request[q].row \in ReadRow
            /\ Covers(request[q].row, last["schedule"])
        BY <3>1, OpenHasRow DEF RunsInv
      <4>2. request'[q] = [request[q] EXCEPT !.row = Seen("schedule", request[q].row, Verdict(r))]
        BY <1>5, <3>1
      <4>3. request'[q] = [kind |-> request[q].kind, at |-> "open",
                           row |-> Seen("schedule", request[q].row, Verdict(r))]
        BY <4>1, <4>2
      <4>4. Seen("schedule", request[q].row, Verdict(r)) \in ReadRow
        BY <1>0, <4>1, SeenIsRow
      <4>5. Covers(Seen("schedule", request[q].row, Verdict(r)), last'["schedule"])
        BY <1>0, <2>2, <4>1, SeenIsRow DEF Covers
      <4> QED
        BY <4>1, <4>3, <4>4, <4>5 DEF Requests
    <3>2. CASE ~(q # r /\ request[q].at = "open")
      <4>1. request'[q] = closed[q]
        BY <1>5, <3>2
      <4>2. closed[q].at # "open"
        BY <1>3, <3>2
      <4> QED
        BY <1>3, <4>1, <4>2
    <3> QED
      BY <3>1, <3>2
  <2>5. request' \in [Client -> Requests]
    BY <1>5, <2>4
  <2> QED
    BY <1>0, <1>1, <1>2, <2>2, <2>3, <2>4, <2>5 DEF RunsInv, Covers
<1> QED
  BY <1>4, <1>5 DEF Reply

LEMMA RunsInitInv == CommandInit => RunsInv
BY DEF CommandInit, RunsInv, Value, SavedRow, Requests, Tasks, NoRequest, NoTask, LastIsRecent

LEMMA RunsStepInv == RunsInv /\ [CommandNext]_command_vars => RunsInv'
<1>1. ASSUME RunsInv, NEW r \in Client, NEW d \in Router, TimesOut(r, d) \/ Fails(r, d)
      PROVE  RunsInv'
  BY <1>1, QuietTask DEF TimesOut, Fails
<1>2. ASSUME RunsInv, \/ UNCHANGED command_vars
                      \/ NotFound
                      \/ \E x \in SavedRow : Delete(x)
      PROVE  RunsInv'
  BY <1>2 DEF RunsInv, Covers, LastIsRecent, command_vars, NotFound, Delete
<1> QED
  BY <1>1, <1>2, AskKeeps, AdmitKeeps, RefuseKeeps, LoadKeeps, EndRunKeeps, ReplyKeeps
     DEF CommandNext, ClientGoes, TaskGoes, RequestGoes, Kind

(* What a command says of its last run, and a schedule, is what the last   *)
(* one to end gave, or one that ended while that was under way.            *)
THEOREM CommandLastIsRecent == CommandSpec => []LastIsRecent
<1>1. RunsInv => LastIsRecent
  BY DEF RunsInv
<1> QED
  BY <1>1, RunsInitInv, RunsStepInv, PTL DEF CommandSpec

-----------------------------------------------------------------------------
(* BulkImport.  The rows an import is through with, but for those that     *)
(* were in error, have their host somewhere: in the inventory, in what an  *)
(* import has inserted, or among what was given up.                        *)
Somewhere(h) == h \in inventory \cup given_up \/ \E i \in Import : h \in Inserted(i)

Imports ==
  [at : {"looks", "inserts", "done"}, table : Table, row : Nat,
   credentials : SUBSET Nat, devices : SUBSET Nat, errors : SUBSET Nat]

\* What is so of an import by itself.
RowsSound(w) ==
  /\ w.row \in 1 .. Len(w.table) + 1
  /\ w.at = "done" <=> w.row = Len(w.table) + 1
  /\ w.devices \subseteq 1 .. w.row - 1
  /\ w.credentials = IF w.at = "inserts" THEN w.devices \cup {w.row} ELSE w.devices

\* Hosts of the rows an import is through with.
Through(w) == {w.table[n] : n \in (1 .. w.row - 1) \ w.errors}

ImportInv ==
  /\ import \in [Import -> Imports \cup {NoImport}]
  /\ \A i \in Import : Going(i) =>
       /\ RowsSound(import[i])
       /\ \A h \in Through(import[i]) : Somewhere(h)
  /\ \A h \in asked : Somewhere(h)

LEMMA TableLength ==
  \A table \in Table : Len(table) \in Nat \ {0}
BY ImportAssumption, EmptySeq DEF ImportAssumption

LEMMA ImportInitInv == ImportInit => ImportInv
BY DEF ImportInit, ImportInv, Going

LEMMA GoingForm ==
  ASSUME ImportInv, NEW i \in Import, Going(i)
  PROVE  /\ import[i] \in Imports /\ RowsSound(import[i])
         /\ Len(import[i].table) \in Nat \ {0}
BY TableLength DEF ImportInv, Going, Imports

(* A step of one import, after which it is through with its row, or not;   *)
(* what was somewhere is so still.                                         *)
LEMMA ImportTurns ==
  ASSUME ImportInv, NEW i \in Import, NEW w \in Imports,
         Turns(i, w), RowsSound(w), w # NoImport,
         \A h : Somewhere(h) => Somewhere(h)',
         \A h \in Through(w) : Somewhere(h)',
         asked' = asked
  PROVE  ImportInv'
<1>1. import' = [import EXCEPT ![i] = w]
  BY DEF Turns
<1>2. import' \in [Import -> Imports \cup {NoImport}]
  BY <1>1 DEF ImportInv
<1>3. import'[i] = w /\ \A j \in Import : j # i => import'[j] = import[j]
  BY <1>1 DEF ImportInv
<1>4. \A j \in Import : j # i => (Going(j)' <=> Going(j))
  BY <1>3 DEF Going
<1> QED
  BY <1>2, <1>3, <1>4 DEF ImportInv

\* Another row of the same import, which keeps what it has inserted.
LEMMA KeepsSomewhere ==
  ASSUME ImportInv, NEW i \in Import, Going(i), NEW w,
         Turns(i, w), w # NoImport, w.table = import[i].table,
         import[i].devices \subseteq w.devices,
         inventory \subseteq inventory', given_up' = given_up
  PROVE  \A h : Somewhere(h) => Somewhere(h)'
<1>1. import'[i] = w /\ \A j \in Import : j # i => import'[j] = import[j]
  BY DEF Turns, ImportInv
<1>2. \A j \in Import : Inserted(j) \subseteq Inserted(j)'
  BY <1>1 DEF Inserted, HostsOf, Going
<1> QED
  BY <1>2 DEF Somewhere

LEMMA NextRowForm ==
  ASSUME NEW i \in Import, import[i] \in Imports, NEW credentials, NEW devices,
         NEW w, w = NextRow(i, credentials, devices)
  PROVE  w = [at |-> IF import[i].row = Len(import[i].table) THEN "done" ELSE "looks",
              table |-> import[i].table, row |-> import[i].row + 1,
              credentials |-> credentials, devices |-> devices,
              errors |-> import[i].errors]
<1>1. import[i] = [at |-> import[i].at, table |-> import[i].table,
                   row |-> import[i].row, credentials |-> import[i].credentials,
                   devices |-> import[i].devices, errors |-> import[i].errors]
  BY DEF Imports
<1> QED
  BY <1>1 DEF NextRow

LEMMA TakenBack ==
  ASSUME ImportInv, NEW i \in Import, Going(i), import[i].at \in {"looks", "inserts"}
  PROVE  /\ TakeBack(i) \in Imports /\ RowsSound(TakeBack(i))
         /\ TakeBack(i).table = import[i].table
         /\ TakeBack(i).row = import[i].row + 1
         /\ TakeBack(i).devices = import[i].devices
         /\ TakeBack(i).errors = import[i].errors
         /\ TakeBack(i).at \in {"looks", "done"}
         /\ TakeBack(i) # NoImport
<1>1. /\ import[i] \in Imports /\ RowsSound(import[i])
      /\ Len(import[i].table) \in Nat \ {0}
  BY GoingForm
<1>2. import[i].row \in 1 .. Len(import[i].table) /\ import[i].row \notin import[i].devices
  BY <1>1 DEF RowsSound, Imports
<1>3. /\ import[i].credentials \ {import[i].row} = import[i].devices
      /\ import[i].devices \ {import[i].row} = import[i].devices
  BY <1>1, <1>2 DEF RowsSound
<1>a. TakeBack(i) = NextRow(i, import[i].devices, import[i].devices)
  BY <1>3 DEF TakeBack
<1>4. TakeBack(i) = [at |-> IF import[i].row = Len(import[i].table) THEN "done" ELSE "looks",
                     table |-> import[i].table, row |-> import[i].row + 1,
                     credentials |-> import[i].devices, devices |-> import[i].devices,
                     errors |-> import[i].errors]
  BY <1>1, <1>a, NextRowForm DEF Imports
<1>5. TakeBack(i) \in Imports
  BY <1>1, <1>2, <1>4 DEF Imports
<1>6. RowsSound(TakeBack(i))
  BY <1>1, <1>2, <1>4 DEF RowsSound
<1> QED
  BY <1>4, <1>5, <1>6 DEF NoImport

\* The row that is taken back has its host somewhere.
LEMMA TakeBackKeeps ==
  ASSUME ImportInv, NEW i \in Import, Going(i), import[i].at \in {"looks", "inserts"},
         Turns(i, TakeBack(i)), Somewhere(RowHost(i)),
         UNCHANGED <<inventory, asked, given_up>>
  PROVE  ImportInv'
<1>1. \A h : Somewhere(h) => Somewhere(h)'
  BY TakenBack, KeepsSomewhere
<1>2. TakeBack(i) \in Imports /\ RowsSound(TakeBack(i)) /\ TakeBack(i) # NoImport
  BY TakenBack
<1>3. import[i].row \in Nat
  BY GoingForm DEF Imports
<1>4. Through(TakeBack(i)) \subseteq Through(import[i]) \cup {RowHost(i)}
  BY <1>3, TakenBack DEF Through, RowHost
<1>5. \A h \in Through(TakeBack(i)) : Somewhere(h)
  BY <1>4 DEF ImportInv
<1> QED
  BY <1>1, <1>2, <1>5, ImportTurns

LEMMA LookKeeps ==
  ASSUME ImportInv, NEW i \in Import, LookUpHost(i)
  PROVE  ImportInv'
<1>1. Going(i) /\ import[i].at = "looks"
  BY DEF LookUpHost, Going, NoImport
<1>2. CASE RowHost(i) \in inventory \cup Inserted(i)
  BY <1>1, <1>2, TakeBackKeeps DEF LookUpHost, Somewhere
<1>3. CASE RowHost(i) \notin inventory \cup Inserted(i)
  <2> DEFINE w == [import[i] EXCEPT
                     !.at = "inserts", !.credentials = @ \cup {import[i].row}]
  <2>1. import[i] \in Imports /\ RowsSound(import[i])
    BY <1>1, GoingForm
  <2>2. w \in Imports /\ w.at = "inserts" /\ w.table = import[i].table
        /\ w.row = import[i].row /\ w.devices = import[i].devices
        /\ w.errors = import[i].errors
        /\ w.credentials = import[i].credentials \cup {import[i].row}
    BY <2>1 DEF Imports
  <2>3. RowsSound(w)
    BY <1>1, <2>1, <2>2 DEF RowsSound
  <2>4. w # NoImport
    BY <2>2 DEF NoImport
  <2>5. Turns(i, w) /\ UNCHANGED <<inventory, asked, given_up>>
    BY <1>3 DEF LookUpHost
  <2> HIDE DEF w
  <2>6. \A h : Somewhere(h) => Somewhere(h)'
    BY <1>1, <2>2, <2>4, <2>5, KeepsSomewhere
  <2>7. \A h \in Through(w) : Somewhere(h)
    BY <1>1, <2>2 DEF Through, ImportInv
  <2> QED
    BY <2>2, <2>3, <2>4, <2>5, <2>6, <2>7, ImportTurns
<1> QED
  BY <1>2, <1>3

LEMMA InsertKeeps ==
  ASSUME ImportInv, NEW i \in Import, Insert(i)
  PROVE  ImportInv'
<1>1. Going(i) /\ import[i].at = "inserts"
  BY DEF Insert, Going, NoImport
<1>2. CASE RowHost(i) \in inventory
  BY <1>1, <1>2, TakeBackKeeps DEF Insert, Somewhere
<1>3. CASE RowHost(i) \notin inventory
  <2> DEFINE w == NextRow(i, import[i].credentials,
                             import[i].devices \cup {import[i].row})
  <2>1. import[i] \in Imports /\ RowsSound(import[i]) /\ Len(import[i].table) \in Nat \ {0}
    BY <1>1, GoingForm
  <2>3. w = [at |-> IF import[i].row = Len(import[i].table) THEN "done" ELSE "looks",
             table |-> import[i].table, row |-> import[i].row + 1,
             credentials |-> import[i].credentials,
             devices |-> import[i].devices \cup {import[i].row},
             errors |-> import[i].errors]
    BY <2>1, NextRowForm DEF Imports
  <2>4. Turns(i, w) /\ UNCHANGED <<inventory, asked, given_up>>
    BY <1>3 DEF Insert
  <2> HIDE DEF w
  <2>5. import[i].row \in 1 .. Len(import[i].table)
        /\ import[i].credentials = import[i].devices \cup {import[i].row}
    BY <1>1, <2>1 DEF RowsSound, Imports
  <2>6. w \in Imports
    BY <2>1, <2>3, <2>5 DEF Imports
  <2>7. RowsSound(w)
    BY <2>1, <2>3, <2>5 DEF RowsSound
  <2>8. w # NoImport /\ w.table = import[i].table /\ import[i].devices \subseteq w.devices
        /\ w.row = import[i].row + 1 /\ w.errors = import[i].errors
        /\ import[i].row \in w.devices
    BY <2>3 DEF NoImport
  <2>9. \A h : Somewhere(h) => Somewhere(h)'
    BY <1>1, <2>4, <2>8, KeepsSomewhere
  <2>10. Through(w) \subseteq Through(import[i]) \cup {RowHost(i)}
    BY <2>5, <2>8 DEF Through, RowHost
  <2>11. import'[i] = w
    BY <2>4 DEF Turns, ImportInv
  <2>12. RowHost(i) \in Inserted(i)'
    BY <2>8, <2>11 DEF RowHost, Inserted, HostsOf, Going
  <2>13. \A h \in Through(w) : Somewhere(h)'
    BY <1>1, <2>9, <2>10, <2>12 DEF ImportInv, Somewhere
  <2> QED
    BY <2>4, <2>6, <2>7, <2>8, <2>9, <2>13, ImportTurns
<1> QED
  BY <1>2, <1>3

LEMMA VictimKeeps ==
  ASSUME ImportInv, NEW i \in Import, Victim(i)
  PROVE  ImportInv'
<1>1. PICK j \in Import : Waits(i, j)
  BY DEF Victim
<1>2. Going(i) /\ import[i].at = "inserts" /\ Somewhere(RowHost(i))
  BY <1>1 DEF Waits, Going, NoImport, Somewhere
<1> QED
  BY <1>2, TakeBackKeeps DEF Victim

LEMMA RowFailsKeeps ==
  ASSUME ImportInv, NEW i \in Import, RowFails(i)
  PROVE  ImportInv'
<1> DEFINE w == [TakeBack(i) EXCEPT !.errors = @ \cup {import[i].row}]
<1>1. Going(i) /\ import[i].at \in {"looks", "inserts"}
  BY DEF RowFails, Going, NoImport
<1>2. Turns(i, w) /\ UNCHANGED <<inventory, asked, given_up>>
  BY DEF RowFails
<1>3. import[i].row \in Nat
  BY <1>1, GoingForm DEF Imports
<1>4. w \in Imports /\ w.at = TakeBack(i).at /\ w.table = import[i].table
      /\ w.row = import[i].row + 1 /\ w.devices = import[i].devices
      /\ w.credentials = TakeBack(i).credentials
      /\ w.errors = import[i].errors \cup {import[i].row}
  BY <1>1, <1>3, TakenBack DEF Imports
<1> HIDE DEF w
<1>5. RowsSound(w) /\ w # NoImport
  <2>1. /\ TakeBack(i).table = w.table /\ TakeBack(i).row = w.row
        /\ TakeBack(i).devices = w.devices /\ w.at = TakeBack(i).at
        /\ w.credentials = TakeBack(i).credentials
    BY <1>1, <1>4, TakenBack
  <2>2. RowsSound(TakeBack(i)) /\ w.at \in {"looks", "done"}
    BY <1>1, <2>1, TakenBack
  <2>3. RowsSound(w)
    BY <2>1, <2>2 DEF RowsSound
  <2> QED
    BY <2>2, <2>3 DEF NoImport
<1>6. \A h : Somewhere(h) => Somewhere(h)'
  BY <1>1, <1>2, <1>4, <1>5, KeepsSomewhere
<1>7. Through(w) \subseteq Through(import[i])
  BY <1>3, <1>4 DEF Through
<1>8. \A h \in Through(w) : Somewhere(h)'
  BY <1>1, <1>6, <1>7 DEF ImportInv
<1> QED
  BY <1>2, <1>4, <1>5, <1>6, <1>8, ImportTurns

LEMMA BeginKeeps ==
  ASSUME ImportInv, NEW i \in Import, NEW table \in Table, Begin(i, table)
  PROVE  ImportInv'
<1> DEFINE w == [at |-> "looks", table |-> table, row |-> 1,
                 credentials |-> {}, devices |-> {}, errors |-> {}]
<1>1. Turns(i, w) /\ UNCHANGED <<inventory, asked, given_up>> /\ ~Going(i)
  BY DEF Begin
<1>2. w \in Imports /\ w # NoImport
  BY DEF Imports, NoImport
<1>3. RowsSound(w)
  BY TableLength DEF RowsSound
<1>4. Through(w) = {}
  BY DEF Through
<1> HIDE DEF w
<1>5. \A j \in Import : j # i => import'[j] = import[j]
  BY <1>1 DEF Turns, ImportInv
<1>6. \A j \in Import : Inserted(j) \subseteq Inserted(j)'
  BY <1>1, <1>5 DEF Inserted, HostsOf, Going
<1>7. \A h : Somewhere(h) => Somewhere(h)'
  BY <1>1, <1>6 DEF Somewhere
<1> QED
  BY <1>1, <1>2, <1>3, <1>4, <1>7, ImportTurns

\* Steps that leave the other imports as they are, and end this one.
LEMMA EndKeeps ==
  ASSUME ImportInv, NEW i \in Import, Turns(i, NoImport),
         \A h : Somewhere(h) => Somewhere(h)',
         \A h \in asked' : Somewhere(h)'
  PROVE  ImportInv'
<1>1. import' \in [Import -> Imports \cup {NoImport}]
  BY DEF Turns, ImportInv
<1>2. ~Going(i)' /\ \A j \in Import : j # i => import'[j] = import[j]
  BY DEF Turns, ImportInv, Going
<1>3. \A j \in Import : Going(j)' => Going(j) /\ import'[j] = import[j]
  BY <1>2 DEF Going
<1> QED
  BY <1>1, <1>3 DEF ImportInv

LEMMA CommitKeeps ==
  ASSUME ImportInv, NEW i \in Import, CommitImport(i)
  PROVE  ImportInv'
<1>1. Going(i) /\ import[i].at = "done"
  BY DEF CommitImport, Going, NoImport
<1>2. \A j \in Import : j # i => import'[j] = import[j]
  BY DEF CommitImport, Turns, ImportInv
<1>3. \A j \in Import : j # i => Inserted(j)' = Inserted(j)
  BY <1>2 DEF Inserted, HostsOf, Going
<1>4. \A h : Somewhere(h) => Somewhere(h)'
  BY <1>3 DEF CommitImport, Somewhere
<1>5. import[i].row = Len(import[i].table) + 1 /\ Len(import[i].table) \in Nat
  BY <1>1, GoingForm DEF RowsSound
<1>6. HostsOf(i, 1 .. Len(import[i].table) \ import[i].errors) \subseteq Through(import[i])
  BY <1>5 DEF HostsOf, Through
<1>7. \A h \in asked' : Somewhere(h)
  BY <1>1, <1>6 DEF CommitImport, ImportInv
<1> QED
  BY <1>4, <1>7, EndKeeps DEF CommitImport

LEMMA LoseKeeps ==
  ASSUME ImportInv, NEW i \in Import, Lose(i)
  PROVE  ImportInv'
<1>1. \A j \in Import : j # i => import'[j] = import[j]
  BY DEF Lose, Turns, ImportInv
<1>2. \A j \in Import : j # i => Inserted(j)' = Inserted(j)
  BY <1>1 DEF Inserted, HostsOf, Going
<1>3. \A h : Somewhere(h) => Somewhere(h)'
  BY <1>2 DEF Lose, Somewhere
<1> QED
  BY <1>3, EndKeeps DEF Lose, ImportInv

LEMMA InventoryKeeps ==
  ASSUME ImportInv, import' = import, asked' = asked,
         inventory \cup given_up \subseteq inventory' \cup given_up'
  PROVE  ImportInv'
<1>1. \A j \in Import : Inserted(j)' = Inserted(j) /\ (Going(j)' <=> Going(j))
  BY DEF Inserted, HostsOf, Going
<1>2. \A h : Somewhere(h) => Somewhere(h)'
  BY <1>1 DEF Somewhere
<1> QED
  BY <1>1, <1>2 DEF ImportInv

LEMMA ImportStepInv == ImportInv /\ [ImportNext]_import_vars => ImportInv'
<1>1. ASSUME ImportInv, NEW h \in Host, AddOne(h) \/ DeleteOne(h)
      PROVE  ImportInv'
  BY <1>1, InventoryKeeps DEF AddOne, DeleteOne
<1>2. ASSUME ImportInv, UNCHANGED import_vars
      PROVE  ImportInv'
  BY <1>2, InventoryKeeps DEF import_vars
<1> QED
  BY <1>1, <1>2, BeginKeeps, LookKeeps, InsertKeeps, VictimKeeps, RowFailsKeeps,
     CommitKeeps, LoseKeeps DEF ImportNext

(* A row that fails takes back its credential and nothing else: every host *)
(* of a committed import is somewhere, but for rows that were in error.    *)
THEOREM ImportRowsIsolated == ImportSpec => []RowsIsolated
<1>1. ASSUME ImportInv, NEW i \in Import, Going(i), import[i].at # "inserts"
      PROVE  import[i].credentials = import[i].devices
  BY <1>1 DEF ImportInv, RowsSound
<1>2. ImportInv => RowsIsolated
  BY <1>1 DEF ImportInv, RowsIsolated, Somewhere
<1> QED
  BY <1>2, ImportInitInv, ImportStepInv, PTL DEF ImportSpec

-----------------------------------------------------------------------------
(* ServiceCatalog.  What requests hold names services, and the two ends of *)
(* a dependency that is about to be written are two.                       *)
MemberRow ==
  [of : ServiceId, names : Element \cup {NoElement}, bare : BOOLEAN]

EditorTask ==
  [at : {"creates"}, title : Title, els : SUBSET (Element \cup {NoElement})]
  \cup [at : {"renames"}, service : ServiceId, title : Title]
  \cup [at : {"deletes"}, service : ServiceId, loaded : [ServiceId \X ServiceId -> Nat]]
  \cup [at : {"joins"}, service : ServiceId, names : Element]
  \cup [at : {"links"}, from : ServiceId, to : ServiceId]

CatalogueTypeOK ==
  /\ title \in [ServiceId -> Title \cup {NoTitle}]
  /\ created \subseteq ServiceId
  /\ edges \in [ServiceId \X ServiceId -> Nat]
  /\ members \subseteq MemberRow
  /\ elements \subseteq Element
  /\ editor \in [Editor -> {NoEditor} \cup EditorTask]

\* Services that were never created are not there.
Unmade == \A s \in ServiceId \ created : ~Exists(s)

EndsDiffer == \A e \in Editor : Edits(e, "links") => editor[e].from # editor[e].to

CatalogueInv == CatalogueTypeOK /\ Unmade /\ EndsDiffer /\ CatalogueSound

LEMMA CatalogueInitInv == CatalogueInit => CatalogueInv
  BY DEF CatalogueInit, CatalogueInv, CatalogueTypeOK, Unmade, EndsDiffer,
     CatalogueSound, Exists, Edits

(* A request that ends disturbs no other.                                  *)
LEMMA EndKeepsEditors ==
  ASSUME CatalogueInv, NEW e \in Editor, Ends(e)
  PROVE  EndsDiffer' /\ editor' \in [Editor -> {NoEditor} \cup EditorTask]
  BY DEF CatalogueInv, CatalogueTypeOK, EndsDiffer, Ends, Edits, NoEditor

(* A request begins, or ends without a write.                              *)
LEMMA ReadKeeps ==
  ASSUME CatalogueInv, NEW e \in Editor,
         \/ \E t \in Title, els \in SUBSET (Element \cup {NoElement}) : CheckName(e, t, els)
         \/ \E s \in ServiceId, t \in Title : FindService(e, s, t)
         \/ \E s \in ServiceId : LoadService(e, s)
         \/ \E s \in ServiceId, el \in Element : CheckMember(e, s, el)
         \/ \E s, t \in ServiceId : CheckDependency(e, s, t)
         \/ EditFails(e)
  PROVE  CatalogueInv'
<1> DEFINE Begins(w) == /\ w \in EditorTask
                        /\ editor' = [editor EXCEPT ![e] = w]
                        /\ w.at = "links" => w.from # w.to
<1>1. UNCHANGED <<title, created, edges, members, elements>>
  BY DEF CheckName, FindService, LoadService, CheckMember, CheckDependency, EditFails, Reads
<1>2. edges \in [ServiceId \X ServiceId -> Nat]
  BY DEF CatalogueInv, CatalogueTypeOK
<1>3. ASSUME NEW t \in Title, NEW els \in SUBSET (Element \cup {NoElement}), CheckName(e, t, els)
      PROVE  \E w : Begins(w)
  <2> DEFINE w == [at |-> "creates", title |-> t, els |-> els]
  <2>1. w \in EditorTask /\ w.at # "links"
    BY DEF EditorTask
  <2> QED
    BY <2>1, <1>3 DEF CheckName, Reads
<1>4. ASSUME NEW s \in ServiceId, NEW t \in Title, FindService(e, s, t)
      PROVE  \E w : Begins(w)
  <2> DEFINE w == [at |-> "renames", service |-> s, title |-> t]
  <2>1. w \in EditorTask /\ w.at # "links"
    BY DEF EditorTask
  <2> QED
    BY <2>1, <1>4 DEF FindService, Reads
<1>5. ASSUME NEW s \in ServiceId, LoadService(e, s)
      PROVE  \E w : Begins(w)
  <2> DEFINE w == [at |-> "deletes", service |-> s, loaded |-> edges]
  <2>1. w \in EditorTask /\ w.at # "links"
    BY <1>2 DEF EditorTask
  <2> QED
    BY <2>1, <1>5 DEF LoadService, Reads
<1>6. ASSUME NEW s \in ServiceId, NEW el \in Element, CheckMember(e, s, el)
      PROVE  \E w : Begins(w)
  <2> DEFINE w == [at |-> "joins", service |-> s, names |-> el]
  <2>1. w \in EditorTask /\ w.at # "links"
    BY DEF EditorTask
  <2> QED
    BY <2>1, <1>6 DEF CheckMember, Reads
<1>7. ASSUME NEW s \in ServiceId, NEW t \in ServiceId, CheckDependency(e, s, t)
      PROVE  \E w : Begins(w)
  <2> DEFINE w == [at |-> "links", from |-> s, to |-> t]
  <2>1. w \in EditorTask /\ w.from # w.to
    BY <1>7 DEF EditorTask, CheckDependency
  <2> QED
    BY <2>1, <1>7 DEF CheckDependency, Reads
<1>8. CatalogueTypeOK' /\ EndsDiffer'
  <2>1. CASE EditFails(e)
    BY <2>1, <1>1, EndKeepsEditors DEF CatalogueInv, CatalogueTypeOK, EditFails
  <2>2. CASE \E w : Begins(w)
    <3>1. PICK w : Begins(w)
      BY <2>2
    <3>2. CatalogueTypeOK'
      BY <3>1, <1>1 DEF CatalogueInv, CatalogueTypeOK
    <3>3. EndsDiffer'
      BY <3>1 DEF CatalogueInv, CatalogueTypeOK, EndsDiffer, Edits
    <3> QED
      BY <3>2, <3>3
  <2> QED
    BY <2>1, <2>2, <1>3, <1>4, <1>5, <1>6, <1>7
<1>9. Unmade' /\ CatalogueSound'
  BY <1>1 DEF CatalogueInv, Unmade, CatalogueSound, Exists
<1> QED
  BY <1>8, <1>9 DEF CatalogueInv

LEMMA CreateKeeps ==
  ASSUME CatalogueInv, NEW e \in Editor, CreateService(e)
  PROVE  CatalogueInv'
<1> DEFINE els == editor[e].els
<1>1. PICK s \in ServiceId \ created :
        /\ created' = created \cup {s}
        /\ title' = [title EXCEPT ![s] = editor[e].title]
        /\ members' = members \cup {Member(s, el) : el \in els}
  BY DEF CreateService
<1>2. editor[e].title \in Title /\ els \subseteq elements \cup {NoElement}
  BY DEF CatalogueInv, CatalogueTypeOK, EditorTask, CreateService, Edits, NoEditor
<1>3. CatalogueTypeOK'
  <2>1. \A el \in els : Member(s, el) \in MemberRow
    BY <1>2 DEF Member, MemberRow, CatalogueInv, CatalogueTypeOK
  <2> QED
    BY <1>1, <1>2, <2>1, EndKeepsEditors DEF CatalogueInv, CatalogueTypeOK, CreateService
<1>4. Exists(s)' /\ \A r \in ServiceId : Exists(r) => Exists(r)'
  BY <1>1, <1>2, ServiceAssumption DEF CatalogueInv, CatalogueTypeOK, Exists
<1>5. Unmade'
  BY <1>1 DEF CatalogueInv, CatalogueTypeOK, Unmade, Exists
<1>6. \A el \in els : LET m == Member(s, el) IN
        IF m.names = NoElement THEN m.bare ELSE m.names \in elements
  BY <1>2 DEF Member
<1>7. CatalogueSound'
  <2>1. ASSUME NEW p \in DOMAIN edges', edges'[p] > 0
        PROVE  edges'[p] = 1 /\ Exists(p[1])' /\ Exists(p[2])' /\ p[1] # p[2]
    BY <2>1, <1>4 DEF CatalogueInv, CatalogueTypeOK, CatalogueSound, CreateService
  <2>2. ASSUME NEW m \in members'
        PROVE  Exists(m.of)' /\ IF m.names = NoElement THEN m.bare \/ elements' # Element
                                ELSE m.names \in elements'
    <3>1. CASE m \in members
      BY <3>1, <1>4 DEF CatalogueInv, CatalogueTypeOK, CatalogueSound,
         MemberRow, CreateService
    <3>2. CASE m \in {Member(s, el) : el \in els}
      <4>1. PICK el \in els : m = Member(s, el)
        BY <3>2
      <4>2. m.of = s
        BY <4>1 DEF Member
      <4> QED
        BY <4>1, <4>2, <1>4, <1>6 DEF CreateService
    <3> QED
      BY <3>1, <3>2, <1>1
  <2> QED
    BY <2>1, <2>2 DEF CatalogueSound
<1> QED
  BY <1>3, <1>5, <1>7, EndKeepsEditors DEF CatalogueInv, CreateService

LEMMA RenameKeeps ==
  ASSUME CatalogueInv, NEW e \in Editor, RenameService(e)
  PROVE  CatalogueInv'
<1>1. editor[e].service \in ServiceId /\ editor[e].title \in Title
  BY DEF CatalogueInv, CatalogueTypeOK, EditorTask, RenameService, Edits, NoEditor
<1>2. CatalogueTypeOK'
  BY <1>1, EndKeepsEditors DEF CatalogueInv, CatalogueTypeOK, RenameService
<1>3. \A r \in ServiceId : Exists(r)' <=> Exists(r)
  BY <1>1, ServiceAssumption DEF CatalogueInv, CatalogueTypeOK, RenameService, Exists
<1>4. Unmade' /\ CatalogueSound'
  BY <1>3 DEF CatalogueInv, CatalogueTypeOK, Unmade, CatalogueSound,
     MemberRow, RenameService
<1> QED
  BY <1>2, <1>4, EndKeepsEditors DEF CatalogueInv, RenameService

LEMMA DeleteKeeps ==
  ASSUME CatalogueInv, NEW e \in Editor, DeleteService(e)
  PROVE  CatalogueInv'
<1> DEFINE s == editor[e].service
<1>1. s \in ServiceId
  BY DEF CatalogueInv, CatalogueTypeOK, EditorTask, DeleteService, Edits, NoEditor
<1>2. CatalogueTypeOK'
  BY <1>1, EndKeepsEditors DEF CatalogueInv, CatalogueTypeOK, DeleteService, Cascaded
<1>3. \A r \in ServiceId : Exists(r)' <=> r # s /\ Exists(r)
  BY <1>1 DEF CatalogueInv, CatalogueTypeOK, DeleteService, Exists
<1>4. Unmade' /\ CatalogueSound'
  BY <1>3 DEF CatalogueInv, CatalogueTypeOK, Unmade, CatalogueSound,
     MemberRow, DeleteService, Cascaded
<1> QED
  BY <1>2, <1>4, EndKeepsEditors DEF CatalogueInv, DeleteService

LEMMA AddMemberKeeps ==
  ASSUME CatalogueInv, NEW e \in Editor, AddMember(e)
  PROVE  CatalogueInv'
<1>1. editor[e].service \in ServiceId /\ editor[e].names \in Element
  BY DEF CatalogueInv, CatalogueTypeOK, EditorTask, AddMember, Edits, NoEditor
<1> DEFINE m == Member(editor[e].service, editor[e].names)
<1>2. members' = members \cup {m} /\ m \in MemberRow
  BY <1>1 DEF AddMember, Member, MemberRow
<1>3. m.of = editor[e].service /\ m.names = editor[e].names
  BY DEF Member
<1>4. CatalogueTypeOK' /\ Unmade'
  BY <1>2, EndKeepsEditors DEF CatalogueInv, CatalogueTypeOK, AddMember, Unmade, Exists
<1>5. CatalogueSound'
  <2>1. Exists(m.of) /\ m.names # NoElement /\ m.names \in elements
    BY <1>1, <1>3, ServiceAssumption DEF AddMember
  <2> QED
    BY <2>1, <1>2 DEF CatalogueInv, CatalogueSound, AddMember, Exists
<1> QED
  BY <1>4, <1>5, EndKeepsEditors DEF CatalogueInv, AddMember

LEMMA AddDependencyKeeps ==
  ASSUME CatalogueInv, NEW e \in Editor, AddDependency(e)
  PROVE  CatalogueInv'
<1> DEFINE p == <<editor[e].from, editor[e].to>>
<1>1. p \in ServiceId \X ServiceId /\ p[1] # p[2]
  BY DEF CatalogueInv, CatalogueTypeOK, EditorTask, EndsDiffer,
     AddDependency, Edits, NoEditor
<1>2. edges' = [edges EXCEPT ![p] = 1] /\ Exists(p[1]) /\ Exists(p[2])
  BY <1>1 DEF CatalogueInv, CatalogueTypeOK, AddDependency
<1>3. CatalogueTypeOK' /\ Unmade'
  BY <1>1, <1>2 DEF CatalogueInv, CatalogueTypeOK, AddDependency, Ends, Unmade, Exists, EditorTask
<1>4. CatalogueSound'
  BY <1>1, <1>2 DEF CatalogueInv, CatalogueTypeOK, CatalogueSound, AddDependency, Exists
<1> QED
  BY <1>3, <1>4, EndKeepsEditors DEF CatalogueInv, AddDependency

LEMMA RemoveKeeps ==
  ASSUME CatalogueInv, RemoveMember \/ RemoveDependency
  PROVE  CatalogueInv'
<1>1. UNCHANGED <<title, created, elements, editor>> /\ members' \subseteq members
  BY DEF RemoveMember, RemoveDependency
<1>2. /\ edges' \in [ServiceId \X ServiceId -> Nat]
      /\ \A p \in ServiceId \X ServiceId : edges'[p] <= edges[p]
  BY DEF CatalogueInv, CatalogueTypeOK, RemoveMember, RemoveDependency
<1>3. CatalogueTypeOK' /\ Unmade' /\ EndsDiffer'
  BY <1>1, <1>2 DEF CatalogueInv, CatalogueTypeOK, Unmade, EndsDiffer, Exists, Edits
<1>4. ASSUME NEW p \in DOMAIN edges', edges'[p] > 0
      PROVE  edges'[p] = 1 /\ Exists(p[1])' /\ Exists(p[2])' /\ p[1] # p[2]
  <2>1. p \in ServiceId \X ServiceId /\ edges[p] \in Nat /\ edges'[p] \in Nat
    BY <1>2 DEF CatalogueInv, CatalogueTypeOK
  <2>2. edges[p] > 0 /\ p \in DOMAIN edges
    BY <2>1, <1>2, <1>4 DEF CatalogueInv, CatalogueTypeOK
  <2>3. edges[p] = 1 /\ Exists(p[1]) /\ Exists(p[2]) /\ p[1] # p[2]
    BY <2>2 DEF CatalogueInv, CatalogueSound
  <2> QED
    BY <2>1, <2>3, <1>1, <1>2, <1>4 DEF Exists
<1>5. CatalogueSound'
  BY <1>1, <1>4 DEF CatalogueInv, CatalogueSound, Exists
<1> QED
  BY <1>3, <1>5 DEF CatalogueInv

LEMMA DeviceGoneKeeps ==
  ASSUME CatalogueInv, NEW d \in Deletable, DeleteDevice(d)
  PROVE  CatalogueInv'
<1>1. d \in elements /\ elements' = elements \ {d} /\ elements' # Element
  BY DEF CatalogueInv, CatalogueTypeOK, DeleteDevice
<1>2. ASSUME NEW m \in members'
      PROVE  /\ m \in MemberRow
             /\ Exists(m.of)
             /\ m.names # NoElement => m.names \in elements'
  <2>1. PICK n \in members : m = 
          IF n.names = d THEN [of |-> n.of, names |-> NoElement, bare |-> n.bare] ELSE n
    BY DEF DeleteDevice
  <2>2. n \in MemberRow
        /\ Exists(n.of) /\ (n.names # NoElement => n.names \in elements)
    BY DEF CatalogueInv, CatalogueTypeOK, CatalogueSound, MemberRow
  <2>3. m.of = n.of /\ (m.names = NoElement \/ (m.names = n.names /\ n.names # d))
    BY <2>1, <2>2
  <2>4. m \in MemberRow
    BY <2>1, <2>2 DEF MemberRow
  <2> QED
    BY <2>2, <2>3, <2>4, <1>1
<1>3. CatalogueTypeOK' /\ Unmade' /\ EndsDiffer'
  BY <1>1, <1>2 DEF CatalogueInv, CatalogueTypeOK, DeleteDevice, Unmade, EndsDiffer, Exists, Edits
<1>4. CatalogueSound'
  BY <1>1, <1>2 DEF CatalogueInv, CatalogueSound, DeleteDevice, Exists
<1> QED
  BY <1>3, <1>4 DEF CatalogueInv

LEMMA CatalogueStepInv == CatalogueInv /\ [CatalogueNext]_service_vars => CatalogueInv'
<1>1. ASSUME CatalogueInv, UNCHANGED service_vars
      PROVE  CatalogueInv'
  BY <1>1 DEF service_vars, CatalogueInv, CatalogueTypeOK, Unmade, EndsDiffer,
     CatalogueSound, Exists, Edits
<1> QED
  BY <1>1, ReadKeeps, CreateKeeps, RenameKeeps, DeleteKeeps, AddMemberKeeps,
     AddDependencyKeeps, RemoveKeeps, DeviceGoneKeeps DEF CatalogueNext

(* However requests overlap, dependencies and members name what is there.  *)
THEOREM ServicesSound == CatalogueSpec => []CatalogueSound
<1>1. CatalogueInv => CatalogueSound
  BY DEF CatalogueInv
<1> QED
  BY <1>1, CatalogueInitInv, CatalogueStepInv, PTL DEF CatalogueSpec

-----------------------------------------------------------------------------
(* AccountTrail.  A request that nobody overtook has read what the role    *)
(* still is, and what it will write, or not, is what its line says.        *)
ChangeTask ==
  [at : {"read", "flushed", "noted"}, asked : UserRole, base : UserRole \cup {NoUser},
   writes : BOOLEAN, line : {<< >>} \cup (UserRole \cup {NoUser}) \X (UserRole \cup {NoUser}),
   alone : BOOLEAN, gone : BOOLEAN]

LineFits(a) ==
  /\ admin[a].writes <=> admin[a].at # "read" /\ admin[a].base # admin[a].asked
  /\ admin[a].alone => admin[a].base = role
  /\ admin[a].at = "noted" =>
       IF admin[a].writes THEN admin[a].line = <<admin[a].base, admin[a].asked>>
       ELSE admin[a].alone => admin[a].line = << >>

TrailInv ==
  /\ role \in UserRole \cup {NoUser}
  /\ admin \in [Admin -> {NoAdmin} \cup ChangeTask]
  /\ \A a \in Admin : Working(a) => LineFits(a)
  /\ TrailTrue

LEMMA TrailInitInv == TrailInit => TrailInv
  BY DEF TrailInit, TrailInv, TrailTrue, Working

(* The role becomes another, which the requests that go on know of.        *)
LEMMA BecomesKeeps ==
  ASSUME TrailInv, NEW a \in Admin, NEW to \in UserRole \cup {NoUser}, BecomesRole(a, to)
  PROVE  /\ role' \in UserRole \cup {NoUser}
         /\ admin' \in [Admin -> {NoAdmin} \cup ChangeTask]
         /\ \A b \in Admin : Working(b)' => LineFits(b)'
<1>1. ASSUME NEW b \in Admin
      PROVE  /\ admin'[b] \in {NoAdmin} \cup ChangeTask
             /\ Working(b)' => LineFits(b)'
  <2>1. CASE b = a \/ ~Working(b)
    BY <2>1 DEF BecomesRole, Working, TrailInv
  <2>2. CASE b # a /\ Working(b) /\ role = to
    BY <2>2 DEF BecomesRole, Working, TrailInv, LineFits
  <2>3. CASE b # a /\ Working(b) /\ role # to
    <3> DEFINE gone == admin[b].gone \/ (to = NoUser /\ admin[b].base # NoUser)
    <3>1. admin[b] \in ChangeTask /\ LineFits(b)
      BY <2>3 DEF TrailInv, Working
    <3>2. admin'[b] = [admin[b] EXCEPT !.alone = FALSE, !.gone = gone]
      BY <2>3 DEF BecomesRole, Working
    <3>3. admin'[b] \in ChangeTask /\ ~admin'[b].alone /\ admin'[b].at = admin[b].at
          /\ admin'[b].writes = admin[b].writes /\ admin'[b].base = admin[b].base
          /\ admin'[b].asked = admin[b].asked /\ admin'[b].line = admin[b].line
      BY <3>1, <3>2 DEF ChangeTask
    <3> QED
      BY <3>1, <3>3 DEF LineFits
  <2> QED
    BY <2>1, <2>2, <2>3
<1>2. admin' = [b \in Admin |-> admin'[b]]
  BY DEF BecomesRole
<1> QED
  BY <1>1, <1>2 DEF BecomesRole

LEMMA ChangeStepKeeps ==
  ASSUME TrailInv, NEW a \in Admin, NEW begun \in {NoAdmin} \cup ChangeTask,
         admin' = [admin EXCEPT ![a] = begun], UNCHANGED <<role, unsaid, untrue>>,
         begun # NoAdmin => LineFits(a)'
  PROVE  TrailInv'
<1>1. ASSUME NEW b \in Admin, Working(b)'
      PROVE  LineFits(b)'
  <2>1. CASE b = a
    BY <2>1, <1>1 DEF TrailInv, Working
  <2>2. CASE b # a
    BY <2>2, <1>1 DEF TrailInv, Working, LineFits
  <2> QED
    BY <2>1, <2>2
<1> QED
  BY <1>1 DEF TrailInv, TrailTrue

LEMMA BeginChangeKeeps ==
  ASSUME TrailInv, NEW a \in Admin, NEW wish \in UserRole, BeginChange(a, wish)
  PROVE  TrailInv'
<1> DEFINE begun == [at |-> "read", asked |-> wish, base |-> role, writes |-> FALSE,
                    line |-> << >>, alone |-> TRUE, gone |-> FALSE]
<1>1. begun \in ChangeTask
  BY DEF ChangeTask, TrailInv
<1>2. admin'[a] = begun /\ admin' = [admin EXCEPT ![a] = begun] /\ UNCHANGED <<role, unsaid, untrue>>
  BY DEF BeginChange, TrailInv
<1>3. LineFits(a)'
  BY <1>2 DEF LineFits
<1> QED
  BY <1>1, <1>2, <1>3, ChangeStepKeeps

LEMMA FlushRoleKeeps ==
  ASSUME TrailInv, NEW a \in Admin, FlushRole(a)
  PROVE  TrailInv'
<1> DEFINE begun == [admin[a] EXCEPT !.at = "flushed",
                                    !.writes = admin[a].base # admin[a].asked]
<1>1. admin[a] \in ChangeTask /\ LineFits(a) /\ admin[a].at = "read"
  BY DEF FlushRole, TrailInv, Working
<1>2. /\ begun \in ChangeTask /\ begun.at = "flushed" /\ begun.base = admin[a].base
      /\ begun.asked = admin[a].asked /\ begun.alone = admin[a].alone
      /\ begun.writes = (admin[a].base # admin[a].asked)
  BY <1>1 DEF ChangeTask
<1>3. admin'[a] = begun /\ admin' = [admin EXCEPT ![a] = begun] /\ UNCHANGED <<role, unsaid, untrue>>
  BY DEF FlushRole, TrailInv
<1>4. LineFits(a)'
  BY <1>1, <1>2, <1>3 DEF LineFits
<1> QED
  BY <1>2, <1>3, <1>4, ChangeStepKeeps

LEMMA WriteLineKeeps ==
  ASSUME TrailInv, NEW a \in Admin, WriteLine(a)
  PROVE  TrailInv'
<1> DEFINE line == IF PreviousRole(a) # RoleSeen(a)
                   THEN <<PreviousRole(a), RoleSeen(a)>> ELSE << >>
           begun == [admin[a] EXCEPT !.at = "noted", !.line = line]
<1>1. admin[a] \in ChangeTask /\ LineFits(a) /\ admin[a].at = "flushed"
  BY DEF WriteLine, TrailInv, Working
<1>2. line \in {<< >>} \cup (UserRole \cup {NoUser}) \X (UserRole \cup {NoUser})
  BY <1>1 DEF ChangeTask, TrailInv, PreviousRole, RoleSeen
<1>3. /\ begun \in ChangeTask /\ begun.at = "noted" /\ begun.base = admin[a].base
      /\ begun.asked = admin[a].asked /\ begun.alone = admin[a].alone
      /\ begun.writes = admin[a].writes /\ begun.line = line
  BY <1>1, <1>2 DEF ChangeTask
<1>4. admin'[a] = begun /\ admin' = [admin EXCEPT ![a] = begun] /\ UNCHANGED <<role, unsaid, untrue>>
  BY DEF WriteLine, TrailInv
<1>5. LineFits(a)'
  <2>1. admin[a].writes <=> admin[a].base # admin[a].asked
    BY <1>1 DEF LineFits
  <2>2. admin[a].writes => line = <<admin[a].base, admin[a].asked>>
    BY <2>1 DEF PreviousRole, RoleSeen
  <2>3. ~admin[a].writes /\ admin[a].alone => line = << >>
    BY <1>1 DEF LineFits, PreviousRole, RoleSeen
  <2> HIDE DEF line
  <2> QED
    BY <1>1, <1>3, <1>4, <2>1, <2>2, <2>3 DEF LineFits
<1> QED
  BY <1>3, <1>4, <1>5, ChangeStepKeeps

LEMMA CommitChangeKeeps ==
  ASSUME TrailInv, NEW a \in Admin, CommitChange(a)
  PROVE  TrailInv'
<1> DEFINE to   == IF admin[a].writes THEN admin[a].asked ELSE role
           line == admin[a].line
<1>1. admin[a] \in ChangeTask /\ LineFits(a) /\ admin[a].at = "noted"
  BY DEF CommitChange, TrailInv, Working
<1>2. to \in UserRole \cup {NoUser}
  BY <1>1 DEF ChangeTask, TrailInv
<1>3. /\ BecomesRole(a, to)
      /\ unsaid' = (unsaid \/ (to # role /\ (line = << >> \/ line[2] # to)))
      /\ untrue' = (untrue \/ (admin[a].alone
                               /\ line # IF to = role THEN << >> ELSE <<role, to>>))
  BY DEF CommitChange
<1>4. admin[a].writes => line = <<admin[a].base, admin[a].asked>> /\ admin[a].base # admin[a].asked
  BY <1>1 DEF LineFits
<1>5. ~(to # role /\ (line = << >> \/ line[2] # to))
  BY <1>4
<1>6. admin[a].alone => line = IF to = role THEN << >> ELSE <<role, to>>
  BY <1>1, <1>4 DEF LineFits
<1>7. TrailTrue'
  <2> HIDE DEF to, line
  <2> QED
    BY <1>3, <1>5, <1>6 DEF TrailInv, TrailTrue
<1> QED
  BY <1>2, <1>3, <1>7, BecomesKeeps DEF TrailInv

LEMMA TrailStepInv == TrailInv /\ [TrailNext]_trail_vars => TrailInv'
<1>1. ASSUME TrailInv, NEW a \in Admin, ChangeFails(a)
      PROVE  TrailInv'
  BY <1>1, ChangeStepKeeps DEF ChangeFails
<1>2. ASSUME TrailInv, NEW a \in Admin, DeleteUser(a)
      PROVE  TrailInv'
  BY <1>2, BecomesKeeps DEF DeleteUser, TrailInv, TrailTrue
<1>3. ASSUME TrailInv, UNCHANGED trail_vars
      PROVE  TrailInv'
  BY <1>3 DEF trail_vars, TrailInv, TrailTrue, Working, LineFits
<1> QED
  BY <1>1, <1>2, <1>3, BeginChangeKeeps, FlushRoleKeeps, WriteLineKeeps,
     CommitChangeKeeps DEF TrailNext

(* No committed change is without its line, and the line of one that       *)
(* nobody overtook says what happened, with any number of requests.        *)
THEOREM TrailIsTrue == TrailSpec => []TrailTrue
<1>1. TrailInv => TrailTrue
  BY DEF TrailInv
<1> QED
  BY <1>1, TrailInitInv, TrailStepInv, PTL DEF TrailSpec

-----------------------------------------------------------------------------
(* RoleCatalog.  A request that was told of no change of a role has read   *)
(* what its row still says, and a row that it has read is there as long as *)
(* it was not told that the role is gone.                                  *)
RoleRow == [built_in : BOOLEAN, permits : Permits]

RoleTask ==
  [at : {"lists"}, base : [BuiltIn -> RoleRow \cup {NoRole}],
   others : SUBSET RoleName, gone : SUBSET RoleName]
  \cup [at : {"creates"}, name : RoleName, permits : Permits,
        others : SUBSET RoleName, gone : SUBSET RoleName]
  \cup [at : {"updates"}, name : RoleName, permits : Permits, base : RoleRow,
        others : SUBSET RoleName, gone : SUBSET RoleName]
  \cup [at : {"deletes"}, name : RoleName, others : SUBSET RoleName, gone : SUBSET RoleName]

CatalogTypeOK ==
  /\ roles \in [RoleName -> RoleRow \cup {NoRole}]
  /\ roleAdmin \in [RoleAdmin -> {NoRoleTask} \cup RoleTask]
  /\ chosen \in [RoleName -> Permits]
  /\ raced \subseteq RoleName

\* What a request at n knows of its row, if it has read it as row.
Knows(a, n, row) ==
  /\ n \notin roleAdmin[a].others => row = roles[n]
  /\ row # NoRole /\ n \notin roleAdmin[a].gone => roles[n] # NoRole

Told(a) ==
  /\ roleAdmin[a].gone \subseteq roleAdmin[a].others
  /\ roleAdmin[a].at = "lists" => \A n \in BuiltIn : Knows(a, n, roleAdmin[a].base[n])
  /\ roleAdmin[a].at = "updates" =>
       /\ Knows(a, roleAdmin[a].name, roleAdmin[a].base)
       /\ Editable(roleAdmin[a].name, roleAdmin[a].base)

AllTold == \A a \in RoleAdmin : AtRoles(a) => Told(a)

CatalogInv == CatalogTypeOK /\ AllTold /\ RolesStand

LEMMA RowIsNotNone == NoRole \notin RoleRow
  BY CatalogAssumption DEF RoleRow

LEMMA CatalogInitInv == CatalogInit => CatalogInv
  BY CatalogAssumption DEF CatalogInit, CatalogInv, CatalogTypeOK, AllTold, AtRoles, RolesStand

(* A request that begins has read what the rows say.                       *)
LEMMA BeginsKeeps ==
  ASSUME CatalogInv, NEW a \in RoleAdmin, NEW begun \in RoleTask, BeginsRole(a, begun),
         begun.others = {} /\ begun.gone = {},
         begun.at = "lists" => \A n \in BuiltIn : begun.base[n] = roles[n],
         begun.at = "updates" =>
           begun.base = roles[begun.name] /\ Editable(begun.name, begun.base)
  PROVE  CatalogInv'
<1>1. UNCHANGED <<roles, chosen, raced>> /\ roleAdmin' = [roleAdmin EXCEPT ![a] = begun]
  BY DEF BeginsRole
<1>2. CatalogTypeOK' /\ RolesStand'
  BY <1>1 DEF CatalogInv, CatalogTypeOK, RolesStand
<1>3. ASSUME NEW b \in RoleAdmin, AtRoles(b)'
      PROVE  Told(b)'
  <2>1. CASE b = a
    <3>1. roleAdmin'[b] = begun
      BY <2>1, <1>1 DEF CatalogInv, CatalogTypeOK
    <3> QED
      BY <3>1, <1>1 DEF Told, Knows, Editable
  <2>2. CASE b # a
    <3>1. roleAdmin'[b] = roleAdmin[b] /\ AtRoles(b)
      BY <2>2, <1>1, <1>3 DEF CatalogInv, CatalogTypeOK, AtRoles
    <3>2. Told(b)
      BY <3>1 DEF CatalogInv, AllTold
    <3> QED
      BY <3>1, <3>2, <1>1 DEF Told, Knows, Editable
  <2> QED
    BY <2>1, <2>2
<1> QED
  BY <1>2, <1>3 DEF CatalogInv, AllTold

(* A request that ends tells the others what it changed, and deleted.      *)
LEMMA TellsKeeps ==
  ASSUME CatalogInv, NEW a \in RoleAdmin, NEW changed \in SUBSET RoleName,
         NEW deleted \in SUBSET changed, Tells(a, changed, deleted),
         \A n \in RoleName \ changed : roles'[n] = roles[n],
         \A n \in RoleName \ deleted : roles[n] # NoRole => roles'[n] # NoRole
  PROVE  roleAdmin' \in [RoleAdmin -> {NoRoleTask} \cup RoleTask] /\ AllTold'
<1>1. ASSUME NEW b \in RoleAdmin
      PROVE  roleAdmin'[b] \in {NoRoleTask} \cup RoleTask /\ (AtRoles(b)' => Told(b)')
  <2>1. CASE b = a \/ ~AtRoles(b)
    BY <2>1 DEF Tells, AtRoles
  <2>2. CASE b # a /\ AtRoles(b)
    <3> DEFINE t == roleAdmin[b]
               u == [t EXCEPT !.others = @ \cup changed, !.gone = @ \cup deleted]
    <3>1. roleAdmin'[b] = u
      BY <2>2 DEF Tells
    <3>2. t \in RoleTask /\ Told(b)
      BY <2>2 DEF CatalogInv, CatalogTypeOK, AllTold, AtRoles
    <3>3. /\ u \in RoleTask /\ u.at = t.at
          /\ u.others = t.others \cup changed /\ u.gone = t.gone \cup deleted
          /\ t.at = "lists" => u.base = t.base
          /\ t.at = "updates" => u.base = t.base /\ u.name = t.name /\ u.name \in RoleName
      BY <3>2 DEF RoleTask
    <3> HIDE DEF u
    <3>4. ASSUME NEW n \in RoleName, NEW row, Knows(b, n, row)
          PROVE  Knows(b, n, row)'
      BY <3>1, <3>3, <3>4 DEF Knows
    <3>5. Told(b)'
      <4>1. u.gone \subseteq u.others
        BY <3>2, <3>3 DEF Told
      <4>2. ASSUME t.at = "lists", NEW n \in BuiltIn, NEW row, row = t.base[n]
            PROVE  Knows(b, n, row)'
        <5>1. n \in RoleName /\ Knows(b, n, row)
          BY <4>2, <3>2 DEF Told, RoleName
        <5> QED
          BY <5>1, <3>4
      <4>3. ASSUME u.at = "lists", NEW n \in BuiltIn
            PROVE  Knows(b, n, roleAdmin[b].base[n])'
        <5>1. u.base[n] = t.base[n] /\ t.at = "lists"
          BY <3>3, <4>3
        <5>2. PICK row : row = t.base[n]
          OBVIOUS
        <5>3. Knows(b, n, row)'
          BY <5>1, <5>2, <4>2
        <5> QED
          BY <5>1, <5>2, <5>3, <3>1
      <4>4. ASSUME u.at = "updates"
            PROVE  /\ Knows(b, roleAdmin[b].name, roleAdmin[b].base)'
                   /\ Editable(roleAdmin[b].name, roleAdmin[b].base)'
        <5>1. PICK n, row : n = t.name /\ row = t.base
          OBVIOUS
        <5>2. n \in RoleName /\ Knows(b, n, row) /\ Editable(n, row)
          BY <4>4, <3>2, <3>3, <5>1 DEF Told
        <5>3. Knows(b, n, row)'
          BY <5>2, <3>4
        <5> QED
          BY <5>1, <5>2, <5>3, <4>4, <3>1, <3>3 DEF Editable
      <4> QED
        BY <3>1, <4>1, <4>3, <4>4 DEF Told
    <3> QED
      BY <3>1, <3>3, <3>5
  <2> QED
    BY <2>1, <2>2
<1>2. roleAdmin' = [b \in RoleAdmin |-> roleAdmin'[b]]
  BY DEF Tells
<1> QED
  BY <1>1, <1>2 DEF AllTold

LEMMA RequestBegins ==
  ASSUME CatalogInv, NEW a \in RoleAdmin,
         \/ ListRoles(a)
         \/ \E n \in RoleName, p \in Permits : CreateRole(a, n, p) \/ ChangeRole(a, n, p)
         \/ \E n \in RoleName : DropRole(a, n)
  PROVE  CatalogInv'
<1>0. /\ roles \in [RoleName -> RoleRow \cup {NoRole}] /\ BuiltIn \subseteq RoleName
      /\ [m \in BuiltIn |-> roles[m]] \in [BuiltIn -> RoleRow \cup {NoRole}]
  BY DEF CatalogInv, CatalogTypeOK, RoleName
<1>1. CASE ListRoles(a)
  <2> DEFINE begun == [at |-> "lists", base |-> [m \in BuiltIn |-> roles[m]],
                      others |-> {}, gone |-> {}]
  <2>1. begun \in RoleTask
    BY <1>0 DEF RoleTask
  <2>2. BeginsRole(a, begun)
    BY <1>1 DEF ListRoles
  <2> QED
    BY <2>1, <2>2, BeginsKeeps
<1>2. ASSUME NEW n \in RoleName, NEW p \in Permits, CreateRole(a, n, p)
      PROVE  CatalogInv'
  <2> DEFINE begun == [at |-> "creates", name |-> n, permits |-> p,
                      others |-> {}, gone |-> {}]
  <2>1. begun \in RoleTask
    BY DEF RoleTask
  <2>2. BeginsRole(a, begun)
    BY <1>2 DEF CreateRole
  <2> QED
    BY <2>1, <2>2, BeginsKeeps
<1>3. ASSUME NEW n \in RoleName, NEW p \in Permits, ChangeRole(a, n, p)
      PROVE  CatalogInv'
  <2> DEFINE begun == [at |-> "updates", name |-> n, permits |-> p, base |-> roles[n],
                      others |-> {}, gone |-> {}]
  <2>1. begun \in RoleTask
    BY <1>0, <1>3 DEF RoleTask, ChangeRole
  <2>2. BeginsRole(a, begun) /\ Editable(n, roles[n])
    BY <1>3 DEF ChangeRole
  <2> QED
    BY <2>1, <2>2, BeginsKeeps
<1>4. ASSUME NEW n \in RoleName, DropRole(a, n)
      PROVE  CatalogInv'
  <2> DEFINE begun == [at |-> "deletes", name |-> n, others |-> {}, gone |-> {}]
  <2>1. begun \in RoleTask
    BY DEF RoleTask
  <2>2. BeginsRole(a, begun)
    BY <1>4 DEF DropRole
  <2> QED
    BY <2>1, <2>2, BeginsKeeps
<1> QED
  BY <1>1, <1>2, <1>3, <1>4

(* A listing puts right the roles that nobody changed since it read them.  *)
LEMMA RoleListingKeeps ==
  ASSUME CatalogInv, NEW a \in RoleAdmin, CommitList(a)
  PROVE  CatalogInv'
<1> DEFINE t    == roleAdmin[a]
           base == t.base
           void == {n \in t.gone \cap BuiltIn : base[n] # NoRole}
           left == [n \in BuiltIn |-> IF n \in void THEN roles[n]
                                      ELSE Ensured(n, base[n], roles[n])]
<1>1. /\ t \in RoleTask /\ t.at = "lists" /\ Told(a) /\ BuiltIn \subseteq RoleName
      /\ roles \in [RoleName -> RoleRow \cup {NoRole}]
  BY DEF CatalogInv, CatalogTypeOK, AllTold, AtRoles, CommitList, RoleName
<1>2. /\ base \in [BuiltIn -> RoleRow \cup {NoRole}]
      /\ t.others \subseteq RoleName /\ t.gone \subseteq t.others
      /\ \A n \in BuiltIn : Knows(a, n, base[n])
  BY <1>1 DEF RoleTask, Told
<1>3. /\ roles' = [n \in RoleName |-> IF n \in BuiltIn THEN left[n] ELSE roles[n]]
      /\ chosen' = [n \in RoleName |->
           IF n \in BuiltIn /\ base[n] = NoRole THEN Shipped ELSE chosen[n]]
      /\ Tells(a, {n \in BuiltIn : left[n] # roles[n]}, {})
      /\ raced' = (raced \ LockedRole) \cup (t.others \cap BuiltIn)
  BY DEF CommitList
<1>4. ASSUME NEW n \in BuiltIn
      PROVE  left[n] \in RoleRow \cup {NoRole} /\ (roles[n] # NoRole => left[n] # NoRole)
  <2>1. CASE n \in void
    BY <2>1, <1>1
  <2>2. CASE n \notin void /\ base[n] = NoRole
    <3>1. left[n] = [built_in |-> TRUE, permits |-> Shipped]
      BY <2>2 DEF Ensured
    <3>2. [built_in |-> TRUE, permits |-> Shipped] \in RoleRow
      BY CatalogAssumption DEF RoleRow
    <3> HIDE DEF left
    <3> QED
      BY <3>1, <3>2, RowIsNotNone
  <2>3. CASE n \notin void /\ base[n] # NoRole
    <3>1. roles[n] \in RoleRow /\ base[n] \in RoleRow
      BY <2>3, <1>1, <1>2 DEF Knows
    <3>2. Ensured(n, base[n], roles[n]) \in RoleRow
      BY <2>3, <3>1, CatalogAssumption DEF Ensured, Set, RoleRow
    <3> QED
      BY <2>3, <3>2, RowIsNotNone
  <2> QED
    BY <2>1, <2>2, <2>3
<1>5. CatalogTypeOK' /\ AllTold'
  <2>1. /\ \A n \in RoleName \ {m \in BuiltIn : left[m] # roles[m]} : roles'[n] = roles[n]
        /\ \A n \in RoleName : roles[n] # NoRole => roles'[n] # NoRole
        /\ roles' \in [RoleName -> RoleRow \cup {NoRole}]
    <3> HIDE DEF left
    <3> QED
      BY <1>1, <1>3, <1>4
  <2>2. roleAdmin' \in [RoleAdmin -> {NoRoleTask} \cup RoleTask] /\ AllTold'
    <3>1. /\ {m \in BuiltIn : left[m] # roles[m]} \in SUBSET RoleName
          /\ {} \in SUBSET {m \in BuiltIn : left[m] # roles[m]}
      BY <1>1
    <3> HIDE DEF left
    <3> QED
      BY <1>3, <2>1, <3>1, TellsKeeps
  <2>3. chosen' \in [RoleName -> Permits] /\ raced' \subseteq RoleName
    BY <1>1, <1>2, <1>3, CatalogAssumption DEF CatalogInv, CatalogTypeOK
  <2> QED
    BY <2>1, <2>2, <2>3 DEF CatalogTypeOK
<1>6. ASSUME NEW n \in RoleName \ raced', roles'[n] # NoRole
      PROVE  IF roles'[n].built_in /\ n \in LockedRole THEN roles'[n].permits = Shipped
             ELSE \/ roles'[n].permits = chosen'[n]
                  \/ roles'[n] = [built_in |-> TRUE, permits |-> Shipped]
                       /\ chosen'[n] = NoPermits
  <2>1. CASE n \notin BuiltIn
    <3>1. n \notin raced /\ roles'[n] = roles[n] /\ chosen'[n] = chosen[n]
      BY <1>3, <1>6, <2>1 DEF BuiltIn
    <3> QED
      BY <1>6, <3>1 DEF CatalogInv, RolesStand
  <2>2. CASE n \in BuiltIn
    <3>1. /\ n \notin t.others /\ n \notin t.gone /\ base[n] = roles[n]
          /\ roles'[n] = Ensured(n, roles[n], roles[n])
      BY <1>2, <1>3, <1>6, <2>2 DEF Knows
    <3>2. CASE roles[n] = NoRole
      BY <1>3, <2>2, <3>1, <3>2 DEF Ensured
    <3>3. CASE roles[n] # NoRole
      <4>1. /\ roles[n] \in RoleRow /\ chosen'[n] = chosen[n]
            /\ roles'[n] = [built_in |-> TRUE,
                 permits |-> IF Preserved(n, roles[n]) THEN roles[n].permits ELSE Shipped]
        BY <1>1, <1>3, <3>1, <3>3 DEF Ensured, Set
      <4>2. CASE n \in LockedRole
        BY <4>1, <4>2, CatalogAssumption DEF Preserved
      <4>3. CASE n \notin LockedRole
        <5>1. n \in OpenRole /\ n \notin raced
          BY <1>3, <1>6, <2>2, <4>3 DEF BuiltIn
        <5>2. \/ roles[n].permits = chosen[n]
              \/ roles[n].permits = Shipped /\ chosen[n] = NoPermits
          BY <3>3, <4>3, <5>1 DEF CatalogInv, RolesStand
        <5>3. CASE roles[n].permits = NoPermits
          <6>1. roles'[n] = [built_in |-> TRUE, permits |-> Shipped]
            BY <4>1, <5>3 DEF Preserved
          <6>2. chosen'[n] = NoPermits
            BY <4>1, <5>2, <5>3
          <6> QED
            BY <4>3, <6>1, <6>2
        <5>4. CASE roles[n].permits # NoPermits
          <6>1. roles'[n] = [built_in |-> TRUE, permits |-> roles[n].permits]
            BY <4>1, <5>1, <5>4 DEF Preserved
          <6>2. roles'[n].permits = roles[n].permits
            BY <6>1
          <6>3. CASE roles[n].permits = chosen[n]
            BY <4>1, <4>3, <6>2, <6>3
          <6>4. CASE roles[n].permits = Shipped /\ chosen[n] = NoPermits
            <7>1. roles'[n] = [built_in |-> TRUE, permits |-> Shipped]
              BY <6>1, <6>4
            <7>2. chosen'[n] = NoPermits
              BY <4>1, <6>4
            <7> QED
              BY <4>3, <7>1, <7>2
          <6> QED
            BY <5>2, <6>3, <6>4
        <5> QED
          BY <5>3, <5>4
      <4> QED
        BY <4>2, <4>3
    <3> QED
      BY <3>2, <3>3
  <2> QED
    BY <2>1, <2>2
<1> QED
  BY <1>5, <1>6 DEF CatalogInv, RolesStand

LEMMA RoleCreateKeeps ==
  ASSUME CatalogInv, NEW a \in RoleAdmin, CommitCreate(a)
  PROVE  CatalogInv'
<1> DEFINE n == roleAdmin[a].name
           row == [built_in |-> FALSE, permits |-> roleAdmin[a].permits]
<1>1. /\ roleAdmin[a] \in RoleTask /\ roleAdmin[a].at = "creates"
      /\ roles \in [RoleName -> RoleRow \cup {NoRole}]
      /\ chosen \in [RoleName -> Permits] /\ raced \subseteq RoleName
  BY DEF CatalogInv, CatalogTypeOK, AtRoles, CommitCreate
<1>2. n \in RoleName /\ roleAdmin[a].permits \in Permits /\ row \in RoleRow
  BY <1>1 DEF RoleTask, RoleRow
<1>3. /\ roles[n] = NoRole
      /\ roles' = [roles EXCEPT ![n] = row]
      /\ chosen' = [chosen EXCEPT ![n] = roleAdmin[a].permits]
      /\ raced' = raced \ {n}
      /\ Tells(a, {n}, {})
  BY DEF CommitCreate
<1>4. CatalogTypeOK' /\ AllTold'
  <2>1. /\ \A m \in RoleName \ {n} : roles'[m] = roles[m]
        /\ \A m \in RoleName : roles[m] # NoRole => roles'[m] # NoRole
    BY <1>1, <1>2, <1>3, RowIsNotNone
  <2>2. roleAdmin' \in [RoleAdmin -> {NoRoleTask} \cup RoleTask] /\ AllTold'
    BY <1>2, <1>3, <2>1, TellsKeeps
  <2> QED
    BY <1>1, <1>2, <1>3, <2>2 DEF CatalogTypeOK
<1>5. RolesStand'
  BY <1>1, <1>2, <1>3 DEF RolesStand, CatalogInv
<1> QED
  BY <1>4, <1>5 DEF CatalogInv

LEMMA RoleUpdateKeeps ==
  ASSUME CatalogInv, NEW a \in RoleAdmin, CommitRole(a)
  PROVE  CatalogInv'
<1> DEFINE t == roleAdmin[a]
           n == t.name
           left == Set(roles[n].permits, t.base.permits, t.permits)
<1>1. /\ t \in RoleTask /\ t.at = "updates" /\ Told(a)
      /\ roles \in [RoleName -> RoleRow \cup {NoRole}]
      /\ chosen \in [RoleName -> Permits] /\ raced \subseteq RoleName
  BY DEF CatalogInv, CatalogTypeOK, AllTold, AtRoles, CommitRole
<1>2. /\ n \in RoleName /\ t.permits \in Permits /\ t.base \in RoleRow
      /\ Knows(a, n, t.base) /\ Editable(n, t.base)
  BY <1>1 DEF RoleTask, Told
<1>3. /\ n \notin t.gone
      /\ roles' = [roles EXCEPT ![n].permits = left]
      /\ chosen' = [chosen EXCEPT ![n] = t.permits]
      /\ raced' = IF n \in t.others THEN raced \cup {n} ELSE raced \ {n}
      /\ Tells(a, {n}, {})
  BY DEF CommitRole
<1>4. roles[n] \in RoleRow /\ left \in Permits
  BY <1>1, <1>2, <1>3, RowIsNotNone DEF Knows, Set, RoleRow
<1>5. /\ roles'[n] = [built_in |-> roles[n].built_in, permits |-> left]
      /\ roles'[n] \in RoleRow
      /\ \A m \in RoleName \ {n} : roles'[m] = roles[m]
      /\ roles' \in [RoleName -> RoleRow \cup {NoRole}]
  BY <1>1, <1>2, <1>3, <1>4 DEF RoleRow
<1>6. CatalogTypeOK' /\ AllTold'
  <2>1. \A m \in RoleName : roles[m] # NoRole => roles'[m] # NoRole
    BY <1>5, RowIsNotNone
  <2>2. roleAdmin' \in [RoleAdmin -> {NoRoleTask} \cup RoleTask] /\ AllTold'
    BY <1>2, <1>3, <1>5, <2>1, TellsKeeps
  <2> QED
    BY <1>1, <1>2, <1>3, <1>5, <2>2 DEF CatalogTypeOK
<1>7. RolesStand'
  <2>1. ASSUME n \notin t.others
        PROVE  /\ roles'[n].permits = chosen'[n]
               /\ ~(roles'[n].built_in /\ n \in LockedRole)
    BY <1>1, <1>2, <1>3, <1>5, <2>1 DEF Knows, Editable, Set
  <2>2. \A m \in RoleName \ {n} : chosen'[m] = chosen[m]
    BY <1>1, <1>3
  <2> HIDE DEF n, left
  <2> QED
    BY <1>3, <1>5, <2>1, <2>2 DEF RolesStand, CatalogInv
<1> QED
  BY <1>6, <1>7 DEF CatalogInv

LEMMA RoleDeleteKeeps ==
  ASSUME CatalogInv, NEW a \in RoleAdmin, CommitDelete(a)
  PROVE  CatalogInv'
<1> DEFINE n == roleAdmin[a].name
<1>1. /\ roleAdmin[a] \in RoleTask /\ roleAdmin[a].at = "deletes"
      /\ roles \in [RoleName -> RoleRow \cup {NoRole}]
  BY DEF CatalogInv, CatalogTypeOK, AtRoles, CommitDelete
<1>2. n \in RoleName /\ UNCHANGED <<chosen, raced>>
  BY <1>1 DEF RoleTask, CommitDelete
<1>3. /\ \/ Tells(a, {}, {}) /\ UNCHANGED roles
         \/ Tells(a, {n}, {n}) /\ roles' = [roles EXCEPT ![n] = NoRole]
  BY DEF CommitDelete
<1>4. roleAdmin' \in [RoleAdmin -> {NoRoleTask} \cup RoleTask] /\ AllTold'
  <2>1. CASE Tells(a, {}, {}) /\ UNCHANGED roles
    BY <2>1, TellsKeeps
  <2>2. CASE Tells(a, {n}, {n}) /\ roles' = [roles EXCEPT ![n] = NoRole]
    <3>1. \A m \in RoleName \ {n} : roles'[m] = roles[m]
      BY <1>1, <2>2
    <3> QED
      BY <1>2, <2>2, <3>1, TellsKeeps
  <2> QED
    BY <1>3, <2>1, <2>2
<1>5. \A m \in RoleName : roles'[m] \in {roles[m], NoRole}
  BY <1>1, <1>3
<1>6. CatalogTypeOK'
  BY <1>1, <1>2, <1>3, <1>4 DEF CatalogTypeOK, CatalogInv
<1>7. RolesStand'
  BY <1>2, <1>5 DEF RolesStand, CatalogInv
<1> QED
  BY <1>4, <1>6, <1>7 DEF CatalogInv

LEMMA RoleFailureKeeps ==
  ASSUME CatalogInv, NEW a \in RoleAdmin, TaskFails(a)
  PROVE  CatalogInv'
<1>1. /\ UNCHANGED <<roles, chosen, raced>>
      /\ roleAdmin' = [roleAdmin EXCEPT ![a] = NoRoleTask]
  BY DEF TaskFails
<1>2. CatalogTypeOK' /\ RolesStand'
  BY <1>1 DEF CatalogInv, CatalogTypeOK, RolesStand
<1>3. ASSUME NEW b \in RoleAdmin, AtRoles(b)'
      PROVE  Told(b)'
  <2>1. roleAdmin'[b] = roleAdmin[b] /\ AtRoles(b)
    BY <1>1, <1>3 DEF CatalogInv, CatalogTypeOK, AtRoles
  <2>2. Told(b)
    BY <2>1 DEF CatalogInv, AllTold
  <2> QED
    BY <1>1, <2>1, <2>2 DEF Told, Knows, Editable
<1> QED
  BY <1>2, <1>3 DEF CatalogInv, AllTold

LEMMA CatalogStepInv == CatalogInv /\ [CatalogNext]_catalog_vars => CatalogInv'
<1> SUFFICES ASSUME CatalogInv, [CatalogNext]_catalog_vars
             PROVE  CatalogInv'
  OBVIOUS
<1>1. ASSUME NEW a \in RoleAdmin,
             \/ ListRoles(a)
             \/ \E n \in RoleName, p \in Permits : CreateRole(a, n, p) \/ ChangeRole(a, n, p)
             \/ \E n \in RoleName : DropRole(a, n)
      PROVE  CatalogInv'
  BY <1>1, RequestBegins
<1>2. ASSUME NEW a \in RoleAdmin,
             \/ CommitList(a) \/ CommitCreate(a) \/ CommitRole(a)
             \/ CommitDelete(a) \/ TaskFails(a)
      PROVE  CatalogInv'
  BY <1>2, RoleListingKeeps, RoleCreateKeeps, RoleUpdateKeeps, RoleDeleteKeeps, RoleFailureKeeps
<1>3. CASE UNCHANGED catalog_vars
  BY <1>3 DEF catalog_vars, CatalogInv, CatalogTypeOK, AllTold, AtRoles, Told, Knows,
     Editable, RolesStand
<1> QED
  BY <1>1, <1>2, <1>3 DEF CatalogNext

(* Permissions that a customer gave a role stand, however many requests    *)
(* list, create, change and delete roles at a time (users_roles.py).       *)
THEOREM RolesStandForAll == CatalogSpec => []RolesStand
<1>1. CatalogInv => RolesStand
  BY DEF CatalogInv
<1> QED
  BY CatalogInitInv, CatalogStepInv, <1>1, PTL DEF CatalogSpec

-----------------------------------------------------------------------------
(* A set of numbers has a least one: it is what a proof by induction over  *)
(* numbers, or over sizes of sets, starts from.                            *)
LEMMA LeastNumber ==
  ASSUME NEW S, S \subseteq Nat, S # {}
  PROVE  \E n \in S : \A m \in S : n <= m
<1> DEFINE R == OpToRel(<, Nat)
<1>1. PICK x \in S : \A y \in S : <<y, x>> \notin R
  <2> HIDE DEF R
  <2>1. IsWellFoundedOn(R, Nat)
    BY NatLessThanWellFounded, Zenon DEF R
  <2> QED
    BY <2>1, WFMin, Zenon
<1>2. \A y \in S : ~(y < x)
  BY <1>1 DEF OpToRel
<1> QED
  BY <1>2

-----------------------------------------------------------------------------
LEMMA GreatestNumber ==
  ASSUME NEW n \in Nat, NEW S, S \subseteq 1 .. n, S # {}
  PROVE  \E i \in S : \A j \in S : j <= i
<1> DEFINE Above == {m \in Nat : \A j \in S : j <= m}
<1>1. n \in Above /\ Above \subseteq Nat
  OBVIOUS
<1>2. PICK m \in Above : \A k \in Above : m <= k
  <2> HIDE DEF Above
  <2> QED
    BY <1>1, LeastNumber
<1>3. m \in S
  <2> SUFFICES ASSUME m \notin S PROVE FALSE
    OBVIOUS
  <2>1. \A j \in S : j \in Nat /\ j <= m - 1 /\ 1 <= j
    BY <1>2
  <2>2. m \in Nat /\ m - 1 \in Nat
    <3>1. PICK j \in S : TRUE
      OBVIOUS
    <3> QED
      BY <1>2, <2>1, <3>1
  <2>3. m - 1 \in Above
    BY <2>1, <2>2
  <2> HIDE DEF Above
  <2> QED
    BY <1>2, <2>2, <2>3
<1> QED
  BY <1>2, <1>3

-----------------------------------------------------------------------------
(* ConfigBackups.  A collector stores what it stored before only after     *)
(* another configuration has been stored in between.                       *)
BackupIn(rs) ==
  {i \in DOMAIN rs : rs[i].kind = "backup" /\ rs[i].state = "committed"}

UpTo(rs, i) == {k \in BackupIn(rs) : k <= i}

\* The latest backup is of x.
Stored(rs, x) ==
  \E i \in BackupIn(rs) : rs[i].content = x /\ \A j \in BackupIn(rs) : j <= i

Active == [at : {"fetched", "differs", "answered"}, content : Config, row : Nat]

BackupTypeOK ==
  /\ device \in Config
  /\ rows \in Seq(Row)
  /\ collecting \in [Collector -> {Idle} \cup Active]
  /\ changes \in Seq(Config)

\* What a request has flushed, if it has.
Consistent(rs, x) ==
  /\ x.at # "answered" => x.row = 0
  /\ x.row # 0 => /\ x.row \in DOMAIN rs
                  /\ rs[x.row] = [kind |-> "backup", content |-> x.content,
                                  state |-> "flushed"]

GoldenOf(rs) ==
  \A i \in DOMAIN rs : rs[i].kind = "golden"
     => rs[i].state = "committed" /\ BackupIn(rs) # {}

\* After the backup i there is another configuration, before j.
Differs(rs, i, j) ==
  \E k \in BackupIn(rs) : i < k /\ k < j /\ rs[k].content # rs[i].content

\* The collector of every backup, and of what is flushed.
Collected(owner, rs, col) ==
  /\ \A i \in BackupIn(rs) : owner[i] \in Collector
  /\ \A i, j \in BackupIn(rs) :
       i < j /\ owner[i] = owner[j] /\ rs[i].content = rs[j].content => Differs(rs, i, j)
  /\ \A c \in Collector, i \in BackupIn(rs) : col[c].at = "differs" /\ owner[i] = c
       /\ rs[i].content = col[c].content => Differs(rs, i, Len(rs) + 1)
  /\ \A c \in Collector : col[c].at = "answered" /\ col[c].row # 0 =>
       /\ owner[col[c].row] = c
       /\ \A i \in BackupIn(rs) : owner[i] = c =>
            /\ i < col[c].row
            /\ rs[i].content = col[c].content => Differs(rs, i, col[c].row)

\* The configurations are those of the backups.
History(rs, ch) ==
  /\ Len(ch) = Cardinality(BackupIn(rs))
  /\ \A i \in BackupIn(rs) : rs[i].content = ch[Cardinality(UpTo(rs, i))]

\* What a request knows that nobody gets in the way of.
KnowsRows(rs, x) ==
  /\ x.at = "differs" => ~Stored(rs, x.content)
  /\ x.at = "answered" => (x.row = 0 <=> Stored(rs, x.content))
  /\ x.at = "answered" /\ x.row # 0 => \A i \in BackupIn(rs) : i < x.row

AloneInv ==
  alone => /\ \A c, d \in Collector : collecting[c] # Idle /\ collecting[d] # Idle => c = d
           /\ \A c \in Collector : collecting[c] # Idle => KnowsRows(rows, collecting[c])
           /\ History(rows, changes)

BackupInv ==
  /\ BackupTypeOK
  /\ \A c \in Collector : collecting[c] # Idle => Consistent(rows, collecting[c])
  /\ GoldenOf(rows)
  /\ \E owner \in [Nat -> Collector \cup {0}] : Collected(owner, rows, collecting)
  /\ AloneInv

LEMMA BackupsFinite ==
  ASSUME NEW rs \in Seq(Row)
  PROVE  /\ Len(rs) \in Nat /\ DOMAIN rs = 1 .. Len(rs)
         /\ \A i \in DOMAIN rs : i \in Nat /\ i > 0 /\ rs[i] \in Row
         /\ BackupIn(rs) \subseteq 1 .. Len(rs)
         /\ IsFiniteSet(BackupIn(rs)) /\ Cardinality(BackupIn(rs)) \in Nat
         /\ \A i : /\ IsFiniteSet(UpTo(rs, i)) /\ Cardinality(UpTo(rs, i)) \in Nat
                   /\ UpTo(rs, i) \subseteq BackupIn(rs)
                   /\ Cardinality(UpTo(rs, i)) <= Cardinality(BackupIn(rs))
<1>1. Len(rs) \in Nat /\ DOMAIN rs = 1 .. Len(rs)
  OBVIOUS
<1>2. \A i \in DOMAIN rs : i \in Nat /\ i > 0 /\ rs[i] \in Row
  BY <1>1
<1>3. BackupIn(rs) \subseteq 1 .. Len(rs) /\ IsFiniteSet(1 .. Len(rs))
  <2>1. IsFiniteSet(1 .. Len(rs))
    BY <1>1, FS_Interval
  <2>2. BackupIn(rs) \subseteq DOMAIN rs
    BY DEF BackupIn
  <2> QED
    BY <1>1, <2>1, <2>2
<1>4. IsFiniteSet(BackupIn(rs)) /\ Cardinality(BackupIn(rs)) \in Nat
  BY <1>3, FS_Subset, FS_CardinalityType
<1>5. \A i : UpTo(rs, i) \subseteq BackupIn(rs)
  BY DEF UpTo
<1>6. \A i : /\ IsFiniteSet(UpTo(rs, i)) /\ Cardinality(UpTo(rs, i)) \in Nat
             /\ Cardinality(UpTo(rs, i)) <= Cardinality(BackupIn(rs))
  BY <1>4, <1>5, FS_Subset, FS_CardinalityType
<1> QED
  BY <1>1, <1>2, <1>3, <1>4, <1>5, <1>6

LEMMA LatestBackup ==
  ASSUME NEW rs \in Seq(Row), BackupIn(rs) # {}
  PROVE  \E i \in BackupIn(rs) : \A j \in BackupIn(rs) : j <= i
BY BackupsFinite, GreatestNumber

\* The newest of places that are not all of none.
LEMMA NewestIs ==
  ASSUME NEW S, NEW i \in S, \A j \in S : j \in Nat, \A j \in S : j <= i
  PROVE  Newest(S) = i
<1>1. Newest(S) \in S /\ \A j \in S : j <= Newest(S)
  BY DEF Newest
<1> QED
  BY <1>1

LEMMA StoredIsStored ==
  ASSUME rows \in Seq(Row), NEW x
  PROVE  IsStored(x) <=> Stored(rows, x)
<1>1. BackupIn(rows) = Committed("backup")
  BY DEF BackupIn, Committed
<1>2. CASE BackupIn(rows) = {}
  BY <1>1, <1>2 DEF IsStored, Latest, Newest, Stored
<1>3. CASE BackupIn(rows) # {}
  <2>1. PICK i \in BackupIn(rows) : \A j \in BackupIn(rows) : j <= i
    BY <1>3, LatestBackup
  <2>2. /\ \A j \in BackupIn(rows) : j \in Nat
        /\ i > 0
    BY BackupsFinite
  <2>3. Latest("backup") = i
    BY <1>1, <2>1, <2>2, NewestIs DEF Latest
  <2>4. \A k \in BackupIn(rows) : (\A j \in BackupIn(rows) : j <= k) => k = i
    BY <2>1, <2>2
  <2> QED
    BY <2>1, <2>2, <2>3, <2>4 DEF IsStored, Stored
<1> QED
  BY <1>2, <1>3

\* The last configuration of a history is that of the latest backup.
LEMMA HistoryEnds ==
  ASSUME NEW rs \in Seq(Row), NEW ch \in Seq(Config), History(rs, ch),
         NEW i \in BackupIn(rs), \A j \in BackupIn(rs) : j <= i
  PROVE  ch # << >> /\ rs[i].content = ch[Len(ch)]
<1>1. UpTo(rs, i) = BackupIn(rs)
  BY DEF UpTo
<1>2. Cardinality(BackupIn(rs)) # 0
  BY BackupsFinite, FS_EmptySet
<1> QED
  BY <1>1, <1>2 DEF History

\* Backups that a step leaves as they are.
SameBackups(old, new) ==
  /\ Len(old) <= Len(new)
  /\ BackupIn(new) = BackupIn(old)
  /\ \A i \in BackupIn(old) : new[i].content = old[i].content

LEMMA SameStay ==
  ASSUME NEW old \in Seq(Row), NEW new \in Seq(Row), SameBackups(old, new)
  PROVE  /\ \A x : Stored(new, x) <=> Stored(old, x)
         /\ \A i \in BackupIn(old) : \A j : Differs(new, i, j) <=> Differs(old, i, j)
         /\ \A ch : History(old, ch) => History(new, ch)
<1>1. \A x : Stored(new, x) <=> Stored(old, x)
  BY DEF SameBackups, Stored
<1>2. \A i \in BackupIn(old) : \A j : Differs(new, i, j) <=> Differs(old, i, j)
  BY DEF SameBackups, Differs
<1>3. \A i : UpTo(new, i) = UpTo(old, i)
  BY DEF SameBackups, UpTo
<1>4. ASSUME NEW ch, History(old, ch) PROVE History(new, ch)
  BY <1>3, <1>4 DEF SameBackups, History
<1> QED
  BY <1>1, <1>2, <1>4

\* A history goes on with the next backup.
LEMMA HistoryGoesOn ==
  ASSUME NEW old \in Seq(Row), NEW new \in Seq(Row), NEW ch \in Seq(Config),
         History(old, ch), NEW r \in DOMAIN new,
         BackupIn(new) = BackupIn(old) \cup {r},
         \A i \in BackupIn(old) : i < r /\ new[i].content = old[i].content
  PROVE  History(new, Append(ch, new[r].content))
<1> DEFINE next == Append(ch, new[r].content)
<1>1. /\ r \notin BackupIn(old) /\ r \in Nat
      /\ Cardinality(BackupIn(new)) = Cardinality(BackupIn(old)) + 1
  <2>1. r \in Nat /\ BackupIn(old) \subseteq Nat /\ IsFiniteSet(BackupIn(old))
    BY BackupsFinite
  <2>2. r \notin BackupIn(old)
    BY <2>1
  <2> QED
    BY <2>1, <2>2, FS_AddElement
<1>2. Len(next) = Len(ch) + 1 /\ next[Len(ch) + 1] = new[r].content
      /\ \A n \in 1 .. Len(ch) : next[n] = ch[n]
  <2>1. new[r].content \in Config
    BY BackupsFinite DEF Row
  <2> QED
    BY <2>1
<1> HIDE DEF next
<1>3. Len(next) = Cardinality(BackupIn(new))
  BY <1>1, <1>2 DEF History
<1>4. ASSUME NEW i \in BackupIn(new)
      PROVE  new[i].content = next[Cardinality(UpTo(new, i))]
  <2>1. CASE i = r
    <3>1. UpTo(new, r) = BackupIn(new)
      BY <1>1, BackupsFinite DEF UpTo
    <3> QED
      BY <1>2, <1>3, <2>1, <3>1
  <2>2. CASE i # r
    <3>1. i \in BackupIn(old) /\ i \in Nat
      BY <2>2, BackupsFinite
    <3>2. UpTo(new, i) = UpTo(old, i) /\ UpTo(old, i) # {}
      BY <1>1, <3>1 DEF UpTo
    <3>3. /\ Cardinality(UpTo(old, i)) \in Nat /\ Cardinality(UpTo(old, i)) # 0
          /\ Cardinality(UpTo(old, i)) <= Len(ch)
      BY <3>2, BackupsFinite, FS_EmptySet DEF History
    <3>4. Cardinality(UpTo(old, i)) \in 1 .. Len(ch)
      BY <3>3
    <3> QED
      BY <1>2, <3>1, <3>2, <3>4 DEF History
  <2> QED
    BY <2>1, <2>2
<1> QED
  BY <1>3, <1>4 DEF History, next

\* The collectors of backups are as they were, but for what c does.
OnlyBy(c, owner, heir, rs, col, next) ==
  /\ \A i \in BackupIn(rs) : heir[i] = owner[i]
  /\ \A d \in Collector \ {c} :
       /\ next[d] = col[d]
       /\ col[d].at = "answered" /\ col[d].row # 0
            => heir[col[d].row] = owner[col[d].row]
  /\ next[c].at = "differs" =>
       \A i \in BackupIn(rs) : owner[i] = c /\ rs[i].content = next[c].content
         => Differs(rs, i, Len(rs) + 1)
  /\ next[c].at = "answered" /\ next[c].row # 0 =>
       /\ heir[next[c].row] = c
       /\ \A i \in BackupIn(rs) : owner[i] = c =>
            /\ i < next[c].row
            /\ rs[i].content = next[c].content => Differs(rs, i, next[c].row)

LEMMA CollectedStays ==
  ASSUME NEW old \in Seq(Row), NEW new \in Seq(Row), SameBackups(old, new),
         NEW owner, NEW col, Collected(owner, old, col),
         NEW heir, NEW next, NEW c \in Collector,
         OnlyBy(c, owner, heir, old, col, next)
  PROVE  Collected(heir, new, next)
<1>1. /\ BackupIn(new) = BackupIn(old) /\ Len(old) <= Len(new)
      /\ \A i \in BackupIn(old) : new[i].content = old[i].content
  BY DEF SameBackups
<1>2. \A i \in BackupIn(old) : \A j : Differs(new, i, j) <=> Differs(old, i, j)
  BY SameStay
<1>3. \A i \in BackupIn(old) :
        Differs(old, i, Len(old) + 1) => Differs(new, i, Len(new) + 1)
  <2>1. ASSUME NEW i \in BackupIn(old), NEW k \in BackupIn(old), k < Len(old) + 1
        PROVE  k < Len(new) + 1
    BY <1>1, <2>1, BackupsFinite
  <2> QED
    BY <1>1, <2>1 DEF Differs
<1>4. /\ \A i \in BackupIn(new) : heir[i] \in Collector
      /\ \A i, j \in BackupIn(new) :
           i < j /\ heir[i] = heir[j] /\ new[i].content = new[j].content => Differs(new, i, j)
  BY <1>1, <1>2 DEF Collected, OnlyBy
<1>5. ASSUME NEW d \in Collector, NEW i \in BackupIn(new), next[d].at = "differs",
             heir[i] = d, new[i].content = next[d].content
      PROVE  Differs(new, i, Len(new) + 1)
  <2>1. CASE d = c
    BY <1>1, <1>3, <1>5, <2>1 DEF OnlyBy
  <2>2. CASE d # c
    BY <1>1, <1>3, <1>5, <2>2 DEF Collected, OnlyBy
  <2> QED
    BY <2>1, <2>2
<1>6. ASSUME NEW d \in Collector, next[d].at = "answered", next[d].row # 0
      PROVE  /\ heir[next[d].row] = d
             /\ \A i \in BackupIn(new) : heir[i] = d =>
                  /\ i < next[d].row
                  /\ new[i].content = next[d].content => Differs(new, i, next[d].row)
  <2>1. CASE d = c
    BY <1>1, <1>2, <1>6, <2>1 DEF OnlyBy
  <2>2. CASE d # c
    BY <1>1, <1>2, <1>6, <2>2 DEF Collected, OnlyBy
  <2> QED
    BY <2>1, <2>2
<1> QED
  BY <1>4, <1>5, <1>6 DEF Collected

LEMMA BackupInitInv == BackupInit => BackupInv
<1> SUFFICES ASSUME BackupInit PROVE BackupInv
  OBVIOUS
<1>1. /\ device \in Config /\ rows = << >> /\ changes = << >>
      /\ \A c \in Collector : collecting[c] = Idle /\ collecting[c].at = "idle"
      /\ BackupIn(rows) = {} /\ DOMAIN rows = {}
      /\ collecting \in [Collector -> {Idle}]
  BY DEF BackupInit, Idle, BackupIn
<1>2. BackupTypeOK
  BY <1>1 DEF BackupTypeOK
<1>3. Collected([i \in Nat |-> 0], rows, collecting)
  BY <1>1 DEF Collected
<1>4. History(rows, changes)
  <2>1. Len(changes) = 0
    BY <1>1
  <2> QED
    BY <1>1, <2>1, FS_EmptySet DEF History
<1>5. [i \in Nat |-> 0] \in [Nat -> Collector \cup {0}]
  OBVIOUS
<1>6. GoldenOf(rows) /\ AloneInv
  BY <1>1, <1>4 DEF GoldenOf, AloneInv
<1> QED
  BY <1>1, <1>2, <1>3, <1>5, <1>6 DEF BackupInv

LEMMA Actives ==
  ASSUME BackupTypeOK, NEW c \in Collector
  PROVE  /\ collecting[c] = Idle <=> collecting[c].at = "idle"
         /\ collecting[c] # Idle <=> collecting[c] \in Active
         /\ collecting[c].at \in {"fetched", "differs", "answered"}
              => collecting[c] \in Active /\ collecting[c] # Idle
BY DEF BackupTypeOK, Active, Idle

LEMMA FetchConfigKeeps ==
  ASSUME BackupInv, NEW c \in Collector, FetchConfig(c)
  PROVE  BackupInv'
<1> DEFINE x == [at |-> "fetched", content |-> device, row |-> 0]
<1>1. /\ collecting[c] = Idle /\ UNCHANGED <<device, rows, changes>>
      /\ collecting' = [collecting EXCEPT ![c] = x]
      /\ alone' = (alone /\ \A o \in Collector : collecting[o] = Idle)
      /\ BackupTypeOK /\ rows \in Seq(Row)
  BY DEF FetchConfig, BackupInv, BackupTypeOK
<1>2. x \in Active /\ x.at = "fetched" /\ x.row = 0
  BY <1>1 DEF Active, BackupTypeOK
<1> HIDE DEF x
<1>3. BackupTypeOK' /\ collecting'[c] = x /\ \A d \in Collector \ {c} : collecting'[d] = collecting[d]
  BY <1>1, <1>2 DEF BackupTypeOK
<1>4. SameBackups(rows, rows)
  BY <1>1, BackupsFinite DEF SameBackups
<1>5. PICK owner \in [Nat -> Collector \cup {0}] : Collected(owner, rows, collecting)
  BY DEF BackupInv
<1>6. Collected(owner, rows, collecting')
  <2>1. OnlyBy(c, owner, owner, rows, collecting, collecting')
    BY <1>2, <1>3 DEF OnlyBy
  <2> QED
    BY <1>1, <1>4, <1>5, <2>1, CollectedStays
<1>7. \A d \in Collector : collecting'[d] # Idle => Consistent(rows, collecting'[d])
  BY <1>2, <1>3 DEF Consistent, BackupInv
<1>8. AloneInv'
  BY <1>1, <1>2, <1>3 DEF AloneInv, BackupInv, KnowsRows
<1> QED
  BY <1>1, <1>3, <1>5, <1>6, <1>7, <1>8 DEF BackupInv

LEMMA CompareKeeps ==
  ASSUME BackupInv, NEW c \in Collector, Compare(c)
  PROVE  BackupInv'
<1> DEFINE X == collecting[c].content
           x == [collecting[c] EXCEPT !.at = IF IsStored(X) THEN "answered" ELSE "differs"]
<1>1. /\ collecting[c].at = "fetched" /\ UNCHANGED <<device, rows, alone, changes>>
      /\ collecting' = [collecting EXCEPT ![c] = x]
      /\ BackupTypeOK /\ rows \in Seq(Row)
  BY Actives DEF Compare, BackupInv, BackupTypeOK
<1>2. collecting[c] \in Active /\ collecting[c] # Idle /\ collecting[c].row = 0
  BY <1>1, Actives DEF BackupInv, Consistent
<1>3. /\ x \in Active /\ x.content = X /\ x.row = 0
      /\ x.at = IF Stored(rows, X) THEN "answered" ELSE "differs"
  BY <1>1, <1>2, StoredIsStored DEF Active
<1> HIDE DEF x
<1>4. BackupTypeOK' /\ collecting'[c] = x /\ \A d \in Collector \ {c} : collecting'[d] = collecting[d]
  BY <1>1, <1>3 DEF BackupTypeOK
<1>5. SameBackups(rows, rows)
  BY <1>1, BackupsFinite DEF SameBackups
<1>6. PICK owner \in [Nat -> Collector \cup {0}] : Collected(owner, rows, collecting)
  BY DEF BackupInv
<1>7. ASSUME x.at = "differs", NEW i \in BackupIn(rows), rows[i].content = X
      PROVE  Differs(rows, i, Len(rows) + 1)
  <2>1. PICK k \in BackupIn(rows) : \A j \in BackupIn(rows) : j <= k
    BY <1>1, LatestBackup
  <2>2. rows[k].content # X
    BY <1>3, <1>7, <2>1 DEF Stored
  <2>3. i <= k /\ i # k /\ i \in Nat /\ k \in 1 .. Len(rows) /\ Len(rows) \in Nat
    BY <1>1, <1>7, <2>1, <2>2, BackupsFinite
  <2>4. i < k /\ k < Len(rows) + 1
    BY <2>3
  <2> QED
    BY <1>7, <2>2, <2>4 DEF Differs
<1>8. Collected(owner, rows, collecting')
  <2>1. OnlyBy(c, owner, owner, rows, collecting, collecting')
    BY <1>3, <1>4, <1>7 DEF OnlyBy
  <2> QED
    BY <1>1, <1>5, <1>6, <2>1, CollectedStays
<1>9. \A d \in Collector : collecting'[d] # Idle => Consistent(rows, collecting'[d])
  BY <1>3, <1>4 DEF Consistent, BackupInv
<1>10. KnowsRows(rows, x)
  BY <1>3 DEF KnowsRows
<1>11. AloneInv'
  BY <1>1, <1>2, <1>4, <1>10 DEF AloneInv, BackupInv
<1> QED
  BY <1>1, <1>4, <1>6, <1>8, <1>9, <1>11 DEF BackupInv

\* A row that is no backup yet.
LEMMA RowAppended ==
  ASSUME rows \in Seq(Row), NEW x \in Row, ~(x.kind = "backup" /\ x.state = "committed"),
         rows' = Append(rows, x)
  PROVE  /\ rows' \in Seq(Row) /\ SameBackups(rows, rows')
         /\ Len(rows') = Len(rows) + 1 /\ rows'[Len(rows) + 1] = x
         /\ \A i \in DOMAIN rows : i \in DOMAIN rows' /\ rows'[i] = rows[i]
         /\ DOMAIN rows' = DOMAIN rows \cup {Len(rows) + 1}
<1>1. /\ rows' \in Seq(Row) /\ Len(rows) \in Nat
      /\ Len(rows') = Len(rows) + 1 /\ rows'[Len(rows) + 1] = x
      /\ DOMAIN rows = 1 .. Len(rows) /\ DOMAIN rows' = 1 .. Len(rows) + 1
      /\ \A i \in 1 .. Len(rows) : rows'[i] = rows[i]
  OBVIOUS
<1>2. \A i \in DOMAIN rows : i \in DOMAIN rows' /\ rows'[i] = rows[i]
  BY <1>1
<1>3. DOMAIN rows' = DOMAIN rows \cup {Len(rows) + 1}
  BY <1>1
<1>4. SameBackups(rows, rows')
  BY <1>1, <1>2, <1>3 DEF SameBackups, BackupIn
<1> QED
  BY <1>1, <1>2, <1>3, <1>4

\* Requests stay consistent with rows that keep what they have flushed.
LEMMA ConsistentStay ==
  ASSUME NEW old, NEW new, NEW x,
         \A i \in DOMAIN old : i \in DOMAIN new /\ new[i] = old[i],
         Consistent(old, x)
  PROVE  Consistent(new, x)
BY DEF Consistent

LEMMA KnowsStay ==
  ASSUME NEW old \in Seq(Row), NEW new \in Seq(Row), SameBackups(old, new),
         NEW x, KnowsRows(old, x)
  PROVE  KnowsRows(new, x)
BY SameStay DEF KnowsRows, SameBackups

LEMMA FlushKeeps ==
  ASSUME BackupInv, NEW c \in Collector, Flush(c)
  PROVE  BackupInv'
<1> DEFINE X == collecting[c].content
           n == Len(rows) + 1
           new == [kind |-> "backup", state |-> "flushed", content |-> X]
           x == [collecting[c] EXCEPT !.at = "answered", !.row = n]
<1>1. /\ collecting[c].at = "differs" /\ UNCHANGED <<device, alone, changes>>
      /\ collecting' = [collecting EXCEPT ![c].at = "answered", ![c].row = n]
      /\ rows' = Append(rows, new)
      /\ BackupTypeOK /\ rows \in Seq(Row)
  BY DEF Flush, BackupInv, BackupTypeOK
<1>2. collecting[c] \in Active /\ collecting[c] # Idle /\ collecting[c].row = 0 /\ n \in Nat /\ n > 0
  BY <1>1, Actives DEF BackupInv, Consistent
<1>3. /\ x \in Active /\ x.content = X /\ x.row = n /\ x.at = "answered" /\ new \in Row
      /\ collecting' = [collecting EXCEPT ![c] = x]
  <2>1. x \in Active /\ x.content = X /\ x.row = n /\ x.at = "answered" /\ new \in Row
    BY <1>2 DEF Active, Row
  <2> QED
    BY <1>1, <1>2, <2>1 DEF BackupTypeOK
<1>4. /\ rows' \in Seq(Row) /\ SameBackups(rows, rows')
      /\ Len(rows') = n /\ rows'[n] = new
      /\ \A i \in DOMAIN rows : i \in DOMAIN rows' /\ rows'[i] = rows[i]
      /\ DOMAIN rows' = DOMAIN rows \cup {n}
  BY <1>1, <1>3, RowAppended
<1>5. BackupTypeOK' /\ collecting'[c] = x /\ \A d \in Collector \ {c} : collecting'[d] = collecting[d]
  BY <1>1, <1>3, <1>4 DEF BackupTypeOK
<1>6. PICK owner \in [Nat -> Collector \cup {0}] : Collected(owner, rows, collecting)
  BY DEF BackupInv
<1> DEFINE heir == [owner EXCEPT ![n] = c]
<1>7. heir \in [Nat -> Collector \cup {0}] /\ heir[n] = c /\ \A i \in Nat \ {n} : heir[i] = owner[i]
  BY <1>2
<1>8. n \notin DOMAIN rows /\ DOMAIN rows \subseteq Nat /\ BackupIn(rows) \subseteq DOMAIN rows
  BY <1>1, BackupsFinite DEF BackupIn
<1> HIDE DEF x, heir, new
<1>9. \A d \in Collector \ {c} : collecting[d].at = "answered" /\ collecting[d].row # 0
        => heir[collecting[d].row] = owner[collecting[d].row]
  <2> SUFFICES ASSUME NEW d \in Collector \ {c}, collecting[d].at = "answered", collecting[d].row # 0
               PROVE  heir[collecting[d].row] = owner[collecting[d].row]
    OBVIOUS
  <2>1. collecting[d].row \in DOMAIN rows
    BY <1>1, Actives DEF BackupInv, Consistent
  <2> QED
    BY <1>7, <1>8, <2>1
<1>10. \A i \in BackupIn(rows) : /\ heir[i] = owner[i] /\ i < n
                                 /\ owner[i] = c /\ rows[i].content = X => Differs(rows, i, n)
  <2>1. \A i \in BackupIn(rows) : heir[i] = owner[i] /\ i < n
    BY <1>1, <1>7, <1>8, BackupsFinite
  <2> QED
    BY <1>1, <1>6, <2>1 DEF Collected
<1>11. Collected(heir, rows', collecting')
  <2>1. OnlyBy(c, owner, heir, rows, collecting, collecting')
    BY <1>3, <1>5, <1>7, <1>9, <1>10 DEF OnlyBy
  <2> QED
    BY <1>1, <1>4, <1>6, <2>1, CollectedStays
<1>12. \A d \in Collector : collecting'[d] # Idle => Consistent(rows', collecting'[d])
  <2>1. Consistent(rows', x)
    BY <1>2, <1>3, <1>4 DEF Consistent, new
  <2> QED
    BY <1>4, <1>5, <2>1, ConsistentStay DEF BackupInv
<1>13. GoldenOf(rows')
  BY <1>4 DEF GoldenOf, BackupInv, SameBackups, new
<1>14. AloneInv'
  <2> SUFFICES ASSUME alone PROVE AloneInv'
    BY <1>1 DEF AloneInv
  <2>1. KnowsRows(rows', x)
    <3>1. ~Stored(rows, X)
      BY <1>1, <1>2 DEF BackupInv, AloneInv, KnowsRows
    <3>2. ~Stored(rows', X) /\ BackupIn(rows') = BackupIn(rows)
      BY <1>1, <1>4, <3>1, SameStay DEF SameBackups
    <3> QED
      BY <1>2, <1>3, <1>10, <3>2 DEF KnowsRows
  <2>2. \A d \in Collector : collecting'[d] # Idle => KnowsRows(rows', collecting'[d])
    BY <1>1, <1>4, <1>5, <2>1, KnowsStay DEF BackupInv, AloneInv
  <2>3. History(rows', changes)
    BY <1>1, <1>4, SameStay DEF BackupInv, AloneInv
  <2>4. \A d, e \in Collector : collecting'[d] # Idle /\ collecting'[e] # Idle => d = e
    BY <1>2, <1>5 DEF BackupInv, AloneInv
  <2> QED
    BY <1>1, <2>2, <2>3, <2>4 DEF AloneInv
<1> QED
  BY <1>5, <1>7, <1>11, <1>12, <1>13, <1>14 DEF BackupInv

\* A row of which the state becomes another, and the request has ended.
LEMMA RowEnds ==
  ASSUME BackupInv, NEW c \in Collector, NEW state \in {"committed", "rolled_back"},
         collecting[c] # Idle, EndCollect(c, state)
  PROVE  /\ rows' \in Seq(Row) /\ Len(rows') = Len(rows) /\ DOMAIN rows' = DOMAIN rows
         /\ collecting' = [collecting EXCEPT ![c] = Idle]
         /\ UNCHANGED <<device, alone>>
         /\ collecting[c] \in Active /\ Consistent(rows, collecting[c])
         /\ collecting[c].row = 0 => rows' = rows
         /\ collecting[c].row # 0 =>
              /\ collecting[c].row \in DOMAIN rows /\ collecting[c].row \notin BackupIn(rows)
              /\ rows'[collecting[c].row].content = collecting[c].content
              /\ rows'[collecting[c].row].state = state
              /\ rows'[collecting[c].row].kind = "backup"
              /\ \A i \in DOMAIN rows \ {collecting[c].row} : rows'[i] = rows[i]
<1> DEFINE r == collecting[c].row
<1>1. /\ rows \in Seq(Row) /\ BackupTypeOK /\ UNCHANGED <<device, alone>>
      /\ collecting' = [collecting EXCEPT ![c] = Idle]
      /\ rows' = IF r = 0 THEN rows ELSE [rows EXCEPT ![r].state = state]
  BY DEF EndCollect, BackupInv, BackupTypeOK
<1>2. collecting[c] \in Active /\ Consistent(rows, collecting[c])
  BY <1>1, Actives DEF BackupInv
<1>3. CASE r = 0
  BY <1>1, <1>2, <1>3
<1>4. CASE r # 0
  <2>1. r \in DOMAIN rows /\ rows[r] = [kind |-> "backup", content |-> collecting[c].content,
                                        state |-> "flushed"]
    BY <1>2, <1>4 DEF Consistent
  <2> DEFINE x == [rows[r] EXCEPT !.state = state]
  <2>2. x \in Row /\ x.content = collecting[c].content /\ x.state = state /\ x.kind = "backup"
    BY <1>2, <2>1 DEF Active, Row
  <2>3. rows' = [rows EXCEPT ![r] = x]
    BY <1>1, <1>4
  <2>4. r \notin BackupIn(rows)
    BY <2>1 DEF BackupIn
  <2> HIDE DEF x, r
  <2>5. /\ rows' \in Seq(Row) /\ Len(rows') = Len(rows) /\ DOMAIN rows' = DOMAIN rows
        /\ rows'[r] = x /\ \A i \in DOMAIN rows \ {r} : rows'[i] = rows[i]
    BY <1>1, <2>1, <2>2, <2>3
  <2> QED
    BY <1>1, <1>2, <1>4, <2>1, <2>2, <2>4, <2>5 DEF r
<1> QED
  BY <1>3, <1>4

\* What a request has flushed is its own.
LEMMA RowsApart ==
  ASSUME BackupInv, NEW c \in Collector, NEW d \in Collector, c # d,
         collecting[c] # Idle, collecting[d] # Idle, collecting[c].row # 0
  PROVE  collecting[d].row # collecting[c].row
<1>1. PICK owner : Collected(owner, rows, collecting)
  BY DEF BackupInv
<1>2. \A e \in {c, d} : collecting[e].row # 0 => collecting[e].at = "answered"
  BY Actives DEF BackupInv, Consistent, Active
<1> QED
  BY <1>1, <1>2 DEF Collected

LEMMA OthersConsistent ==
  ASSUME BackupInv, NEW c \in Collector, NEW state \in {"committed", "rolled_back"},
         collecting[c] # Idle, EndCollect(c, state)
  PROVE  /\ changes' \in Seq(Config) => BackupTypeOK'
         /\ \A d \in Collector : collecting'[d] # Idle =>
              /\ d # c /\ collecting'[d] = collecting[d]
              /\ Consistent(rows', collecting'[d])
         /\ \A d \in Collector \ {c} : collecting'[d] = collecting[d]
         /\ collecting'[c].at = "idle"
<1>1. /\ rows' \in Seq(Row) /\ DOMAIN rows' = DOMAIN rows
      /\ collecting' = [collecting EXCEPT ![c] = Idle]
      /\ UNCHANGED <<device, alone>>
      /\ collecting[c].row = 0 => rows' = rows
      /\ collecting[c].row # 0 =>
           \A i \in DOMAIN rows \ {collecting[c].row} : rows'[i] = rows[i]
  BY RowEnds
<1>2. BackupTypeOK
  BY DEF BackupInv
<1>3. /\ collecting' \in [Collector -> {Idle} \cup Active] /\ collecting'[c] = Idle
      /\ \A d \in Collector \ {c} : collecting'[d] = collecting[d]
  BY <1>1, <1>2 DEF BackupTypeOK
<1>4. changes' \in Seq(Config) => BackupTypeOK'
  BY <1>1, <1>2, <1>3 DEF BackupTypeOK
<1>5. ASSUME NEW d \in Collector, collecting'[d] # Idle
      PROVE  d # c /\ collecting'[d] = collecting[d] /\ Consistent(rows', collecting'[d])
  <2>1. d # c /\ collecting'[d] = collecting[d] /\ collecting[d] # Idle
    BY <1>3, <1>5
  <2>2. Consistent(rows, collecting[d])
    BY <2>1 DEF BackupInv
  <2>3. CASE collecting[c].row = 0
    BY <1>1, <2>1, <2>2, <2>3
  <2>4. CASE collecting[c].row # 0
    <3>1. collecting[d].row # collecting[c].row
      BY <2>1, <2>4, RowsApart
    <3> QED
      BY <1>1, <2>1, <2>2, <2>4, <3>1 DEF Consistent
  <2> QED
    BY <2>1, <2>3, <2>4
<1> QED
  BY <1>3, <1>4, <1>5 DEF Idle

LEMMA RollbackKeeps ==
  ASSUME BackupInv, NEW c \in Collector, Rollback(c)
  PROVE  BackupInv'
<1>1. collecting[c] # Idle /\ EndCollect(c, "rolled_back") /\ changes' = changes
      /\ rows \in Seq(Row) /\ changes \in Seq(Config)
  BY DEF Rollback, BackupInv, BackupTypeOK
<1>2. /\ rows' \in Seq(Row) /\ Len(rows') = Len(rows) /\ DOMAIN rows' = DOMAIN rows
      /\ UNCHANGED <<device, alone>>
      /\ collecting[c].row = 0 => rows' = rows
      /\ collecting[c].row # 0 =>
           /\ collecting[c].row \in DOMAIN rows /\ collecting[c].row \notin BackupIn(rows)
           /\ rows'[collecting[c].row].state = "rolled_back"
           /\ rows'[collecting[c].row].kind = "backup"
           /\ \A i \in DOMAIN rows \ {collecting[c].row} : rows'[i] = rows[i]
  BY <1>1, RowEnds
<1>3. /\ BackupTypeOK'
      /\ \A d \in Collector : collecting'[d] # Idle =>
           /\ d # c /\ collecting'[d] = collecting[d]
           /\ Consistent(rows', collecting'[d])
      /\ \A d \in Collector \ {c} : collecting'[d] = collecting[d]
      /\ collecting'[c].at = "idle"
  BY <1>1, OthersConsistent
<1>4. SameBackups(rows, rows')
  <2>1. BackupIn(rows') = BackupIn(rows)
    BY <1>2 DEF BackupIn
  <2>2. \A i \in BackupIn(rows) : rows'[i].content = rows[i].content
    BY <1>2 DEF BackupIn
  <2> QED
    BY <1>1, <1>2, <2>1, <2>2, BackupsFinite DEF SameBackups
<1>5. PICK owner \in [Nat -> Collector \cup {0}] : Collected(owner, rows, collecting)
  BY DEF BackupInv
<1>6. Collected(owner, rows', collecting')
  <2>1. OnlyBy(c, owner, owner, rows, collecting, collecting')
    BY <1>3 DEF OnlyBy
  <2> QED
    BY <1>1, <1>2, <1>4, <1>5, <2>1, CollectedStays
<1>7. GoldenOf(rows')
  BY <1>2, <1>4 DEF GoldenOf, SameBackups, BackupInv
<1>8. AloneInv'
  BY <1>1, <1>2, <1>3, <1>4, KnowsStay, SameStay DEF AloneInv, BackupInv
<1> QED
  BY <1>3, <1>5, <1>6, <1>7, <1>8 DEF BackupInv

LEMMA PromoteKeeps ==
  ASSUME BackupInv, NEW i \in 1 .. Len(rows), Promote(i)
  PROVE  BackupInv'
<1> DEFINE x == [rows[i] EXCEPT !.kind = "golden"]
<1>1. /\ rows[i].kind = "backup" /\ rows[i].state = "committed"
      /\ rows' = Append(rows, x) /\ UNCHANGED <<device, collecting, alone, changes>>
      /\ rows \in Seq(Row) /\ i \in DOMAIN rows /\ BackupTypeOK
  BY DEF Promote, BackupInv, BackupTypeOK
<1>2. x \in Row /\ x.kind = "golden" /\ x.state = "committed"
  <2>1. rows[i] \in Row
    BY <1>1
  <2> QED
    BY <1>1, <2>1 DEF Row
<1> HIDE DEF x
<1>3. /\ rows' \in Seq(Row) /\ SameBackups(rows, rows')
      /\ rows'[Len(rows) + 1] = x
      /\ \A j \in DOMAIN rows : j \in DOMAIN rows' /\ rows'[j] = rows[j]
      /\ DOMAIN rows' = DOMAIN rows \cup {Len(rows) + 1}
  BY <1>1, <1>2, RowAppended
<1>4. PICK owner \in [Nat -> Collector \cup {0}] : Collected(owner, rows, collecting)
  BY DEF BackupInv
<1>5. Collected(owner, rows', collecting)
  <2>1. BackupIn(rows') = BackupIn(rows) /\ Len(rows) <= Len(rows')
        /\ \A j \in BackupIn(rows) : rows'[j].content = rows[j].content
    BY <1>3 DEF SameBackups
  <2>2. \A j \in BackupIn(rows) : \A k : Differs(rows', j, k) <=> Differs(rows, j, k)
    BY <1>1, <1>3, SameStay
  <2>3. CASE Collector = {}
    BY <1>4, <2>1, <2>2, <2>3 DEF Collected
  <2>4. ASSUME NEW c \in Collector
        PROVE  Collected(owner, rows', collecting)
    <3>1. OnlyBy(c, owner, owner, rows, collecting, collecting)
      BY <1>4 DEF OnlyBy, Collected
    <3> QED
      BY <1>1, <1>3, <1>4, <3>1, CollectedStays
  <2> QED
    BY <2>3, <2>4
<1>6. \A c \in Collector : collecting[c] # Idle => Consistent(rows', collecting[c])
  BY <1>3, ConsistentStay DEF BackupInv
<1>7. GoldenOf(rows')
  <2>1. i \in BackupIn(rows) /\ BackupIn(rows') = BackupIn(rows)
    BY <1>1, <1>3 DEF BackupIn, SameBackups
  <2> QED
    BY <1>2, <1>3, <2>1 DEF GoldenOf, BackupInv
<1>8. AloneInv'
  BY <1>1, <1>3, KnowsStay, SameStay DEF AloneInv, BackupInv
<1> QED
  BY <1>1, <1>3, <1>4, <1>5, <1>6, <1>7, <1>8 DEF BackupInv, BackupTypeOK

\* A request that has stored nothing commits nothing.
LEMMA CommitNothingKeeps ==
  ASSUME BackupInv, NEW c \in Collector, Commit(c), collecting[c].row = 0
  PROVE  BackupInv'
<1> DEFINE X == collecting[c].content
<1>1. /\ collecting[c].at = "answered" /\ collecting[c] # Idle /\ EndCollect(c, "committed")
      /\ changes' = IF changes # << >> /\ changes[Len(changes)] = X
                      THEN changes ELSE Append(changes, X)
      /\ rows \in Seq(Row) /\ changes \in Seq(Config)
      /\ collecting[c] \in Active
  BY Actives DEF Commit, BackupInv, BackupTypeOK
<1>2. rows' = rows /\ UNCHANGED <<device, alone>>
  BY <1>1, RowEnds
<1>3. changes' \in Seq(Config)
  <2>1. X \in Config
    BY <1>1 DEF Active
  <2> QED
    BY <1>1, <2>1
<1>4. /\ BackupTypeOK'
      /\ \A d \in Collector : collecting'[d] # Idle =>
           /\ d # c /\ collecting'[d] = collecting[d]
           /\ Consistent(rows', collecting'[d])
      /\ \A d \in Collector \ {c} : collecting'[d] = collecting[d]
      /\ collecting'[c].at = "idle"
  BY <1>1, <1>3, OthersConsistent
<1>5. SameBackups(rows, rows')
  BY <1>1, <1>2, BackupsFinite DEF SameBackups
<1>6. PICK owner \in [Nat -> Collector \cup {0}] : Collected(owner, rows, collecting)
  BY DEF BackupInv
<1>7. Collected(owner, rows', collecting')
  <2>1. OnlyBy(c, owner, owner, rows, collecting, collecting')
    BY <1>4 DEF OnlyBy
  <2> QED
    BY <1>1, <1>2, <1>5, <1>6, <2>1, CollectedStays
<1>8. alone => changes' = changes
  <2> SUFFICES ASSUME alone PROVE changes # << >> /\ changes[Len(changes)] = X
    BY <1>1
  <2>1. Stored(rows, X)
    BY <1>1 DEF BackupInv, AloneInv, KnowsRows
  <2>2. PICK i \in BackupIn(rows) : rows[i].content = X /\ \A j \in BackupIn(rows) : j <= i
    BY <2>1 DEF Stored
  <2>3. History(rows, changes)
    BY DEF BackupInv, AloneInv
  <2> QED
    BY <1>1, <2>2, <2>3, HistoryEnds
<1>9. GoldenOf(rows') /\ AloneInv'
  BY <1>1, <1>2, <1>4, <1>8 DEF AloneInv, BackupInv
<1> QED
  BY <1>4, <1>6, <1>7, <1>9 DEF BackupInv

\* One that has, commits a backup.
LEMMA CommitBackupKeeps ==
  ASSUME BackupInv, NEW c \in Collector, Commit(c), collecting[c].row # 0
  PROVE  BackupInv'
<1> DEFINE X == collecting[c].content
           r == collecting[c].row
<1>1. /\ collecting[c].at = "answered" /\ collecting[c] # Idle /\ EndCollect(c, "committed")
      /\ changes' = IF changes # << >> /\ changes[Len(changes)] = X
                      THEN changes ELSE Append(changes, X)
      /\ rows \in Seq(Row) /\ changes \in Seq(Config)
      /\ collecting[c] \in Active
  BY Actives DEF Commit, BackupInv, BackupTypeOK
<1>2. /\ rows' \in Seq(Row) /\ Len(rows') = Len(rows) /\ DOMAIN rows' = DOMAIN rows
      /\ UNCHANGED <<device, alone>>
      /\ r \in DOMAIN rows /\ r \notin BackupIn(rows)
      /\ rows'[r].content = X /\ rows'[r].state = "committed" /\ rows'[r].kind = "backup"
      /\ \A i \in DOMAIN rows \ {r} : rows'[i] = rows[i]
  BY <1>1, RowEnds
<1>3. changes' \in Seq(Config)
  <2>1. X \in Config
    BY <1>1 DEF Active
  <2> QED
    BY <1>1, <2>1
<1>4. /\ BackupTypeOK'
      /\ \A d \in Collector : collecting'[d] # Idle =>
           /\ d # c /\ collecting'[d] = collecting[d]
           /\ Consistent(rows', collecting'[d])
      /\ \A d \in Collector \ {c} : collecting'[d] = collecting[d]
      /\ collecting'[c].at = "idle"
  BY <1>1, <1>3, OthersConsistent
<1>5. /\ BackupIn(rows') = BackupIn(rows) \cup {r}
      /\ \A i \in BackupIn(rows) : rows'[i].content = rows[i].content /\ i \in DOMAIN rows
  BY <1>2 DEF BackupIn
<1>6. PICK owner \in [Nat -> Collector \cup {0}] : Collected(owner, rows, collecting)
  BY DEF BackupInv
<1>7. /\ owner[r] = c
      /\ \A i \in BackupIn(rows) : owner[i] = c =>
           i < r /\ (rows[i].content = X => Differs(rows, i, r))
  BY <1>1, <1>6 DEF Collected
<1> HIDE DEF r, X
<1>8. \A i \in BackupIn(rows) : \A j : Differs(rows, i, j) => Differs(rows', i, j)
  BY <1>5 DEF Differs
<1>9. Collected(owner, rows', collecting')
  <2>1. \A i \in BackupIn(rows') : owner[i] \in Collector
    BY <1>5, <1>6, <1>7 DEF Collected
  <2>2. ASSUME NEW i \in BackupIn(rows'), NEW j \in BackupIn(rows'), i < j,
               owner[i] = owner[j], rows'[i].content = rows'[j].content
        PROVE  Differs(rows', i, j)
    <3>1. i \in Nat /\ j \in Nat
      BY <1>2, BackupsFinite
    <3>2. CASE i = r
      BY <1>5, <1>7, <2>2, <3>1, <3>2
    <3>3. CASE i # r /\ j = r
      BY <1>2, <1>5, <1>7, <1>8, <2>2, <3>3
    <3>4. CASE i # r /\ j # r
      BY <1>5, <1>6, <1>8, <2>2, <3>4 DEF Collected
    <3> QED
      BY <3>2, <3>3, <3>4
  <2>3. ASSUME NEW d \in Collector, NEW i \in BackupIn(rows'), collecting'[d].at = "differs",
               owner[i] = d, rows'[i].content = collecting'[d].content
        PROVE  Differs(rows', i, Len(rows') + 1)
    <3>1. d # c /\ i # r /\ collecting'[d] = collecting[d]
      BY <1>4, <1>7, <2>3
    <3> QED
      BY <1>2, <1>5, <1>6, <1>8, <2>3, <3>1 DEF Collected
  <2>4. ASSUME NEW d \in Collector, collecting'[d].at = "answered", collecting'[d].row # 0
        PROVE  /\ owner[collecting'[d].row] = d
               /\ \A i \in BackupIn(rows') : owner[i] = d =>
                    /\ i < collecting'[d].row
                    /\ rows'[i].content = collecting'[d].content
                         => Differs(rows', i, collecting'[d].row)
    <3>1. d # c /\ collecting'[d] = collecting[d]
      BY <1>4, <2>4
    <3> QED
      BY <1>5, <1>6, <1>7, <1>8, <2>4, <3>1 DEF Collected
  <2> QED
    BY <2>1, <2>2, <2>3, <2>4 DEF Collected
<1>10. GoldenOf(rows')
  BY <1>2, <1>5 DEF GoldenOf, BackupInv
<1>11. AloneInv'
  <2> SUFFICES ASSUME alone PROVE AloneInv'
    BY <1>2 DEF AloneInv
  <2>1. /\ ~Stored(rows, X) /\ \A i \in BackupIn(rows) : i < r
        /\ History(rows, changes)
        /\ \A d \in Collector \ {c} : collecting[d] = Idle
    BY <1>1 DEF BackupInv, AloneInv, KnowsRows, X, r
  <2>2. ~(changes # << >> /\ changes[Len(changes)] = X)
    <3> SUFFICES ASSUME changes # << >>, changes[Len(changes)] = X PROVE FALSE
      OBVIOUS
    <3>1. BackupIn(rows) # {}
      <4>1. Len(changes) # 0
        BY <1>1
      <4> QED
        BY <2>1, <4>1, FS_EmptySet DEF History
    <3>2. PICK i \in BackupIn(rows) : \A j \in BackupIn(rows) : j <= i
      BY <1>1, <3>1, LatestBackup
    <3>3. rows[i].content = X
      BY <1>1, <2>1, <3>2, HistoryEnds
    <3> QED
      BY <2>1, <3>2, <3>3 DEF Stored
  <2>3. changes' = Append(changes, rows'[r].content)
    BY <1>1, <1>2, <2>2 DEF X
  <2>4. History(rows', changes')
    <3>1. History(rows', Append(changes, rows'[r].content))
      BY <1>1, <1>2, <1>5, <2>1, HistoryGoesOn
    <3> QED
      BY <2>3, <3>1
  <2>5. \A d \in Collector : collecting'[d] = Idle
    <3>1. collecting'[c] = Idle
      BY <1>4, Actives
    <3> QED
      BY <1>4, <2>1, <3>1
  <2> QED
    BY <2>4, <2>5 DEF AloneInv
<1> QED
  BY <1>4, <1>6, <1>9, <1>10, <1>11 DEF BackupInv

LEMMA BackupStepInv ==
  ASSUME BackupInv, [BackupNext]_backup_vars
  PROVE  BackupInv'
<1>1. CASE Configure
  <2>1. device' \in Config /\ UNCHANGED <<rows, collecting, alone, changes>>
    BY <1>1 DEF Configure
  <2> QED
    BY <2>1 DEF BackupInv, BackupTypeOK, AloneInv
<1>2. ASSUME NEW c \in Collector, Collect(c)
      PROVE  BackupInv'
  <2>1. CASE Commit(c)
    BY <2>1, CommitNothingKeeps, CommitBackupKeeps
  <2> QED
    BY <1>2, <2>1, FetchConfigKeeps, CompareKeeps, FlushKeeps, RollbackKeeps DEF Collect
<1>3. ASSUME NEW i \in 1 .. Len(rows), Promote(i)
      PROVE  BackupInv'
  BY <1>3, PromoteKeeps
<1>4. CASE UNCHANGED backup_vars
  <2>1. UNCHANGED <<device, rows, collecting, alone, changes>>
    BY <1>4 DEF backup_vars
  <2> QED
    BY <2>1 DEF BackupInv, BackupTypeOK, AloneInv
<1> QED
  BY <1>1, <1>2, <1>3, <1>4 DEF BackupNext

\* Backups of one configuration in a row are of different collectors.
LEMMA BackupsAreBounded == BackupInv => CopiesBounded
<1> SUFFICES ASSUME BackupInv PROVE CopiesBounded
  OBVIOUS
<1> SUFFICES ASSUME NEW i \in Committed("backup"), NEW j \in Committed("backup"),
                    \A k \in Backups(i, j) : rows[k].content = rows[i].content
             PROVE  Cardinality(Backups(i, j)) <= Cardinality(Collector)
  <2>1. \A a, b : IsFiniteSet(Backups(a, b)) /\ Cardinality(Backups(a, b)) \in Nat
    <3>1. rows \in Seq(Row)
      BY DEF BackupInv, BackupTypeOK
    <3>2. IsFiniteSet(BackupIn(rows))
      BY <3>1, BackupsFinite
    <3>3. \A a, b : Backups(a, b) \subseteq BackupIn(rows)
      BY DEF Backups, BackupIn, Committed
    <3> QED
      BY <3>2, <3>3, FS_Subset, FS_CardinalityType
  <2>2. Cardinality(Collector) \in Nat
    BY BackupAssumption, FS_CardinalityType
  <2>3. ASSUME NEW m \in Nat, NEW n \in Nat, m <= n PROVE ~(m > n)
    BY <2>3
  <2> QED
    BY <2>1, <2>2, <2>3 DEF CopiesBounded
<1> DEFINE S == Backups(i, j)
<1>1. PICK owner : Collected(owner, rows, collecting)
  BY DEF BackupInv
<1>2. /\ BackupIn(rows) = Committed("backup") /\ BackupIn(rows) \subseteq Nat
      /\ S \subseteq BackupIn(rows)
      /\ \A k \in BackupIn(rows) : k \in S <=> i <= k /\ k <= j
  BY BackupsFinite DEF BackupInv, BackupTypeOK, Backups, BackupIn, Committed
<1> HIDE DEF S
<1>3. ASSUME NEW m \in S, NEW n \in S, m < n PROVE owner[m] # owner[n]
  <2> SUFFICES ASSUME owner[m] = owner[n] PROVE FALSE
    OBVIOUS
  <2>1. rows[m].content = rows[n].content
    BY DEF S
  <2>2. PICK k \in BackupIn(rows) : m < k /\ k < n /\ rows[k].content # rows[m].content
    BY <1>1, <1>2, <1>3, <2>1 DEF Collected, Differs
  <2>3. i <= m /\ n <= j /\ m \in Nat /\ n \in Nat /\ k \in Nat /\ i \in Nat /\ j \in Nat
    BY <1>2
  <2>4. k \in S
    BY <1>2, <2>2, <2>3
  <2> QED
    BY <2>2, <2>4 DEF S
<1> DEFINE f == [k \in S |-> owner[k]]
<1>4. f \in Injection(S, Collector)
  <2>1. \A k \in S : owner[k] \in Collector
    BY <1>1, <1>2 DEF Collected
  <2>2. ASSUME NEW m \in S, NEW n \in S, owner[m] = owner[n]
        PROVE  m = n
    BY <1>2, <1>3, <2>2
  <2> QED
    BY <2>1, <2>2 DEF Injection, IsInjective
<1> HIDE DEF f
<1> QED
  BY <1>4, BackupAssumption, FS_Injection DEF S

LEMMA BackupsAreHistory == BackupInv => HistoryExact
<1> SUFFICES ASSUME BackupInv, alone PROVE HistoryExact
  BY DEF HistoryExact
<1> DEFINE gold == {i \in DOMAIN rows : rows[i].kind = "golden"}
           golden == Newest(gold)
<1>1. /\ rows \in Seq(Row) /\ changes \in Seq(Config) /\ History(rows, changes)
      /\ BackupIn(rows) = Committed("backup") /\ gold = Committed("golden")
  BY DEF BackupInv, BackupTypeOK, AloneInv, GoldenOf, BackupIn, Committed
<1>2. \A i : UpTo(rows, i) = Backups(1, i)
  BY <1>1, BackupsFinite DEF UpTo, Backups
<1>3. ASSUME golden > 0
      PROVE  Drifted <=> rows[golden].content # changes[Len(changes)]
  <2>1. gold # {}
    BY <1>3 DEF Newest
  <2>2. BackupIn(rows) # {}
    BY <2>1 DEF BackupInv, GoldenOf
  <2>3. PICK i \in BackupIn(rows) : \A j \in BackupIn(rows) : j <= i
    BY <1>1, <2>2, LatestBackup
  <2>4. \A j \in BackupIn(rows) : j \in Nat
    BY <1>1, BackupsFinite
  <2>5. Latest("backup") = i
    BY <1>1, <2>3, <2>4, NewestIs DEF Latest
  <2>6. Latest("golden") = golden
    BY <1>1 DEF Latest
  <2>7. rows[i].content = changes[Len(changes)]
    BY <1>1, <2>3, HistoryEnds
  <2> QED
    BY <2>5, <2>6, <2>7 DEF Drifted
<1> QED
  BY <1>1, <1>2, <1>3 DEF HistoryExact, History

(* The backups are the history of the configuration, exactly as long as no *)
(* two requests overlap, and with no more copies than collectors           *)
(* otherwise, however many there are and whatever is promoted and rolled   *)
(* back (config_ops.py).                                                   *)
THEOREM BackupsAreTrue == BackupSpec => []BackupsTrue
<1>1. BackupInv /\ [BackupNext]_backup_vars => BackupInv'
  BY BackupStepInv
<1>2. BackupInv => BackupsTrue
  BY BackupsAreBounded, BackupsAreHistory DEF BackupsTrue
<1> QED
  BY <1>1, <1>2, BackupInitInv, PTL DEF BackupSpec

=============================================================================
