---------------------------- MODULE ServiceScores --------------------------
(***************************************************************************)
(* The score of a service (api/assurance/scoring.py, services/assurance/   *)
(* scoring.py): of the alarms that stand on its members, whether its       *)
(* interfaces are down, and the scores of the services it depends on.      *)
(* Services may depend on each other in a circle.  Only so many alarms are *)
(* loaded, those that were seen last.                                      *)
(***************************************************************************)
EXTENDS Integers, Sequences, FiniteSetsExt

CONSTANTS
  Part,        \* devices and interfaces
  Port,        \* those that are interfaces
  Service,
  Weight,      \* [Service -> [its members -> weight of each]]
  Dependency,  \* [Service -> [services it depends on -> weight, critical]],
               \* without those whose direction is "none"; a weight below 0
               \* counts as 0, of members and of dependencies
  Reach,       \* sets of parts that one alarm may be matched with
  Severity,    \* severities that are used
  MaxLoaded,   \* 2000
  MaxStanding, \* bound: alarms
  MaxTimes     \* bound: occurrences, of all alarms that stand

ASSUME ScoresAssumption ==
  /\ IsFiniteSet(Part) /\ IsFiniteSet(Service)
  /\ Port \subseteq Part /\ Reach \subseteq SUBSET Part
  /\ \A s \in Service :
       /\ DOMAIN Weight[s] \subseteq Part
       /\ \A p \in DOMAIN Weight[s] : Weight[s][p] \in Nat
       /\ DOMAIN Dependency[s] \subseteq Service
       /\ \A t \in DOMAIN Dependency[s] : Dependency[s][t].weight \in Nat
  /\ Severity \subseteq {"critical", "major", "minor", "warning", "info"}
  /\ MaxLoaded \in Nat /\ MaxStanding \in Nat /\ MaxTimes \in Nat

VARIABLES
  standing,   \* Seq of alarms that are not cleared, in the order of last_seen
  down        \* ports whose oper_status is down or lowerLayerDown

scores_vars == <<standing, down>>

ScoresInit == standing = << >> /\ down = {}

-----------------------------------------------------------------------------
SeverityWeight ==
  [critical |-> 40, major |-> 25, minor |-> 15, warning |-> 8, info |-> 3]

\* SEVERITY_WEIGHTS, times occurrence_count, which counts up to 5.
SeverityPenalty(alarm) ==
  SeverityWeight[alarm.severity] * Min({alarm.times, 5})

\* round(n / d), of Python: to the even one of two that are as near.
RoundHalfEven(n, d) ==
  LET floor == n \div d
      rest  == 2 * (n % d)
      up    == rest > d \/ (rest = d /\ floor % 2 = 1)
  IN  IF up THEN floor + 1 ELSE floor

Clamp[n \in Int] == IF n < 0 THEN 0 ELSE IF n > 100 THEN 100 ELSE n

\* sum() of Python.
Total(f) == MapThenSumSet(LAMBDA x : f[x], DOMAIN f)

\* The alarms that are loaded and are those of a part.
AlarmsOf(part) ==
  {i \in DOMAIN standing :
     i > Len(standing) - MaxLoaded /\ part \in standing[i].on}

AlarmPenalty(part) ==
  Total([i \in AlarmsOf(part) |-> SeverityPenalty(standing[i])])

\* Mutant of PartScore: the alarms of a part count by their mean.
PartScoreMean(part) ==
  LET count == Cardinality(AlarmsOf(part)) IN
  Clamp[100 - (IF count = 0 THEN 0 ELSE AlarmPenalty(part) \div count)
            - (IF part \in down THEN 20 ELSE 0)]

PartScore(part) ==
  Clamp[100 - AlarmPenalty(part) - (IF part \in down THEN 20 ELSE 0)]

(* The mean of the members by their weights.  When all of them weigh       *)
(* nothing the code divides by their number what is still a sum by weight: *)
(* that is 0.                                                              *)
BaseScore(s) ==
  LET member == DOMAIN Weight[s]
      total  == Total(Weight[s])
  IN  IF member = {} THEN 100
      ELSE Clamp[RoundHalfEven(
             Total([p \in member |-> PartScore(p) * Weight[s][p]]),
             IF total = 0 THEN Cardinality(member) ELSE total)]

\* _dependency_penalty; what the factor multiplies is in hundredths.
DependencyPenalty(base, dependency) ==
  LET factor == IF dependency.critical THEN 60 ELSE 35
      gap    == RoundHalfEven((100 - base) * dependency.weight * factor, 100)
  IN  IF base >= 90 THEN 0
      ELSE IF gap < 1 THEN 1 ELSE IF gap > 60 THEN 60 ELSE gap

(* Of a second pass: what a service depends on counts with the score it    *)
(* has without its own dependencies.                                       *)
Score(s) ==
  Clamp[BaseScore(s) - Total(
    [t \in DOMAIN Dependency[s] |->
       DependencyPenalty(BaseScore(t), Dependency[s][t])])]

-----------------------------------------------------------------------------
Times == Total([i \in DOMAIN standing |-> standing[i].times])

\* An alarm that was not there.
RaiseAlarm(on, severity) ==
  /\ Len(standing) < MaxStanding /\ Times < MaxTimes
  /\ standing' = Append(standing, [on |-> on, severity |-> severity, times |-> 1])
  /\ UNCHANGED down

Without(i) == [j \in 1 .. Len(standing) - 1 |-> standing[IF j < i THEN j ELSE j + 1]]

\* One that was, once more, and perhaps of another severity.
RepeatAlarm(i, severity) ==
  /\ Times < MaxTimes
  /\ standing' = Append(Without(i),
       [standing[i] EXCEPT !.times = @ + 1, !.severity = severity])
  /\ UNCHANGED down

ClearAlarm(i) == standing' = Without(i) /\ UNCHANGED down

PortChanges(p) ==
  /\ down' = IF p \in down THEN down \ {p} ELSE down \cup {p}
  /\ UNCHANGED standing

ScoresNext ==
  \/ \E on \in Reach, severity \in Severity : RaiseAlarm(on, severity)
  \/ \E i \in DOMAIN standing :
       ClearAlarm(i) \/ \E severity \in Severity : RepeatAlarm(i, severity)
  \/ \E p \in Port : PortChanges(p)

ScoresSpec == ScoresInit /\ [][ScoresNext]_scores_vars

-----------------------------------------------------------------------------
\* The alarms are more, or occur more often, or are more severe.
Worsens ==
  \/ \E on \in Reach, severity \in Severity : RaiseAlarm(on, severity)
  \/ \E i \in DOMAIN standing, severity \in Severity :
       /\ SeverityWeight[severity] >= SeverityWeight[standing[i].severity]
       /\ RepeatAlarm(i, severity)
  \/ \E p \in Port \ down : PortChanges(p)

(* What is worse for a network is never better for a service, through none *)
(* of its members, weights and dependencies, as long as no more alarms     *)
(* stand than are loaded.                                                  *)
WorseNeverBetter ==
  [][scores_vars' # scores_vars /\ Worsens /\ Len(standing') <= MaxLoaded =>
       \A s \in Service : Score(s)' <= Score(s)]_scores_vars

=============================================================================
