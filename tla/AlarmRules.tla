----------------------------- MODULE AlarmRules ----------------------------
(***************************************************************************)
(* Customers' rules (services/alarms/rules.py, api/alarm_rules.py) rewrite *)
(* what a trap says before the alarm table is touched: its severity, which *)
(* tells an occurrence from a clear, and its correlation key, which tells  *)
(* the alarm.  Rules are added, edited and deleted at any time, between    *)
(* the two traps of a port for one.                                        *)
(*                                                                         *)
(* Traps are handled one at a time here; AlarmCorrelator has their races.  *)
(* Operators leave the alarms alone.  A rule is what its match and its     *)
(* templates come to for the traps of the model: the traps it matches,     *)
(* and either no key or one that all ports share.                          *)
(***************************************************************************)
EXTENDS Naturals, Sequences, FiniteSets

CONSTANTS
  IfPort,       \* ports, each with a default correlation key, itself
  SharedKey,    \* the key that a template renders to
  NoKey,        \* no template; no alarm
  Priority,     \* priorities, of which the lower goes first
  MaxRules,     \* bound: rules
  MaxRuleEdits  \* bound: changes of rules

ASSUME RulesAssumption ==
  /\ Priority \subseteq Nat
  /\ SharedKey \notin IfPort /\ NoKey \notin IfPort \cup {SharedKey}

VARIABLES
  rules,    \* the rules, in the order they were created
  edited,
  trap,     \* the trap that is handled and how it was rewritten, or NoTrap
  open,     \* keys of active alarms
  raised,   \* [IfPort -> the key its last linkDown goes by, or NoKey]
  adrift    \* keys of alarms that need not be open for a port that is down,
            \* or closed as none is

rules_vars == <<rules, edited, trap, open, raised, adrift>>

TrapKind  == {"linkDown", "linkUp"}
AlarmKey  == IfPort \cup {SharedKey}
NoTrap    == [at |-> "idle"]

(* All rules but those that differ from one of these in nothing that shows:*)
(* the severity is not used with auto_clear, and a rule is disabled that   *)
(* would match any trap.                                                   *)
Rule ==
  {r \in [enabled : BOOLEAN, priority : Priority, matches : SUBSET TrapKind,
          auto_clear : BOOLEAN, severity : {"major", "clear"},
          key : {SharedKey, NoKey}] :
     /\ r.auto_clear => r.severity = "major"
     /\ r.matches # {} /\ (r.enabled \/ r.matches = TrapKind)}

RulesInit ==
  /\ rules = << >> /\ edited = 0
  /\ trap = NoTrap
  /\ open = {}
  /\ raised = [p \in IfPort |-> NoKey]
  /\ adrift = {}

-----------------------------------------------------------------------------
\* order_by(priority, created_at)
GoesBefore(i, j) ==
  \/ rules[i].priority < rules[j].priority
  \/ rules[i].priority = rules[j].priority /\ i < j

\* find_matching_rule: the first in order that matches, as << >> or <<rule>>.
FirstMatch(kind) ==
  LET enabled == {i \in DOMAIN rules : rules[i].enabled}
      place   == 1 .. Cardinality(enabled)
      ordered == CHOOSE row \in [place -> enabled] :
                   \A m, n \in place : m < n => GoesBefore(row[m], row[n])
      match   == {n \in place : kind \in rules[ordered[n]].matches}
      first   == CHOOSE n \in match : \A m \in match : n <= m
  IN  IF match = {} THEN << >> ELSE <<rules[ordered[first]]>>

\* classify: what a trap says on its own.
Classified(p, kind) ==
  [clear |-> kind = "linkUp", key |-> p]

\* Mutant of ApplyRule: the severity of the rule is the severity.
ApplySeverity(cls, r) ==
  [clear |-> r.severity = "clear",
   key   |-> IF r.key = NoKey THEN cls.key ELSE r.key]

\* apply_rule
ApplyRule(cls, r) ==
  [clear |-> r.auto_clear \/ r.severity = "clear",
   key   |-> IF r.key = NoKey THEN cls.key ELSE r.key]

Rewritten(p, kind) ==
  LET found == FirstMatch(kind)
  IN  IF found = << >> THEN Classified(p, kind)
                       ELSE ApplyRule(Classified(p, kind), Head(found))

-----------------------------------------------------------------------------
(* What an operator who reads the rules expects: the rule that counts is   *)
(* an enabled one that matches, and none of those has a lower priority, or *)
(* the same and was there before it.                                       *)
Counts(i, kind) ==
  LET match == {j \in DOMAIN rules :
                  rules[j].enabled /\ kind \in rules[j].matches}
  IN  /\ i \in match
      /\ \A j \in match : \/ rules[i].priority < rules[j].priority
                          \/ rules[i].priority = rules[j].priority /\ i <= j

ExpectedKey(p, kind) ==
  IF \E i \in DOMAIN rules : Counts(i, kind) /\ rules[i].key # NoKey
  THEN SharedKey ELSE p

ExpectedClear(kind) ==
  IF \E i \in DOMAIN rules : Counts(i, kind)
  THEN \E i \in DOMAIN rules :
         Counts(i, kind) /\ (rules[i].auto_clear \/ rules[i].severity = "clear")
  ELSE kind = "linkUp"

(* A trap is received: the rules are read.                                 *)
ReceiveTrap(p, kind) ==
  /\ trap = NoTrap
  /\ trap' = [at |-> "handled", port |-> p, cls |-> Rewritten(p, kind)]
  /\ LET key   == ExpectedKey(p, kind)
         clear == ExpectedClear(kind)
         was   == raised[p]
         now   == IF clear THEN NoKey ELSE key
     IN  /\ raised' = [raised EXCEPT ![p] = now]
         /\ adrift' = (adrift \ (IF clear THEN {} ELSE {key}))
              \cup (IF was \in AlarmKey /\ (was # key) THEN {was} ELSE {})
              \cup (IF clear /\ \E q \in IfPort \ {p} : raised[q] = key
                    THEN {key} ELSE {})
  /\ UNCHANGED <<rules, edited, open>>

(* The alarm is found, made, or cleared, and committed.                    *)
TouchAlarm ==
  /\ trap # NoTrap
  /\ open' = IF trap.cls.clear THEN open \ {trap.cls.key}
                               ELSE open \cup {trap.cls.key}
  /\ trap' = NoTrap
  /\ UNCHANGED <<rules, edited, raised, adrift>>

EditRules(rs) ==
  /\ edited < MaxRuleEdits
  /\ edited' = edited + 1
  /\ rules' = rs
  /\ UNCHANGED <<trap, open, raised, adrift>>

CreateRule == Len(rules) < MaxRules /\ \E r \in Rule : EditRules(Append(rules, r))

UpdateRule ==
  \E i \in DOMAIN rules, r \in Rule : EditRules([rules EXCEPT ![i] = r])

DeleteRule ==
  \E i \in DOMAIN rules :
    EditRules(SubSeq(rules, 1, i - 1) \o SubSeq(rules, i + 1, Len(rules)))

RulesNext ==
  \/ \E p \in IfPort, kind \in TrapKind : ReceiveTrap(p, kind)
  \/ TouchAlarm
  \/ CreateRule \/ UpdateRule \/ DeleteRule

RulesSpec == RulesInit /\ [][RulesNext]_rules_vars

-----------------------------------------------------------------------------
(* Between traps, an alarm is open just when a port is down by it, as the  *)
(* rules were when the port went down, but for the alarms that the rules   *)
(* set adrift: those of which the port's next trap went by another key, as *)
(* the rules were changed between, or match only one of the two, and those *)
(* that another port cleared.                                              *)
OpenForCause ==
  trap = NoTrap => \A k \in AlarmKey \ adrift :
    k \in open <=> \E p \in IfPort : raised[p] = k

=============================================================================
