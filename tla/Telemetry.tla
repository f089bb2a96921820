----------------------------- MODULE Telemetry -----------------------------
(***************************************************************************)
(* From a telemetry sample to the alarm of a threshold: ingestion commits  *)
(* KPI rows and publishes them (services/telemetry/ingestion.py), the      *)
(* replicas of worker-telemetry evaluate the row an event names            *)
(* (services/events/processors/telemetry_fanout.py), the polling engine    *)
(* evaluates its own rows (services/kpi/engine.py), and both write the     *)
(* alarm through the correlator, where customers' rules may turn a raise   *)
(* into a clear, a clear into a raise, or give either another key          *)
(* (services/alarms/rules.py).  The worker publishes                       *)
(* telemetry.kpi.evaluated, which its own group consumes like a sample.    *)
(*                                                                         *)
(* One threshold and one device it applies to: every pair has an alarm key *)
(* of its own.  Of the bus it knows what AtLeastOnce promises, as          *)
(* DiscoveryConsumer does.  The rules are what they make of the messages   *)
(* of the pair, each a kind and the value it quotes; AlarmRules has the    *)
(* rules themselves, their order and which of them counts.                 *)
(***************************************************************************)
EXTENDS Thresholds, Sequences, FiniteSets

CONSTANTS
  Worker,     \* the replicas of worker-telemetry
  Poller,     \* the polls that may be under way at the same time
  Value,      \* the values a KPI takes
  Setting,    \* the thresholds an operator may configure
  Key,        \* the correlation keys its alarms may go by
  OwnKey,     \* tca:<threshold>:<device>, which evaluate gives
  Rewriting,  \* what rules a customer may have make of each message
  MaxRows,    \* bound: KPI rows
  MaxEchoes,  \* bound: telemetry.kpi.evaluated events of one row on the log
  MaxAlarms   \* bound: alarm rows

Message == {"raise", "clear"} \X Value
Outcome == [clears : BOOLEAN, key : Key]

\* What comes of the messages when no rule matches.
Plain == [m \in Message |-> [clears |-> m[1] = "clear", key |-> OwnKey]]

ASSUME TelemetryAssumption ==
  /\ Worker \cap Poller = {}
  /\ Value \subseteq Int
  /\ {MaxRows, MaxEchoes, MaxAlarms} \subseteq Nat
  /\ OwnKey \in Key
  /\ Rewriting \subseteq [Message -> Outcome]
  /\ Plain \in Rewriting
  /\ \A t \in Setting :
       /\ t.operator \in {"gt", "gte", "lt", "lte"}
       /\ t.value \in Int
       /\ t.clear_value \in Int \cup {NoValue}
       /\ {t.auto_clear, t.enabled} \subseteq BOOLEAN

VARIABLES
  rows,        \* the values of the KPI rows, in the order of their ids
  unpublished, \* rows ingestion committed and has not published yet
  log,         \* how often an event was put on the bus
  done,        \* how many events of a kind a replica remembers as processed
  threshold,   \* the row of kpi_thresholds
  rules,       \* what the customers' rules make of each message
  alarms,      \* the alarm rows of the keys, with their states
  task,        \* what a worker or a poll does
  \* History, for the properties:
  due,         \* the keys of which, after the messages so far, an alarm should be on
  mixed        \* evaluations overlapped, or an operator or another source wrote an alarm

history == <<due, mixed>>
vars    == <<rows, unpublished, log, done, threshold, rules, alarms, task, history>>

Evaluator == Worker \cup Poller
Event     == [kind : {"sample", "evaluated"}, row : 1..MaxRows]
Polled    == [kind : {"polled"}, row : 1..MaxRows]
Alarm     == [key : Key, state : {"active", "closed"}]
Task      == [at : {"evaluate", "rules", "find", "insert", "update", "clear", "publish"},
              event : Event \cup Polled, sends : {"raise", "clear", "none"},
              says : {"raise", "clear", "none"}, does : Outcome, after : SUBSET Key, alarm : Nat]
Idle      == [at |-> "idle"]

\* The rows that _find_active may return.
Active(k) == {a \in DOMAIN alarms : alarms[a] = [key |-> k, state |-> "active"]}

TypeOK ==
  /\ rows \in Seq(Value)
  /\ Len(rows) <= MaxRows
  /\ unpublished \subseteq DOMAIN rows
  /\ log \in [Event -> Nat]
  /\ done \in [Worker -> [Event -> Nat]]
  /\ threshold \in Setting
  /\ rules \in Rewriting
  /\ alarms \in Seq(Alarm)
  /\ task \in [Evaluator -> Task \cup {Idle}]
  /\ due \subseteq Key
  /\ mixed \in BOOLEAN

-----------------------------------------------------------------------------
\* The evaluators between the value they saw and the end of what it does.
Deciding ==
  {x \in Evaluator : task[x] # Idle /\ task[x].at \in {"rules", "find", "insert", "update", "clear"}}

\* The keys to be on once message of value v is handled by the rules of now.
Due(message, v) ==
  IF message = "none" THEN due
  ELSE LET outcome == rules[<<message, v>>]
       IN  IF outcome.clears THEN due \ {outcome.key} ELSE due \cup {outcome.key}

Init ==
  /\ rows = <<>>
  /\ unpublished = {}
  /\ log = [e \in Event |-> 0]
  /\ done = [w \in Worker |-> [e \in Event |-> 0]]
  /\ threshold \in Setting
  /\ rules = Plain
  /\ alarms = <<>>
  /\ task = [x \in Evaluator |-> Idle]
  /\ due = {}
  /\ mixed = FALSE

(* ingest_sample commits the row                                           *)
Ingest(v) ==
  /\ Len(rows) < MaxRows
  /\ rows' = Append(rows, v)
  /\ unpublished' = unpublished \cup {Len(rows) + 1}
  /\ UNCHANGED <<log, done, threshold, rules, alarms, task, history>>

(* and then publishes its event, unless that fails or the process dies.    *)
Publish(r) ==
  /\ r \in unpublished
  /\ unpublished' = unpublished \ {r}
  /\ \E n \in {0, 1} : log' = [log EXCEPT ![[kind |-> "sample", row |-> r]] = @ + n]
  /\ UNCHANGED <<rows, done, threshold, rules, alarms, task, history>>

(* An operator edits the threshold,                                        *)
Edit(t) ==
  /\ threshold' = t
  /\ UNCHANGED <<rows, unpublished, log, done, rules, alarms, task, history>>

(* or adds, edits and deletes rules,                                       *)
EditRules(r) ==
  /\ rules' = r
  /\ UNCHANGED <<rows, unpublished, log, done, threshold, alarms, task, history>>

(* or acknowledges, suppresses or clears an alarm, or makes it active.     *)
Operate(a, state) ==
  /\ alarms' = [alarms EXCEPT ![a].state = state]
  /\ mixed' = TRUE
  /\ UNCHANGED <<rows, unpublished, log, done, threshold, rules, task, due>>

(* A trap, a log line or another threshold, which a rule gives key k too,  *)
(* raises an alarm.                                                        *)
OtherRaises(k) ==
  /\ Len(alarms) < MaxAlarms
  /\ alarms' = Append(alarms, [key |-> k, state |-> "active"])
  /\ mixed' = TRUE
  /\ UNCHANGED <<rows, unpublished, log, done, threshold, rules, task, due>>

-----------------------------------------------------------------------------
\* x is at e.  The rest of the record is of its decision: the message it
\* sends, what the rules make of it, and the alarm row it found; and, for the
\* history, the message it should send, and the keys that are on after it.
At(at, e) ==
  [at |-> at, event |-> e, sends |-> "none", says |-> "none",
   does |-> [clears |-> FALSE, key |-> OwnKey], after |-> {}, alarm |-> 0]

\* What follows the evaluation: a worker publishes the outcome.
AfterEvaluation(e) == IF e \in Polled THEN Idle ELSE At("publish", e)

Leave(x) == task' = [task EXCEPT ![x] = AfterEvaluation(task[x].event)]

(* evaluate reads the enabled thresholds and decides about the row of e.   *)
Evaluate(x, e) ==
  LET effect == Effect(threshold, rows[e.row])
      says   == Says(threshold, rows[e.row])
  IN  /\ IF effect = "none"
         THEN /\ task' = [task EXCEPT ![x] = AfterEvaluation(e)]
              /\ due' = Due(says, rows[e.row])
              /\ UNCHANGED mixed
         ELSE /\ task' = [task EXCEPT ![x] = [At("rules", e) EXCEPT !.sends = effect, !.says = says]]
              /\ mixed' = (mixed \/ Deciding # {})
              /\ UNCHANGED due
      /\ UNCHANGED <<rows, unpublished, log, done, threshold, rules, alarms>>

(* process_one starts the handler of an event that is not remembered; the  *)
(* handler loads the row it names, and without a row there is no effect.   *)
Handle(w, e) ==
  /\ task[w] = Idle
  /\ done[w][e] < log[e]
  /\ e.row \in DOMAIN rows
  /\ Evaluate(w, e)

(* A poll commits its row                                                  *)
Poll(p, v) ==
  /\ task[p] = Idle
  /\ Len(rows) < MaxRows
  /\ rows' = Append(rows, v)
  /\ task' = [task EXCEPT ![p] = At("evaluate", [kind |-> "polled", row |-> Len(rows) + 1])]
  /\ UNCHANGED <<unpublished, log, done, threshold, rules, alarms, history>>

(* and goes on to evaluate it.                                             *)
EvaluatePolled(p) ==
  /\ task[p].at = "evaluate"
  /\ Evaluate(p, task[p].event)

(* handle_event: the correlator reads the rules; the first that matches    *)
(* gives the severity, by which the message raises or clears, and perhaps  *)
(* the key.                                                                *)
ReadRules(x) ==
  LET e == task[x].event
      v == rows[e.row]
  IN  /\ task[x].at = "rules"
      /\ task' = [task EXCEPT ![x] = [At("find", e) EXCEPT !.does = rules[<<task[x].sends, v>>],
                                                           !.after = Due(task[x].says, v)]]
      /\ UNCHANGED <<rows, unpublished, log, done, threshold, rules, alarms, history>>

(* It then looks for an active alarm of that key                           *)
FindActive(x, a) ==
  /\ task[x].at = "find"
  /\ a \in Active(task[x].does.key)
  /\ task' = [task EXCEPT ![x].at = IF task[x].does.clears THEN "clear" ELSE "update", ![x].alarm = a]
  /\ UNCHANGED <<rows, unpublished, log, done, threshold, rules, alarms, history>>

FindNone(x) ==
  /\ task[x].at = "find"
  /\ Active(task[x].does.key) = {}
  /\ IF task[x].does.clears THEN Leave(x) /\ due' = task[x].after
     ELSE task' = [task EXCEPT ![x].at = "insert"] /\ UNCHANGED due
  /\ UNCHANGED <<rows, unpublished, log, done, threshold, rules, alarms, mixed>>

(* and commits a new row,                                                  *)
CommitInsert(x) ==
  /\ task[x].at = "insert"
  /\ Len(alarms) < MaxAlarms
  /\ alarms' = Append(alarms, [key |-> task[x].does.key, state |-> "active"])
  /\ Leave(x)
  /\ due' = task[x].after
  /\ UNCHANGED <<rows, unpublished, log, done, threshold, rules, mixed>>

(* one more occurrence, which leaves the state as it is,                   *)
CommitUpdate(x) ==
  /\ task[x].at = "update"
  /\ Leave(x)
  /\ due' = task[x].after
  /\ UNCHANGED <<rows, unpublished, log, done, threshold, rules, alarms, mixed>>

(* or the clear.                                                           *)
CommitClear(x) ==
  /\ task[x].at = "clear"
  /\ alarms' = [alarms EXCEPT ![task[x].alarm].state = "closed"]
  /\ Leave(x)
  /\ due' = task[x].after
  /\ UNCHANGED <<rows, unpublished, log, done, threshold, rules, mixed>>

(* _publish_kpi_evaluated, for an event of either kind; it may fail, which *)
(* publish swallows.  The handler is done with its event.                  *)
PublishEvaluated(w) ==
  /\ task[w].at = "publish"
  /\ LET echo == [kind |-> "evaluated", row |-> task[w].event.row] IN
       \/ UNCHANGED log
       \/ log[echo] < MaxEchoes /\ log' = [log EXCEPT ![echo] = @ + 1]
  /\ done' = [done EXCEPT ![w][task[w].event] = @ + 1]
  /\ task' = [task EXCEPT ![w] = Idle]
  /\ UNCHANGED <<rows, unpublished, threshold, rules, alarms, history>>

(* A query or a commit raises: the poll gives up, and the worker sees its  *)
(* event again.                                                            *)
Fails(x) ==
  /\ task[x] # Idle
  /\ task' = [task EXCEPT ![x] = Idle]
  /\ UNCHANGED <<rows, unpublished, log, done, threshold, rules, alarms, history>>

(* A replica dies and starts again, and remembers nothing.                 *)
Restart(w) ==
  /\ task' = [task EXCEPT ![w] = Idle]
  /\ done' = [done EXCEPT ![w] = [e \in Event |-> 0]]
  /\ UNCHANGED <<rows, unpublished, log, threshold, rules, alarms, history>>

-----------------------------------------------------------------------------
Step(x) ==
  \/ ReadRules(x)
  \/ \E a \in DOMAIN alarms : FindActive(x, a)
  \/ FindNone(x)
  \/ CommitInsert(x)
  \/ CommitUpdate(x)
  \/ CommitClear(x)
  \/ Fails(x)

Next ==
  \/ \E v \in Value : Ingest(v)
  \/ \E r \in unpublished : Publish(r)
  \/ \E t \in Setting : Edit(t)
  \/ \E r \in Rewriting : EditRules(r)
  \/ \E k \in Key : OtherRaises(k)
  \/ \E a \in DOMAIN alarms, state \in {"active", "closed"} : Operate(a, state)
  \/ \E x \in Evaluator : Step(x)
  \/ \E w \in Worker : (\E e \in Event : Handle(w, e)) \/ PublishEvaluated(w) \/ Restart(w)
  \/ \E p \in Poller : (\E v \in Value : Poll(p, v)) \/ EvaluatePolled(p)

Spec == Init /\ [][Next]_vars

-----------------------------------------------------------------------------
(* Whoever receives an event finds the row it names: ingestion publishes   *)
(* after its commit, and an echo names the row of the event it answers.    *)
EventsNameRows == \A e \in Event : log[e] > 0 => e.row \in DOMAIN rows

(* Evaluated one at a time, and with nobody else at its alarms, samples    *)
(* switch them as a trigger with hysteresis and the customers' rules would,*)
(* whatever edits of the threshold and of the rules, redeliveries, echoes  *)
(* and failures come in between.  The last message counts of those that    *)
(* rules gave a key, sent by the threshold its evaluation read and raising *)
(* or clearing by the rules the correlator read; and there is one alarm of *)
(* the key.                                                                *)
AlarmFollowsEvaluations ==
  ~mixed /\ Deciding = {} =>
    \A k \in Key : Cardinality(Active(k)) = IF k \in due THEN 1 ELSE 0
=============================================================================
