-------------------------- MODULE TelemetryProofs --------------------------
(***************************************************************************)
(* Theorems about Telemetry: its types, that events name rows, and that    *)
(* the alarms follow the evaluations, for any replicas, polls, values,     *)
(* thresholds, keys and rules and any number of samples, echoes, alarms    *)
(* and failures.                                                           *)
(***************************************************************************)
EXTENDS Telemetry, FiniteSetTheorems, TLAPS

(* What a worker is at is a row that is committed, and so is what it was   *)
(* told of.                                                                *)
Named  == \A x \in Evaluator : task[x] # Idle => task[x].event.row \in DOMAIN rows

\* There is a message to rewrite, and the alarm row that is to be written exists.
Placed ==
  \A x \in Evaluator :
    /\ task[x].at = "rules" => task[x].sends # "none"
    /\ task[x].at \in {"update", "clear"} => task[x].alarm \in DOMAIN alarms

RowsInv == TypeOK /\ EventsNameRows /\ Named /\ Placed

\* The alarms are what they should be after the messages so far,
Settled ==
  \A k \in Key : IF k \in due THEN \E a \in Active(k) : Active(k) = {a} ELSE Active(k) = {}

(* a decision about one is the trigger's and the rules', and what it found *)
(* is still so,                                                            *)
Decided(x) ==
  LET key    == task[x].does.key
      clears == task[x].does.clears
  IN  IF task[x].at = "rules" THEN task[x].says = task[x].sends /\ task[x].sends # "none"
      ELSE /\ task[x].after = IF clears THEN due \ {key} ELSE due \cup {key}
           /\ task[x].at = "insert" => Active(key) = {} /\ ~clears
           /\ task[x].at = "update" => task[x].alarm \in Active(key) /\ ~clears
           /\ task[x].at = "clear" => task[x].alarm \in Active(key) /\ clears

(* unless somebody else decides at the same time.                          *)
Agreed ==
  ~mixed => /\ \A x, y \in Deciding : x = y
            /\ Settled
            /\ \A x \in Deciding : Decided(x)

-----------------------------------------------------------------------------
(* The messages of evaluate are those of a trigger with hysteresis.        *)
LEMMA EffectIsTrigger ==
  ASSUME NEW t \in Setting, NEW v \in Value
  PROVE  Effect(t, v) \in {"raise", "clear", "none"} /\ Says(t, v) = Effect(t, v)
  <1>1. /\ t.operator \in {"gt", "gte", "lt", "lte"} /\ t.value \in Int /\ v \in Int
        /\ t.clear_value \in Int \cup {NoValue} /\ t.auto_clear \in BOOLEAN /\ t.enabled \in BOOLEAN
    BY TelemetryAssumption
  <1>2. crossed(t, v) <=> \/ Worse(t, v, t.value)
                          \/ t.operator \in {"gte", "lte"} /\ v = t.value
    BY <1>1 DEF crossed, Worse
  <1>3. should_clear(t, v) <=>
          t.auto_clear /\ IF t.clear_value = NoValue THEN ~crossed(t, v) ELSE ~Worse(t, v, t.clear_value)
    <2>1. CASE t.clear_value = NoValue
      BY <2>1, <1>1 DEF should_clear
    <2>2. CASE t.clear_value # NoValue
      BY <2>2, <1>1 DEF should_clear, Worse
    <2> QED
      BY <2>1, <2>2
  <1>4. CASE ~t.enabled
    BY <1>4 DEF Effect, Says, Alert
  <1>5. CASE t.enabled
    <2>1. Alert(t, v, FALSE) <=> crossed(t, v)
      BY <1>2, <1>5, Zenon DEF Alert
    <2>2. Alert(t, v, TRUE) <=> \/ crossed(t, v)
                                \/ ~t.auto_clear
                                \/ t.clear_value # NoValue /\ Worse(t, v, t.clear_value)
      BY <1>2, <1>5, Zenon DEF Alert
    <2>3. CASE crossed(t, v)
      BY <2>1, <2>3, <1>5 DEF Effect, Says
    <2>4. CASE ~crossed(t, v)
      <3>1. Alert(t, v, TRUE) <=> ~should_clear(t, v)
        BY <2>2, <2>4, <1>3, Zenon
      <3> QED
        BY <2>1, <2>4, <3>1, <1>5 DEF Effect, Says
    <2> QED
      BY <2>3, <2>4
  <1> QED
    BY <1>1, <1>4, <1>5

(* What the rules make of a message.                                       *)
LEMMA DueIsKeys ==
  ASSUME TypeOK, NEW v \in Value, NEW message \in {"raise", "clear", "none"}
  PROVE  /\ Due(message, v) \subseteq Key
         /\ message # "none" => rules[<<message, v>>] \in Outcome
  <1>1. CASE message = "none"
    BY <1>1 DEF Due, TypeOK
  <1>2. CASE message # "none"
    <2>1. <<message, v>> \in Message
      BY <1>2 DEF Message
    <2>2. rules[<<message, v>>] \in Outcome
      BY <2>1, TelemetryAssumption DEF TypeOK
    <2> QED
      BY <1>2, <2>2 DEF Due, TypeOK, Outcome
  <1> QED
    BY <1>1, <1>2

-----------------------------------------------------------------------------
(* The shape of a task.                                                    *)
LEMMA TaskForm ==
  ASSUME TypeOK, NEW x \in Evaluator, task[x].at # "idle"
  PROVE  /\ task[x] \in Task /\ task[x] # Idle
         /\ task[x].at \in {"evaluate", "rules", "find", "insert", "update", "clear", "publish"}
         /\ task[x].event \in Event \cup Polled
         /\ {task[x].sends, task[x].says} \subseteq {"raise", "clear", "none"}
         /\ task[x].does \in Outcome /\ task[x].after \subseteq Key /\ task[x].alarm \in Nat
         /\ task[x] = [at |-> task[x].at, event |-> task[x].event, sends |-> task[x].sends,
                       says |-> task[x].says, does |-> task[x].does, after |-> task[x].after,
                       alarm |-> task[x].alarm]
  <1>1. task[x] \in Task \cup {Idle} /\ task[x] # Idle
    BY DEF TypeOK, Idle
  <1> QED
    BY <1>1 DEF Task

LEMMA DecidingIsAt ==
  Deciding = {x \in Evaluator : task[x].at \in {"rules", "find", "insert", "update", "clear"}}
  BY DEF Deciding, Idle

LEMMA AtIsTask ==
  ASSUME NEW at \in {"evaluate", "rules", "find", "insert", "update", "clear", "publish"}, NEW e \in Event \cup Polled
  PROVE  At(at, e) \in Task /\ At(at, e).at = at /\ At(at, e).event = e /\ At(at, e) # Idle
  BY TelemetryAssumption DEF At, Task, Outcome, Idle

LEMMA AfterIsTask ==
  ASSUME NEW e \in Event \cup Polled
  PROVE  /\ AfterEvaluation(e) \in Task \cup {Idle}
         /\ AfterEvaluation(e).at \in {"idle", "publish"}
         /\ AfterEvaluation(e) # Idle => AfterEvaluation(e).event = e /\ e \in Event
  BY AtIsTask DEF AfterEvaluation, Idle

LEMMA OneTask ==
  ASSUME TypeOK, NEW x \in Evaluator, NEW t \in Task \cup {Idle}, task' = [task EXCEPT ![x] = t]
  PROVE  /\ task' \in [Evaluator -> Task \cup {Idle}] /\ task'[x] = t
         /\ \A y \in Evaluator : y # x => task'[y] = task[y]
  BY DEF TypeOK

-----------------------------------------------------------------------------
(* The first layer: rows.                                                  *)
LEMMA RowsKept ==
  ASSUME RowsInv, TypeOK', NEW x \in Evaluator, \A y \in Evaluator : y # x => task'[y] = task[y],
         DOMAIN rows \subseteq DOMAIN rows', DOMAIN alarms \subseteq DOMAIN alarms',
         \A e \in Event : log'[e] > 0 => log[e] > 0 \/ e.row \in DOMAIN rows',
         task'[x] # Idle => task'[x].event.row \in DOMAIN rows',
         task'[x].at = "rules" => task'[x].sends # "none",
         task'[x].at \in {"update", "clear"} => task'[x].alarm \in DOMAIN alarms'
  PROVE  RowsInv'
  <1>1. EventsNameRows'
    BY DEF RowsInv, EventsNameRows
  <1>2. Named'
    BY DEF RowsInv, Named
  <1>3. Placed'
    BY DEF RowsInv, Placed
  <1> QED
    BY <1>1, <1>2, <1>3 DEF RowsInv

LEMMA RowsFrame ==
  ASSUME RowsInv, TypeOK', UNCHANGED task,
         DOMAIN rows \subseteq DOMAIN rows', DOMAIN alarms \subseteq DOMAIN alarms',
         \A e \in Event : log'[e] > 0 => log[e] > 0 \/ e.row \in DOMAIN rows'
  PROVE  RowsInv'
  BY DEF RowsInv, EventsNameRows, Named, Placed

LEMMA Grows ==
  ASSUME NEW S, NEW s \in Seq(S), NEW e \in S
  PROVE  /\ Append(s, e) \in Seq(S) /\ Len(Append(s, e)) = Len(s) + 1 /\ Len(s) \in Nat
         /\ DOMAIN s = 1..Len(s) /\ DOMAIN Append(s, e) = 1..Len(s) + 1
         /\ DOMAIN s \subseteq DOMAIN Append(s, e)
         /\ Append(s, e)[Len(s) + 1] = e /\ \A i \in DOMAIN s : Append(s, e)[i] = s[i]
  OBVIOUS

\* A row whose state is written.
LEMMA StateOnly ==
  ASSUME NEW s \in Seq(Alarm), NEW a \in DOMAIN s, NEW state \in {"active", "closed"},
         NEW after, after = [s EXCEPT ![a].state = state]
  PROVE  /\ after \in Seq(Alarm) /\ DOMAIN after = DOMAIN s /\ after[a].state = state
         /\ \A i \in DOMAIN s : i # a => after[i] = s[i]
  <1>1. s[a] \in Alarm
    OBVIOUS
  <1> DEFINE row == [s[a] EXCEPT !.state = state]
  <1>2. row \in Alarm /\ row.state = state
    BY <1>1 DEF Alarm
  <1>3. after = [s EXCEPT ![a] = row]
    OBVIOUS
  <1> HIDE DEF row
  <1>4. after \in Seq(Alarm)
    BY <1>2, <1>3
  <1>5. DOMAIN after = DOMAIN s /\ after[a] = row /\ \A i \in DOMAIN s : i # a => after[i] = s[i]
    BY <1>2, <1>3
  <1> QED
    BY <1>2, <1>4, <1>5

LEMMA Logged ==
  ASSUME TypeOK, NEW e \in Event, NEW n \in Nat, log' = [log EXCEPT ![e] = @ + n] \/ UNCHANGED log
  PROVE  log' \in [Event -> Nat] /\ \A f \in Event : f # e => log'[f] = log[f]
  <1>1. log \in [Event -> Nat]
    BY DEF TypeOK
  <1> QED
    BY <1>1

LEMMA RowIsBounded == TypeOK => \A r \in DOMAIN rows : r \in 1..MaxRows
  BY TelemetryAssumption DEF TypeOK

LEMMA InitRows == Init => RowsInv
  <1> SUFFICES ASSUME Init
               PROVE  RowsInv
    OBVIOUS
  <1>1. /\ rows \in Seq(Value) /\ Len(rows) = 0 /\ alarms \in Seq(Alarm)
        /\ \A x \in Evaluator : task[x] = Idle
    BY DEF Init
  <1>2. TypeOK
    <2>1. Len(rows) <= MaxRows
      BY <1>1, TelemetryAssumption
    <2>2. log \in [Event -> Nat] /\ done \in [Worker -> [Event -> Nat]]
      BY DEF Init
    <2>3. task \in [Evaluator -> Task \cup {Idle}]
      BY DEF Init
    <2>4. rules \in Rewriting
      BY TelemetryAssumption DEF Init
    <2> QED
      BY <1>1, <2>1, <2>2, <2>3, <2>4 DEF Init, TypeOK
  <1>3. EventsNameRows
    BY DEF Init, EventsNameRows
  <1>4. Named /\ Placed
    BY <1>1 DEF Named, Placed, Idle
  <1> QED
    BY <1>2, <1>3, <1>4 DEF RowsInv

LEMMA IngestRows ==
  ASSUME RowsInv, NEW v \in Value, Ingest(v)
  PROVE  RowsInv'
  <1> USE DEF RowsInv
  <1>1. /\ Len(rows) < MaxRows /\ rows' = Append(rows, v)
        /\ unpublished' = unpublished \cup {Len(rows) + 1}
        /\ UNCHANGED <<log, done, threshold, rules, alarms, task, due, mixed>>
    BY DEF Ingest, history
  <1>2. /\ rows' \in Seq(Value) /\ Len(rows') = Len(rows) + 1 /\ Len(rows) \in Nat
        /\ DOMAIN rows \subseteq DOMAIN rows' /\ DOMAIN rows' = 1..Len(rows) + 1
    BY <1>1, Grows DEF TypeOK
  <1>3. TypeOK'
    <2>1. Len(rows') <= MaxRows
      BY <1>1, <1>2, TelemetryAssumption
    <2>2. unpublished' \subseteq DOMAIN rows'
      BY <1>1, <1>2 DEF TypeOK
    <2> QED
      BY <1>1, <1>2, <2>1, <2>2 DEF TypeOK
  <1> QED
    BY <1>1, <1>2, <1>3, RowsFrame

LEMMA PublishRows ==
  ASSUME RowsInv, NEW r \in unpublished, Publish(r)
  PROVE  RowsInv'
  <1> USE DEF RowsInv
  <1> DEFINE e == [kind |-> "sample", row |-> r]
  <1>1. PICK n \in {0, 1} : log' = [log EXCEPT ![e] = @ + n]
    BY DEF Publish
  <1>2. /\ unpublished' = unpublished \ {r}
        /\ UNCHANGED <<rows, done, threshold, rules, alarms, task, due, mixed>>
    BY DEF Publish, history
  <1>3. r \in DOMAIN rows /\ r \in 1..MaxRows
    BY RowIsBounded DEF TypeOK
  <1>4. e \in Event /\ e.row = r
    BY <1>3 DEF Event
  <1> HIDE DEF e
  <1>5. log' \in [Event -> Nat] /\ \A f \in Event : f # e => log'[f] = log[f]
    BY <1>1, <1>4, Logged
  <1>6. TypeOK'
    BY <1>2, <1>5 DEF TypeOK
  <1> QED
    BY <1>2, <1>3, <1>4, <1>5, <1>6, RowsFrame

LEMMA EditRows ==
  ASSUME RowsInv, NEW t \in Setting, Edit(t)
  PROVE  RowsInv'
  <1>1. TypeOK'
    BY DEF Edit, RowsInv, TypeOK, history
  <1> QED
    BY <1>1, RowsFrame DEF Edit

LEMMA EditRulesRows ==
  ASSUME RowsInv, NEW r \in Rewriting, EditRules(r)
  PROVE  RowsInv'
  <1>1. TypeOK'
    BY DEF EditRules, RowsInv, TypeOK, history
  <1> QED
    BY <1>1, RowsFrame DEF EditRules

LEMMA OperateRows ==
  ASSUME RowsInv, NEW a \in DOMAIN alarms, NEW state \in {"active", "closed"}, Operate(a, state)
  PROVE  RowsInv'
  <1>1. /\ alarms' = [alarms EXCEPT ![a].state = state]
        /\ alarms \in Seq(Alarm)
    BY DEF Operate, RowsInv, TypeOK
  <1>2. alarms' \in Seq(Alarm) /\ DOMAIN alarms' = DOMAIN alarms
    BY <1>1, StateOnly
  <1>3. TypeOK'
    BY <1>2 DEF Operate, RowsInv, TypeOK
  <1> QED
    BY <1>2, <1>3, RowsFrame DEF Operate

LEMMA OtherRows ==
  ASSUME RowsInv, NEW k \in Key, OtherRaises(k)
  PROVE  RowsInv'
  <1>1. [key |-> k, state |-> "active"] \in Alarm
    BY DEF Alarm
  <1>2. alarms' \in Seq(Alarm) /\ DOMAIN alarms \subseteq DOMAIN alarms'
    BY <1>1, Grows DEF OtherRaises, RowsInv, TypeOK
  <1>3. TypeOK'
    BY <1>2 DEF OtherRaises, RowsInv, TypeOK
  <1> QED
    BY <1>2, <1>3, RowsFrame DEF OtherRaises

LEMMA LeaveRows ==
  ASSUME RowsInv, NEW x \in Evaluator, NEW e \in Event \cup Polled, e.row \in DOMAIN rows,
         task' = [task EXCEPT ![x] = AfterEvaluation(e)],
         alarms' \in Seq(Alarm), DOMAIN alarms \subseteq DOMAIN alarms',
         due' \subseteq Key, mixed' \in BOOLEAN, UNCHANGED <<rows, unpublished, log, done, threshold, rules>>
  PROVE  RowsInv'
  <1> USE DEF RowsInv
  <1>1. /\ AfterEvaluation(e) \in Task \cup {Idle} /\ AfterEvaluation(e).at \in {"idle", "publish"}
        /\ AfterEvaluation(e) # Idle => AfterEvaluation(e).event = e
    BY AfterIsTask
  <1>2. /\ task' \in [Evaluator -> Task \cup {Idle}] /\ task'[x] = AfterEvaluation(e)
        /\ \A y \in Evaluator : y # x => task'[y] = task[y]
    BY <1>1, OneTask
  <1>3. TypeOK'
    BY <1>2 DEF TypeOK
  <1> QED
    BY <1>1, <1>2, <1>3, RowsKept

LEMMA EvaluateRows ==
  ASSUME RowsInv, NEW x \in Evaluator, NEW e \in Event \cup Polled, e.row \in DOMAIN rows, Evaluate(x, e)
  PROVE  RowsInv'
  <1> USE DEF RowsInv
  <1> DEFINE v      == rows[e.row]
             effect == Effect(threshold, v)
             begun  == [At("rules", e) EXCEPT !.sends = effect, !.says = Says(threshold, v)]
  <1>1. /\ v \in Value /\ effect \in {"raise", "clear", "none"} /\ Says(threshold, v) = effect
    BY EffectIsTrigger DEF TypeOK
  <1>2. UNCHANGED <<rows, unpublished, log, done, threshold, rules, alarms>>
    BY DEF Evaluate
  <1>3. CASE effect = "none"
    <2>1. task' = [task EXCEPT ![x] = AfterEvaluation(e)] /\ due' = Due(effect, v) /\ UNCHANGED mixed
      BY <1>1, <1>3 DEF Evaluate
    <2>2. due' \subseteq Key
      BY <2>1, <1>1, DueIsKeys
    <2> QED
      BY <2>1, <2>2, <1>2, LeaveRows DEF TypeOK
  <1>4. CASE effect # "none"
    <2>1. /\ task' = [task EXCEPT ![x] = begun]
          /\ mixed' = (mixed \/ Deciding # {}) /\ UNCHANGED due
      BY <1>4 DEF Evaluate
    <2>2. begun \in Task /\ begun.event = e /\ begun.at = "rules" /\ begun.sends # "none"
      BY <1>1, <1>4, TelemetryAssumption DEF At, Task, Outcome
    <2> HIDE DEF begun
    <2>3. /\ task' \in [Evaluator -> Task \cup {Idle}] /\ task'[x] = begun
          /\ \A y \in Evaluator : y # x => task'[y] = task[y]
      BY <2>1, <2>2, OneTask
    <2> HIDE DEF effect, v
    <2>5. TypeOK'
      BY <1>2, <2>1, <2>3 DEF TypeOK
    <2> QED
      BY <1>2, <2>2, <2>3, <2>5, RowsKept
  <1> QED
    BY <1>3, <1>4

LEMMA PollRows ==
  ASSUME RowsInv, NEW p \in Poller, NEW v \in Value, Poll(p, v)
  PROVE  RowsInv'
  <1> USE DEF RowsInv
  <1> DEFINE e == [kind |-> "polled", row |-> Len(rows) + 1]
             t == At("evaluate", e)
  <1>1. /\ Len(rows) < MaxRows /\ rows' = Append(rows, v) /\ task' = [task EXCEPT ![p] = t]
        /\ UNCHANGED <<unpublished, log, done, threshold, rules, alarms, due, mixed>>
    BY DEF Poll, history
  <1>2. /\ rows' \in Seq(Value) /\ Len(rows') = Len(rows) + 1 /\ Len(rows) \in Nat
        /\ DOMAIN rows \subseteq DOMAIN rows' /\ DOMAIN rows' = 1..Len(rows) + 1
    BY <1>1, Grows DEF TypeOK
  <1>3. MaxRows \in Nat
    BY TelemetryAssumption
  <1>4. e \in Polled /\ e.row \in DOMAIN rows'
    BY <1>1, <1>2, <1>3 DEF Polled
  <1>5. t \in Task /\ t.at = "evaluate" /\ t.event = e
    BY <1>4, AtIsTask
  <1>6. p \in Evaluator
    BY DEF Evaluator
  <1> HIDE DEF e, t
  <1>7. /\ task' \in [Evaluator -> Task \cup {Idle}] /\ task'[p] = t
        /\ \A y \in Evaluator : y # p => task'[y] = task[y]
    BY <1>1, <1>5, <1>6, OneTask
  <1>8. TypeOK'
    <2>1. Len(rows') <= MaxRows
      BY <1>1, <1>2, <1>3
    <2>2. unpublished' \subseteq DOMAIN rows'
      BY <1>1, <1>2 DEF TypeOK
    <2> QED
      BY <1>1, <1>2, <1>7, <2>1, <2>2 DEF TypeOK
  <1> QED
    BY <1>1, <1>2, <1>4, <1>5, <1>6, <1>7, <1>8, RowsKept

\* A decision that goes on to another step.
LEMMA GoesOn ==
  ASSUME RowsInv, NEW x \in Evaluator, task[x].at # "idle",
         NEW t \in Task, t.event = task[x].event, t.at # "rules",
         t.at \in {"update", "clear"} => t.alarm \in DOMAIN alarms, task' = [task EXCEPT ![x] = t],
         UNCHANGED <<rows, unpublished, log, done, threshold, rules, alarms, due, mixed>>
  PROVE  RowsInv' /\ task'[x] = t /\ \A y \in Evaluator : y # x => task'[y] = task[y]
  <1> USE DEF RowsInv
  <1>1. /\ task' \in [Evaluator -> Task \cup {Idle}] /\ task'[x] = t
        /\ \A y \in Evaluator : y # x => task'[y] = task[y]
    BY OneTask
  <1>2. task[x].event.row \in DOMAIN rows
    BY TaskForm DEF Named
  <1>3. TypeOK'
    BY <1>1 DEF TypeOK
  <1> QED
    BY <1>1, <1>2, <1>3, RowsKept

LEMMA ReadRulesRows ==
  ASSUME RowsInv, NEW x \in Evaluator, ReadRules(x)
  PROVE  LET v == rows[task[x].event.row]
         IN  /\ RowsInv'
             /\ v \in Value /\ rules[<<task[x].sends, v>>] \in Outcome
             /\ task'[x].at = "find" /\ task'[x].does = rules[<<task[x].sends, v>>]
             /\ task'[x].after = Due(task[x].says, v)
             /\ \A y \in Evaluator : y # x => task'[y] = task[y]
  <1> USE DEF RowsInv
  <1> DEFINE e == task[x].event
             v == rows[e.row]
             t == [At("find", e) EXCEPT !.does = rules[<<task[x].sends, v>>], !.after = Due(task[x].says, v)]
  <1>1. /\ task[x].at = "rules" /\ task' = [task EXCEPT ![x] = t]
        /\ UNCHANGED <<rows, unpublished, log, done, threshold, rules, alarms, due, mixed>>
    BY DEF ReadRules, history
  <1>2. /\ e \in Event \cup Polled /\ {task[x].sends, task[x].says} \subseteq {"raise", "clear", "none"}
        /\ task[x] # Idle /\ task[x].sends # "none"
    BY <1>1, TaskForm DEF Placed
  <1>3. v \in Value
    BY <1>2 DEF Named, TypeOK
  <1>4. rules[<<task[x].sends, v>>] \in Outcome /\ Due(task[x].says, v) \subseteq Key
    BY <1>2, <1>3, DueIsKeys
  <1>5. /\ t \in Task /\ t.at = "find" /\ t.event = e
        /\ t.does = rules[<<task[x].sends, v>>] /\ t.after = Due(task[x].says, v)
    BY <1>2, <1>4 DEF At, Task
  <1> HIDE DEF t
  <1>6. RowsInv' /\ task'[x] = t /\ \A y \in Evaluator : y # x => task'[y] = task[y]
    BY <1>1, <1>5, GoesOn
  <1> QED
    BY <1>3, <1>4, <1>5, <1>6

LEMMA FindActiveRows ==
  ASSUME RowsInv, NEW x \in Evaluator, NEW a \in DOMAIN alarms, FindActive(x, a)
  PROVE  /\ RowsInv'
         /\ task'[x].at = IF task[x].does.clears THEN "clear" ELSE "update"
         /\ task'[x].does = task[x].does /\ task'[x].after = task[x].after /\ task'[x].alarm = a
         /\ \A y \in Evaluator : y # x => task'[y] = task[y]
  <1> USE DEF RowsInv
  <1> DEFINE at == IF task[x].does.clears THEN "clear" ELSE "update"
             t  == [task[x] EXCEPT !.at = at, !.alarm = a]
  <1>1. /\ task[x].at = "find" /\ task' = [task EXCEPT ![x].at = at, ![x].alarm = a]
        /\ UNCHANGED <<rows, unpublished, log, done, threshold, rules, alarms, due, mixed>>
    BY DEF FindActive, history
  <1>2. task[x] \in Task /\ task \in [Evaluator -> Task \cup {Idle}]
    BY <1>1, TaskForm DEF TypeOK
  <1>3. a \in Nat
    BY DEF TypeOK
  <1>4. /\ t \in Task /\ t.at = at /\ t.alarm = a /\ t.event = task[x].event
        /\ t.does = task[x].does /\ t.after = task[x].after
    BY <1>2, <1>3 DEF Task
  <1>5. task' = [task EXCEPT ![x] = t]
    BY <1>1, <1>2
  <1> HIDE DEF t
  <1>6. RowsInv' /\ task'[x] = t /\ \A y \in Evaluator : y # x => task'[y] = task[y]
    BY <1>1, <1>4, <1>5, GoesOn
  <1> QED
    BY <1>4, <1>6

\* A decision that comes to its end.
LEMMA DecidingTask ==
  ASSUME RowsInv, NEW x \in Evaluator, task[x].at # "idle"
  PROVE  task[x].event \in Event \cup Polled /\ task[x].event.row \in DOMAIN rows
  BY TaskForm DEF RowsInv, Named

LEMMA FindNoneRows ==
  ASSUME RowsInv, NEW x \in Evaluator, FindNone(x)
  PROVE  RowsInv'
  <1> USE DEF RowsInv
  <1> DEFINE e == task[x].event
             t == [task[x] EXCEPT !.at = "insert"]
  <1>1. /\ task[x].at = "find" /\ UNCHANGED <<rows, unpublished, log, done, threshold, rules, alarms, mixed>>
    BY DEF FindNone
  <1>2. e \in Event \cup Polled /\ e.row \in DOMAIN rows
    BY <1>1, DecidingTask
  <1>3. task[x] \in Task /\ task[x].after \subseteq Key
    BY <1>1, TaskForm
  <1>4. CASE task[x].does.clears
    <2>1. task' = [task EXCEPT ![x] = AfterEvaluation(e)] /\ due' = task[x].after
      BY <1>4 DEF FindNone, Leave
    <2> HIDE DEF e
    <2> QED
      BY <2>1, <1>1, <1>2, <1>3, LeaveRows DEF TypeOK
  <1>5. CASE ~task[x].does.clears
    <2>1. task' = [task EXCEPT ![x] = t] /\ UNCHANGED due
      BY <1>5 DEF FindNone
    <2>2. t \in Task /\ t.at = "insert" /\ t.event = e
      BY <1>3 DEF Task
    <2> HIDE DEF t
    <2> QED
      BY <1>1, <2>1, <2>2, GoesOn
  <1> QED
    BY <1>4, <1>5

LEMMA CommitRows ==
  ASSUME RowsInv, NEW x \in Evaluator, CommitInsert(x) \/ CommitUpdate(x) \/ CommitClear(x)
  PROVE  RowsInv'
  <1> USE DEF RowsInv
  <1> DEFINE e == task[x].event
  <1>1. /\ task[x].at \in {"insert", "update", "clear"}
        /\ task' = [task EXCEPT ![x] = AfterEvaluation(e)] /\ due' = task[x].after
        /\ UNCHANGED <<rows, unpublished, log, done, threshold, rules, mixed>>
    BY DEF CommitInsert, CommitUpdate, CommitClear, Leave
  <1>2. e \in Event \cup Polled /\ e.row \in DOMAIN rows
    BY <1>1, DecidingTask
  <1>3. task[x].after \subseteq Key /\ task[x].does.key \in Key
    BY <1>1, TaskForm DEF Outcome
  <1>4. alarms' \in Seq(Alarm) /\ DOMAIN alarms \subseteq DOMAIN alarms'
    <2>1. CASE CommitInsert(x)
      <3>1. [key |-> task[x].does.key, state |-> "active"] \in Alarm
        BY <1>3 DEF Alarm
      <3> QED
        BY <2>1, <3>1, Grows DEF CommitInsert, TypeOK
    <2>2. CASE CommitUpdate(x)
      BY <2>2 DEF CommitUpdate, TypeOK
    <2>3. CASE CommitClear(x)
      <3>1. task[x].alarm \in DOMAIN alarms /\ alarms' = [alarms EXCEPT ![task[x].alarm].state = "closed"]
        BY <2>3 DEF CommitClear, Placed
      <3>2. alarms \in Seq(Alarm)
        BY DEF TypeOK
      <3> QED
        BY <3>1, <3>2, StateOnly
    <2> QED
      BY <2>1, <2>2, <2>3
  <1> HIDE DEF e
  <1> QED
    BY <1>1, <1>2, <1>3, <1>4, LeaveRows DEF TypeOK

\* A task that is over, or given up.
LEMMA IdleRows ==
  ASSUME RowsInv, NEW x \in Evaluator, task' = [task EXCEPT ![x] = Idle],
         log' \in [Event -> Nat], \A e \in Event : log'[e] > 0 => log[e] > 0 \/ e.row \in DOMAIN rows,
         done' \in [Worker -> [Event -> Nat]],
         UNCHANGED <<rows, unpublished, threshold, rules, alarms, due, mixed>>
  PROVE  RowsInv'
  <1> USE DEF RowsInv
  <1>1. /\ task' \in [Evaluator -> Task \cup {Idle}] /\ task'[x] = Idle
        /\ \A y \in Evaluator : y # x => task'[y] = task[y]
    BY OneTask
  <1>2. TypeOK'
    BY <1>1 DEF TypeOK
  <1>3. task'[x].at \notin {"rules", "update", "clear"}
    BY <1>1 DEF Idle
  <1> QED
    BY <1>1, <1>2, <1>3, RowsKept

LEMMA PublishEvaluatedRows ==
  ASSUME RowsInv, NEW w \in Worker, PublishEvaluated(w)
  PROVE  RowsInv'
  <1> USE DEF RowsInv
  <1> DEFINE e    == task[w].event
             echo == [kind |-> "evaluated", row |-> e.row]
  <1>1. /\ task[w].at = "publish" /\ task' = [task EXCEPT ![w] = Idle]
        /\ UNCHANGED log \/ log' = [log EXCEPT ![echo] = @ + 1]
        /\ done' = [done EXCEPT ![w][e] = @ + 1]
        /\ UNCHANGED <<rows, unpublished, threshold, rules, alarms, due, mixed>>
    BY DEF PublishEvaluated, history
  <1>2. w \in Evaluator
    BY DEF Evaluator
  <1>3. e.row \in DOMAIN rows
    BY <1>1, <1>2, DecidingTask
  <1>4. echo \in Event /\ echo.row = e.row
    BY <1>3, RowIsBounded DEF Event
  <1>5. done' \in [Worker -> [Event -> Nat]]
    <2> DEFINE own == [done[w] EXCEPT ![e] = @ + 1]
    <2>1. done' = [done EXCEPT ![w] = own]
      BY <1>1
    <2>2. done[w] \in [Event -> Nat] /\ done \in [Worker -> [Event -> Nat]]
      BY DEF TypeOK
    <2> HIDE DEF e
    <2>3. own \in [Event -> Nat]
      <3>1. CASE e \in Event
        BY <3>1, <2>2
      <3>2. CASE e \notin Event
        BY <3>2, <2>2
      <3> QED
        BY <3>1, <3>2
    <2> HIDE DEF own
    <2> QED
      BY <2>1, <2>2, <2>3
  <1> HIDE DEF e, echo
  <1>6. log' \in [Event -> Nat] /\ \A f \in Event : f # echo => log'[f] = log[f]
    BY <1>1, <1>4 DEF TypeOK
  <1>7. \A f \in Event : log'[f] > 0 => log[f] > 0 \/ f.row \in DOMAIN rows
    BY <1>3, <1>4, <1>6
  <1> QED
    BY <1>1, <1>2, <1>5, <1>6, <1>7, IdleRows

LEMMA FailsRows ==
  ASSUME RowsInv, NEW x \in Evaluator, Fails(x)
  PROVE  RowsInv'
  BY IdleRows DEF Fails, history, RowsInv, TypeOK

LEMMA RestartRows ==
  ASSUME RowsInv, NEW w \in Worker, Restart(w)
  PROVE  RowsInv'
  <1>1. w \in Evaluator
    BY DEF Evaluator
  <1>2. done' \in [Worker -> [Event -> Nat]]
    BY DEF Restart, RowsInv, TypeOK
  <1> QED
    BY <1>1, <1>2, IdleRows DEF Restart, history, RowsInv, TypeOK

\* Who evaluates a row is not deciding yet, and the row is committed.
LEMMA Evaluates ==
  ASSUME RowsInv, NEW x \in Evaluator,
         (x \in Worker /\ \E e \in Event : Handle(x, e)) \/ (x \in Poller /\ EvaluatePolled(x))
  PROVE  /\ x \notin Deciding
         /\ \E e \in Event \cup Polled : e.row \in DOMAIN rows /\ Evaluate(x, e)
  <1>1. CASE x \in Worker /\ \E e \in Event : Handle(x, e)
    BY <1>1 DEF Handle, Deciding
  <1>2. CASE x \in Poller /\ EvaluatePolled(x)
    <2>1. task[x].at = "evaluate" /\ Evaluate(x, task[x].event)
      BY <1>2 DEF EvaluatePolled
    <2> QED
      BY <2>1, DecidingTask DEF Deciding
  <1> QED
    BY <1>1, <1>2

LEMMA StepRows == RowsInv /\ [Next]_vars => RowsInv'
  <1> SUFFICES ASSUME RowsInv, [Next]_vars
               PROVE  RowsInv'
    OBVIOUS
  <1>1. ASSUME NEW v \in Value, Ingest(v) PROVE RowsInv'
    BY <1>1, IngestRows
  <1>2. ASSUME NEW r \in unpublished, Publish(r) PROVE RowsInv'
    BY <1>2, PublishRows
  <1>3. ASSUME NEW t \in Setting, Edit(t) PROVE RowsInv'
    BY <1>3, EditRows
  <1>4. ASSUME NEW a \in DOMAIN alarms, NEW state \in {"active", "closed"}, Operate(a, state) PROVE RowsInv'
    BY <1>4, OperateRows
  <1>9. ASSUME NEW r \in Rewriting, EditRules(r) PROVE RowsInv'
    BY <1>9, EditRulesRows
  <1>10. ASSUME NEW k \in Key, OtherRaises(k) PROVE RowsInv'
    BY <1>10, OtherRows
  <1>5. ASSUME NEW x \in Evaluator, Step(x) PROVE RowsInv'
    BY <1>5, ReadRulesRows, FindActiveRows, FindNoneRows, CommitRows, FailsRows DEF Step
  <1>6. ASSUME NEW w \in Worker, (\E e \in Event : Handle(w, e)) \/ PublishEvaluated(w) \/ Restart(w)
        PROVE  RowsInv'
    <2>1. w \in Evaluator
      BY DEF Evaluator
    <2> QED
      BY <1>6, <2>1, Evaluates, EvaluateRows, PublishEvaluatedRows, RestartRows
  <1>7. ASSUME NEW p \in Poller, (\E v \in Value : Poll(p, v)) \/ EvaluatePolled(p)
        PROVE  RowsInv'
    <2>1. p \in Evaluator
      BY DEF Evaluator
    <2> QED
      BY <1>7, <2>1, Evaluates, EvaluateRows, PollRows
  <1>8. CASE UNCHANGED vars
    BY <1>8 DEF vars, history, RowsInv, TypeOK, EventsNameRows, Named, Placed
  <1> QED
    BY <1>1, <1>2, <1>3, <1>4, <1>5, <1>6, <1>7, <1>8, <1>9, <1>10 DEF Next

LEMMA RowsInvariant == Spec => []RowsInv
  BY InitRows, StepRows, PTL DEF Spec

(* Every variable has its type.                                            *)
THEOREM TelemetryTypeCorrect == Spec => []TypeOK
  <1>1. RowsInv => TypeOK
    BY DEF RowsInv
  <1> QED
    BY <1>1, RowsInvariant, PTL

(* Whoever receives an event finds the row it names, echoes included.      *)
THEOREM TelemetryEventsNameRows == Spec => []EventsNameRows
  <1>1. RowsInv => EventsNameRows
    BY DEF RowsInv
  <1> QED
    BY <1>1, RowsInvariant, PTL

-----------------------------------------------------------------------------
(* The second layer: the alarm.                                            *)
LEMMA InitAgrees == Init => Agreed
  <1> SUFFICES ASSUME Init
               PROVE  Agreed
    OBVIOUS
  <1>1. Deciding = {}
    BY DEF Init, Deciding, Idle
  <1>2. due = {} /\ \A k \in Key : Active(k) = {}
    BY DEF Init, Active
  <1> QED
    BY <1>1, <1>2 DEF Agreed, Settled

\* Nobody begins to decide, and the alarm stays what it was.
LEMMA AgreedStill ==
  ASSUME Agreed, UNCHANGED <<alarms, due, mixed>>,
         \A x \in Deciding' : x \in Deciding /\ task'[x] = task[x]
  PROVE  Agreed'
  <1>1. \A k : Active(k)' = Active(k)
    BY DEF Active
  <1>2. Settled' = Settled
    BY <1>1 DEF Settled
  <1>3. \A x \in Deciding' : Decided(x) => Decided(x)'
    BY DEF Decided, Active
  <1> QED
    BY <1>1, <1>2, <1>3 DEF Agreed

\* One that does not decide does something else.
LEMMA NotDeciding ==
  ASSUME NEW x \in Evaluator, \A y \in Evaluator : y # x => task'[y] = task[y],
         task'[x].at \notin {"rules", "find", "insert", "update", "clear"}
  PROVE  \A y \in Deciding' : y \in Deciding /\ task'[y] = task[y] /\ y # x
  <1>1. Deciding' = {y \in Evaluator : task'[y].at \in {"rules", "find", "insert", "update", "clear"}}
    BY DEF Deciding, Idle
  <1> QED
    BY <1>1, DecidingIsAt

\* The one that decides comes to its end, and the alarm is what it should be.
LEMMA LastDecides ==
  ASSUME Agreed, NEW x \in Deciding, \A y \in Evaluator : y # x => task'[y] = task[y],
         task'[x].at \notin {"rules", "find", "insert", "update", "clear"},
         UNCHANGED mixed, ~mixed => Settled'
  PROVE  Agreed'
  <1>1. x \in Evaluator
    BY DEF Deciding
  <1>2. \A y \in Deciding' : y \in Deciding /\ y # x
    BY <1>1, NotDeciding
  <1>3. ~mixed => Deciding' = {}
    BY <1>2 DEF Agreed
  <1> QED
    BY <1>3 DEF Agreed

LEMMA EvaluateAgrees ==
  ASSUME RowsInv, Agreed, NEW x \in Evaluator, x \notin Deciding, NEW e \in Event \cup Polled,
         e.row \in DOMAIN rows, Evaluate(x, e)
  PROVE  Agreed'
  <1> USE DEF RowsInv
  <1> DEFINE v      == rows[e.row]
             effect == Effect(threshold, v)
             begun  == [At("rules", e) EXCEPT !.sends = effect, !.says = Says(threshold, v)]
  <1>1. /\ v \in Value /\ effect \in {"raise", "clear", "none"} /\ Says(threshold, v) = effect
    BY EffectIsTrigger DEF TypeOK
  <1>2. UNCHANGED alarms
    BY DEF Evaluate
  <1>3. CASE effect = "none"
    <2>1. task' = [task EXCEPT ![x] = AfterEvaluation(e)] /\ due' = Due(effect, v) /\ UNCHANGED mixed
      BY <1>1, <1>3 DEF Evaluate
    <2>2. AfterEvaluation(e) \in Task \cup {Idle} /\ AfterEvaluation(e).at \in {"idle", "publish"}
      BY AfterIsTask
    <2>3. task'[x] = AfterEvaluation(e) /\ \A y \in Evaluator : y # x => task'[y] = task[y]
      BY <2>1, <2>2, OneTask
    <2>4. \A y \in Deciding' : y \in Deciding /\ task'[y] = task[y]
      BY <2>2, <2>3, NotDeciding
    <2>5. due' = due
      BY <2>1, <1>3 DEF Due
    <2> QED
      BY <2>1, <2>4, <2>5, <1>2, AgreedStill
  <1>4. CASE effect # "none" /\ mixed'
    BY <1>4 DEF Agreed
  <1>5. CASE effect # "none" /\ ~mixed'
    <2>1. /\ task' = [task EXCEPT ![x] = begun]
          /\ mixed' = (mixed \/ Deciding # {}) /\ UNCHANGED due
      BY <1>5 DEF Evaluate
    <2>2. begun \in Task /\ begun.at = "rules" /\ begun.sends = effect /\ begun.says = effect
      BY <1>1, TelemetryAssumption DEF At, Task, Outcome
    <2> HIDE DEF begun
    <2>3. task'[x] = begun /\ \A y \in Evaluator : y # x => task'[y] = task[y]
      BY <2>1, <2>2, OneTask
    <2>4. ~mixed /\ Deciding = {}
      BY <2>1, <1>5
    <2>5. \A y \in Deciding' : y = x
      BY <2>3, <2>4, DecidingIsAt DEF Deciding
    <2>6. \A k : Active(k)' = Active(k)
      BY <1>2 DEF Active
    <2>7. Settled'
      BY <2>1, <2>4, <2>6 DEF Agreed, Settled
    <2>8. Decided(x)'
      BY <1>5, <2>2, <2>3 DEF Decided
    <2> QED
      BY <2>5, <2>7, <2>8 DEF Agreed
  <1> QED
    BY <1>3, <1>4, <1>5

\* The one that decides goes on, and so far nobody wrote an alarm.
LEMMA GoesOnAgreed ==
  ASSUME Agreed, NEW x \in Deciding, \A y \in Evaluator : y # x => task'[y] = task[y],
         UNCHANGED <<alarms, due, mixed>>, ~mixed => Decided(x)'
  PROVE  Agreed'
  <1>1. \A k : Active(k)' = Active(k)
    BY DEF Active
  <1>2. Settled' = Settled
    BY <1>1 DEF Settled
  <1>3. Deciding' \subseteq Deciding
    BY DEF Deciding
  <1> QED
    BY <1>2, <1>3 DEF Agreed

LEMMA ReadRulesAgrees ==
  ASSUME RowsInv, Agreed, NEW x \in Evaluator, ReadRules(x)
  PROVE  Agreed'
  <1> DEFINE v == rows[task[x].event.row]
  <1>1. /\ task'[x].at = "find" /\ task'[x].does = rules[<<task[x].sends, v>>]
        /\ task'[x].after = Due(task[x].says, v)
        /\ \A y \in Evaluator : y # x => task'[y] = task[y]
    BY ReadRulesRows
  <1>2. task[x].at = "rules" /\ UNCHANGED <<alarms, due, mixed>>
    BY DEF ReadRules, history
  <1>3. x \in Deciding
    BY <1>2, DecidingIsAt
  <1>4. ASSUME ~mixed
        PROVE  Decided(x)'
    <2>1. task[x].says = task[x].sends /\ task[x].says # "none"
      BY <1>2, <1>3, <1>4 DEF Agreed, Decided
    <2>2. task'[x].after = IF task'[x].does.clears THEN due \ {task'[x].does.key}
                           ELSE due \cup {task'[x].does.key}
      BY <1>1, <2>1 DEF Due
    <2> QED
      BY <1>1, <1>2, <2>2 DEF Decided
  <1> QED
    BY <1>1, <1>2, <1>3, <1>4, GoesOnAgreed

LEMMA FindActiveAgrees ==
  ASSUME RowsInv, Agreed, NEW x \in Evaluator, NEW a \in DOMAIN alarms, FindActive(x, a)
  PROVE  Agreed'
  <1>1. /\ task'[x].at = IF task[x].does.clears THEN "clear" ELSE "update"
        /\ task'[x].does = task[x].does /\ task'[x].after = task[x].after /\ task'[x].alarm = a
        /\ \A y \in Evaluator : y # x => task'[y] = task[y]
    BY FindActiveRows
  <1>2. task[x].at = "find" /\ a \in Active(task[x].does.key) /\ UNCHANGED <<alarms, due, mixed>>
    BY DEF FindActive, history
  <1>3. x \in Deciding
    BY <1>2, DecidingIsAt
  <1>5. Active(task[x].does.key)' = Active(task[x].does.key)
    BY <1>1, <1>2 DEF Active
  <1>6. ASSUME ~mixed
        PROVE  Decided(x)'
    <2>1. task[x].after = IF task[x].does.clears THEN due \ {task[x].does.key}
                          ELSE due \cup {task[x].does.key}
      BY <1>2, <1>3, <1>6 DEF Agreed, Decided
    <2>2. task[x].does.clears \in BOOLEAN
      BY <1>2, TaskForm DEF RowsInv, Outcome
    <2> QED
      BY <1>1, <1>2, <1>5, <2>1, <2>2 DEF Decided
  <1> QED
    BY <1>1, <1>2, <1>3, <1>6, GoesOnAgreed

\* The end of a decision, as the four actions that end one make it.
LEMMA LeftTask ==
  ASSUME RowsInv, NEW x \in Evaluator, task[x].at \in {"find", "insert", "update", "clear"}, Leave(x)
  PROVE  /\ x \in Deciding
         /\ \A y \in Evaluator : y # x => task'[y] = task[y]
         /\ task'[x].at \notin {"rules", "find", "insert", "update", "clear"}
  <1>1. task[x].event \in Event \cup Polled
    BY DecidingTask
  <1>2. /\ AfterEvaluation(task[x].event) \in Task \cup {Idle}
        /\ AfterEvaluation(task[x].event).at \in {"idle", "publish"}
    BY <1>1, AfterIsTask
  <1>3. /\ task'[x] = AfterEvaluation(task[x].event)
        /\ \A y \in Evaluator : y # x => task'[y] = task[y]
    BY <1>2, OneTask DEF Leave, RowsInv
  <1>4. x \in Deciding
    BY DecidingIsAt
  <1> QED
    BY <1>2, <1>3, <1>4

\* What was decided, at the moment the decision ends.
LEMMA Decision ==
  ASSUME RowsInv, Agreed, ~mixed, NEW x \in Deciding, task[x].at # "rules"
  PROVE  /\ Settled /\ task[x].does.key \in Key /\ task[x].does.clears \in BOOLEAN
         /\ task[x].after = IF task[x].does.clears THEN due \ {task[x].does.key}
                            ELSE due \cup {task[x].does.key}
         /\ task[x].at = "insert" => Active(task[x].does.key) = {} /\ ~task[x].does.clears
         /\ task[x].at = "update" => task[x].alarm \in Active(task[x].does.key) /\ ~task[x].does.clears
         /\ task[x].at = "clear" => task[x].alarm \in Active(task[x].does.key) /\ task[x].does.clears
  <1>1. task[x].does \in Outcome
    BY TaskForm, DecidingIsAt DEF RowsInv
  <1> QED
    BY <1>1 DEF Agreed, Decided, Outcome

LEMMA FindNoneAgrees ==
  ASSUME RowsInv, Agreed, NEW x \in Evaluator, FindNone(x)
  PROVE  Agreed'
  <1> DEFINE key == task[x].does.key
  <1>1. task[x].at = "find" /\ Active(key) = {} /\ UNCHANGED <<alarms, mixed>>
    BY DEF FindNone
  <1>2. \A k : Active(k)' = Active(k)
    BY <1>1 DEF Active
  <1>3. x \in Deciding /\ task[x] \in Task /\ task[x].does.clears \in BOOLEAN
    BY <1>1, DecidingIsAt, TaskForm DEF RowsInv, Outcome
  <1>4. CASE task[x].does.clears
    <2>1. Leave(x) /\ due' = task[x].after
      BY <1>4 DEF FindNone
    <2>2. ASSUME ~mixed
          PROVE  Settled'
      <3>1. Settled /\ due' = due \ {key}
        BY <2>1, <2>2, <1>1, <1>3, <1>4, Decision
      <3> QED
        BY <3>1, <1>1, <1>2 DEF Settled
    <2> QED
      BY <2>1, <2>2, <1>1, LeftTask, LastDecides
  <1>5. CASE ~task[x].does.clears
    <2>1. task' = [task EXCEPT ![x].at = "insert"] /\ UNCHANGED due
      BY <1>5 DEF FindNone
    <2>2. /\ task'[x].at = "insert" /\ task'[x].does = task[x].does /\ task'[x].after = task[x].after
          /\ \A y \in Evaluator : y # x => task'[y] = task[y]
      BY <2>1, <1>3 DEF RowsInv, TypeOK, Task
    <2>3. Active(task[x].does.key)' = {}
      BY <2>2, <1>1 DEF Active
    <2>4. ASSUME ~mixed
          PROVE  Decided(x)'
      <3>1. task[x].after = due \cup {key}
        BY <2>4, <1>1, <1>3, <1>5, Decision
      <3> QED
        BY <2>1, <2>2, <2>3, <3>1, <1>5 DEF Decided
    <2> QED
      BY <2>1, <2>2, <2>4, <1>1, <1>3, GoesOnAgreed
  <1> QED
    BY <1>4, <1>5

LEMMA CommitInsertAgrees ==
  ASSUME RowsInv, Agreed, NEW x \in Evaluator, CommitInsert(x)
  PROVE  Agreed'
  <1> DEFINE new == Len(alarms) + 1
             row == [key |-> task[x].does.key, state |-> "active"]
  <1>1. /\ task[x].at = "insert" /\ alarms' = Append(alarms, row) /\ Leave(x)
        /\ due' = task[x].after /\ UNCHANGED mixed
    BY DEF CommitInsert
  <1>2. x \in Deciding
    BY <1>1, LeftTask
  <1>3. ASSUME ~mixed
        PROVE  Settled'
    <2>1. PICK key \in Key : /\ key = task[x].does.key /\ Settled
                             /\ Active(key) = {} /\ due' = due \cup {key}
      BY <1>1, <1>2, <1>3, Decision
    <2>2. row \in Alarm /\ row = [key |-> key, state |-> "active"]
      BY <2>1 DEF Alarm
    <2>3. /\ DOMAIN alarms' = 1..new /\ alarms'[new] = row
          /\ DOMAIN alarms = 1..Len(alarms) /\ Len(alarms) \in Nat
          /\ \A i \in DOMAIN alarms : alarms'[i] = alarms[i]
      BY <1>1, <2>2, Grows DEF RowsInv, TypeOK
    <2>4. /\ \A i \in DOMAIN alarms' : i \in DOMAIN alarms \/ i = new
          /\ DOMAIN alarms \subseteq DOMAIN alarms' /\ new \in DOMAIN alarms'
      BY <2>3
    <2>5. Active(key)' = {new}
      <3>1. \A i \in DOMAIN alarms : alarms[i] # row
        BY <2>1, <2>2 DEF Active
      <3> QED
        BY <2>2, <2>3, <2>4, <3>1 DEF Active
    <2>6. ASSUME NEW k \in Key, k # key
          PROVE  Active(k)' = Active(k)
      <3>1. row # [key |-> k, state |-> "active"]
        BY <2>2, <2>6
      <3> HIDE DEF row
      <3> QED
        BY <2>3, <2>4, <3>1 DEF Active
    <2> HIDE DEF new, row
    <2> QED
      BY <2>1, <2>5, <2>6 DEF Settled
  <1> QED
    BY <1>1, <1>2, <1>3, LeftTask, LastDecides

LEMMA CommitUpdateAgrees ==
  ASSUME RowsInv, Agreed, NEW x \in Evaluator, CommitUpdate(x)
  PROVE  Agreed'
  <1>1. /\ task[x].at = "update" /\ Leave(x) /\ due' = task[x].after /\ UNCHANGED <<alarms, mixed>>
    BY DEF CommitUpdate
  <1>2. x \in Deciding
    BY <1>1, LeftTask
  <1>3. ASSUME ~mixed
        PROVE  Settled'
    <2>1. PICK key \in Key : Settled /\ Active(key) # {} /\ due' = due \cup {key}
      BY <1>1, <1>2, <1>3, Decision
    <2>2. \A k : Active(k)' = Active(k)
      BY <1>1 DEF Active
    <2> QED
      BY <2>1, <2>2 DEF Settled
  <1> QED
    BY <1>1, <1>2, <1>3, LeftTask, LastDecides

LEMMA CommitClearAgrees ==
  ASSUME RowsInv, Agreed, NEW x \in Evaluator, CommitClear(x)
  PROVE  Agreed'
  <1>1. /\ task[x].at = "clear" /\ alarms' = [alarms EXCEPT ![task[x].alarm].state = "closed"] /\ Leave(x)
        /\ due' = task[x].after /\ UNCHANGED mixed
    BY DEF CommitClear
  <1>2. x \in Deciding
    BY <1>1, LeftTask
  <1>3. ASSUME ~mixed
        PROVE  Settled'
    <2>1. PICK key \in Key, a \in DOMAIN alarms :
            a = task[x].alarm /\ a \in Active(key) /\ Settled /\ due' = due \ {key}
      BY <1>1, <1>2, <1>3, Decision DEF Active
    <2>2. Active(key) = {a} /\ a \in DOMAIN alarms /\ alarms[a].key = key
      BY <2>1 DEF Settled, Active
    <2>6. alarms \in Seq(Alarm) /\ alarms' = [alarms EXCEPT ![a].state = "closed"]
      BY <1>1, <2>1 DEF RowsInv, TypeOK
    <2>3. /\ DOMAIN alarms' = DOMAIN alarms /\ alarms'[a].state = "closed"
          /\ \A i \in DOMAIN alarms : i # a => alarms'[i] = alarms[i]
      BY <2>6, StateOnly
    <2>4. Active(key)' = {}
      BY <2>2, <2>3 DEF Active
    <2>5. ASSUME NEW k \in Key, k # key
          PROVE  Active(k)' = Active(k)
      BY <2>2, <2>3, <2>5 DEF Active
    <2> QED
      BY <2>1, <2>4, <2>5 DEF Settled
  <1> QED
    BY <1>1, <1>2, <1>3, LeftTask, LastDecides

\* A worker or a poll that begins, or gives up, or is done.
LEMMA OtherTaskAgrees ==
  ASSUME RowsInv, Agreed, NEW x \in Evaluator, NEW t \in Task \cup {Idle},
         t.at \in {"idle", "evaluate"}, task' = [task EXCEPT ![x] = t], UNCHANGED <<alarms, due, mixed>>
  PROVE  Agreed'
  <1>1. task'[x] = t /\ \A y \in Evaluator : y # x => task'[y] = task[y]
    BY OneTask DEF RowsInv
  <1>2. \A y \in Deciding' : y \in Deciding /\ task'[y] = task[y]
    BY <1>1, NotDeciding
  <1> QED
    BY <1>2, AgreedStill

LEMMA IdleAgrees ==
  ASSUME RowsInv, Agreed, NEW x \in Evaluator, task' = [task EXCEPT ![x] = Idle],
         UNCHANGED <<alarms, due, mixed>>
  PROVE  Agreed'
  <1>1. Idle.at = "idle"
    BY DEF Idle
  <1> QED
    BY <1>1, OtherTaskAgrees

LEMMA PollAgrees ==
  ASSUME RowsInv, Agreed, NEW p \in Poller, NEW v \in Value, Poll(p, v)
  PROVE  Agreed'
  <1> DEFINE e == [kind |-> "polled", row |-> Len(rows) + 1]
             t == At("evaluate", e)
  <1>1. /\ Len(rows) < MaxRows /\ task' = [task EXCEPT ![p] = t]
        /\ UNCHANGED <<alarms, due, mixed>>
    BY DEF Poll, history
  <1>2. e \in Polled
    BY <1>1, TelemetryAssumption DEF Polled, RowsInv, TypeOK
  <1>3. t \in Task /\ t.at = "evaluate"
    BY <1>2, AtIsTask
  <1>4. p \in Evaluator
    BY DEF Evaluator
  <1> HIDE DEF t
  <1> QED
    BY <1>1, <1>3, <1>4, OtherTaskAgrees

LEMMA StepAgrees == RowsInv /\ Agreed /\ [Next]_vars => Agreed'
  <1> SUFFICES ASSUME RowsInv, Agreed, [Next]_vars
               PROVE  Agreed'
    OBVIOUS
  <1>1. ASSUME UNCHANGED <<alarms, task, due, mixed>>
        PROVE  Agreed'
    <2>1. Deciding' = Deciding
      BY <1>1 DEF Deciding
    <2> QED
      BY <1>1, <2>1, AgreedStill
  <1>2. ASSUME NEW v \in Value, Ingest(v) PROVE Agreed'
    BY <1>1, <1>2 DEF Ingest, history
  <1>3. ASSUME NEW r \in unpublished, Publish(r) PROVE Agreed'
    BY <1>1, <1>3 DEF Publish, history
  <1>4. ASSUME NEW t \in Setting, Edit(t) PROVE Agreed'
    BY <1>1, <1>4 DEF Edit, history
  <1>10. ASSUME NEW r \in Rewriting, EditRules(r) PROVE Agreed'
    BY <1>1, <1>10 DEF EditRules, history
  <1>11. ASSUME NEW k \in Key, OtherRaises(k) PROVE Agreed'
    BY <1>11 DEF OtherRaises, Agreed
  <1>5. ASSUME NEW a \in DOMAIN alarms, NEW state \in {"active", "closed"}, Operate(a, state) PROVE Agreed'
    BY <1>5 DEF Operate, Agreed
  <1>6. ASSUME NEW x \in Evaluator, Step(x) PROVE Agreed'
    <2>1. ASSUME Fails(x) PROVE Agreed'
      BY <2>1, IdleAgrees DEF Fails, history
    <2> QED
      BY <1>6, <2>1, ReadRulesAgrees, FindActiveAgrees, FindNoneAgrees, CommitInsertAgrees, CommitUpdateAgrees,
         CommitClearAgrees DEF Step
  <1>7. ASSUME NEW w \in Worker, (\E e \in Event : Handle(w, e)) \/ PublishEvaluated(w) \/ Restart(w)
        PROVE  Agreed'
    <2>1. w \in Evaluator
      BY DEF Evaluator
    <2>2. ASSUME PublishEvaluated(w) \/ Restart(w) PROVE Agreed'
      BY <2>1, <2>2, IdleAgrees DEF PublishEvaluated, Restart, history
    <2>3. ASSUME \E e \in Event : Handle(w, e) PROVE Agreed'
      BY <2>1, <2>3, Evaluates, EvaluateAgrees
    <2> QED
      BY <1>7, <2>2, <2>3
  <1>8. ASSUME NEW p \in Poller, (\E v \in Value : Poll(p, v)) \/ EvaluatePolled(p)
        PROVE  Agreed'
    <2>1. p \in Evaluator
      BY DEF Evaluator
    <2>2. ASSUME EvaluatePolled(p) PROVE Agreed'
      BY <2>1, <2>2, Evaluates, EvaluateAgrees
    <2> QED
      BY <1>8, <2>2, PollAgrees
  <1>9. CASE UNCHANGED vars
    BY <1>1, <1>9 DEF vars, history
  <1> QED
    BY <1>2, <1>3, <1>4, <1>5, <1>6, <1>7, <1>8, <1>9, <1>10, <1>11 DEF Next

LEMMA AgreedFollows == Agreed => AlarmFollowsEvaluations
  <1> SUFFICES ASSUME Agreed, ~mixed, NEW k \in Key
               PROVE  Cardinality(Active(k)) = IF k \in due THEN 1 ELSE 0
    BY DEF AlarmFollowsEvaluations
  <1>1. CASE k \in due
    <2>1. PICK a \in Active(k) : Active(k) = {a}
      BY <1>1 DEF Agreed, Settled
    <2> QED
      BY <1>1, <2>1, FS_Singleton
  <1>2. CASE k \notin due
    BY <1>2, FS_EmptySet DEF Agreed, Settled
  <1> QED
    BY <1>1, <1>2

(* The alarms follow the evaluations as a trigger with hysteresis and the  *)
(* customers' rules would have it, and none is doubled, as long as they    *)
(* come one at a time: for any thresholds, keys and rules, however often   *)
(* those are edited, and any number of samples, echoes and failures.       *)
THEOREM TelemetryAlarmFollows == Spec => []AlarmFollowsEvaluations
  <1>1. Init => Agreed
    BY InitAgrees
  <1>2. RowsInv /\ Agreed /\ [Next]_vars => Agreed'
    BY StepAgrees
  <1>3. Agreed => AlarmFollowsEvaluations
    BY AgreedFollows
  <1> QED
    BY <1>1, <1>2, <1>3, RowsInvariant, PTL DEF Spec
=============================================================================
