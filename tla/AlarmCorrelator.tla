-------------------------- MODULE AlarmCorrelator --------------------------
(***************************************************************************)
(* The alarm table and everyone who writes it: the tasks that handle traps,*)
(* syslog lines and internal events (services/alarms/correlator.py), the   *)
(* operators' API (api/alarms.py) and the worker-alarm consumer, which     *)
(* enriches alarms (services/events/consumers.py and                       *)
(* processors/alarm_enrichment.py).                                        *)
(*                                                                         *)
(* The receivers start one task per datagram, and nothing locks a row or   *)
(* makes the correlation key unique: between the query of a task and its   *)
(* commit, any other writer may commit.  An operator's call sets the state *)
(* whatever it is, so it is one step: at its commit or, if the row it read *)
(* has that state already and nothing is written, at its query.            *)
(***************************************************************************)
EXTENDS Naturals, Sequences, FiniteSets

CONSTANTS
  Handler,    \* tasks that may handle an event at the same time
  Consumer,   \* replicas of worker-alarm
  Key,        \* correlation keys
  Host,       \* the source host of each key
  MaxEvents   \* bound: events received in a behaviour

ASSUME AlarmAssumption ==
  /\ IsFiniteSet(Handler)
  /\ DOMAIN Host = Key
  /\ MaxEvents \in Nat

VARIABLES
  alarms,    \* the alarm rows, in the order they were inserted
  task,      \* what each handler task does
  copy,      \* the detached alarm a consumer is enriching
  bus,       \* the keys an event was published for
  received,  \* how many events were received
  \* History, for the properties:
  streak,    \* raises of a key handled since its last clear
  mixed,     \* keys somebody wrote while a task was at them, or an operator
  hits,      \* raises committed to each row
  held,      \* rows an operator parked while nobody was at them
  reopened   \* rows made active again after they had been something else

work    == <<task, copy>>
history == <<streak, mixed, hits, held, reopened>>
vars    == <<alarms, work, bus, received, history>>

State == {"active", "acknowledged", "suppressed", "cleared"}
Row   == [key : Key, state : State, count : Nat, enriched : BOOLEAN]
Task  == [at : {"find", "insert", "update", "clear"}, key : Key,
          clears : BOOLEAN, row : Nat, count : Nat, enriched : BOOLEAN]
Idle  == [at |-> "idle"]
Copy  == [id : Nat, row : Row, merging : BOOLEAN, writes : SUBSET {"state", "count"}]
None  == [id |-> 0]

Rows      == DOMAIN alarms
Active(k) == {r \in Rows : alarms[r].key = k /\ alarms[r].state = "active"}

TypeOK ==
  /\ alarms \in Seq(Row)
  /\ task \in [Handler -> Task \cup {Idle}]
  /\ copy \in [Consumer -> Copy \cup {None}]
  /\ bus \subseteq Key
  /\ received \in Nat
  /\ streak \in [Key -> Nat]
  /\ mixed \subseteq Key
  /\ hits \in Seq(Nat) /\ Len(hits) = Len(alarms)
  /\ held \subseteq Rows
  /\ reopened \subseteq Rows

-----------------------------------------------------------------------------
\* The tasks handling an event of key k, and the consumers with one of its rows.
At(k)   == {h \in Handler : task[h] # Idle /\ task[h].key = k}
With(k) == {c \in Consumer : copy[c] # None /\ copy[c].row.key = k}

Busy(k) == At(k) # {} \/ With(k) # {}

\* The inserts under way for key k, and the active alarms they come to, those
\* an operator or an enrichment reopened aside.
Inserting(k) == {h \in At(k) : task[h].at = "insert"}
Raised(k)    == Active(k) \ reopened

\* Somebody will commit to row r.
Claimed(r) ==
  \/ \E h \in Handler : task[h] # Idle /\ task[h].at \in {"update", "clear"} /\ task[h].row = r
  \/ \E c \in Consumer : copy[c].id = r

MixIf(b, k) == mixed' = IF b THEN mixed \cup {k} ELSE mixed

Init ==
  /\ alarms = <<>>
  /\ task = [h \in Handler |-> Idle]
  /\ copy = [c \in Consumer |-> None]
  /\ bus = {}
  /\ received = 0
  /\ streak = [k \in Key |-> 0]
  /\ mixed = {}
  /\ hits = <<>>
  /\ held = {}
  /\ reopened = {}

-----------------------------------------------------------------------------
(* An event arrives, is classified and run through the customer's rules:   *)
(* any key and either effect may come out.  Its envelope goes to the bus   *)
(* before the table is touched, unless the publish fails.                  *)
Receive(h, k, clears) ==
  /\ task[h] = Idle
  /\ received < MaxEvents
  /\ received' = received + 1
  /\ task' = [task EXCEPT ![h] = [at |-> "find", key |-> k, clears |-> clears,
                                  row |-> 0, count |-> 0, enriched |-> FALSE]]
  /\ bus' \in {bus, bus \cup {k}}
  /\ MixIf(Busy(k), k)
  /\ UNCHANGED <<alarms, copy, streak, hits, held, reopened>>

\* Mutant of FindActive: the query leaves out only the cleared alarms.
FindActiveOrParked(h, r) ==
  /\ task[h].at = "find"
  /\ alarms[r].key = task[h].key
  /\ alarms[r].state # "cleared"
  /\ task' = [task EXCEPT ![h].at = IF task[h].clears THEN "clear" ELSE "update",
                          ![h].row = r,
                          ![h].count = alarms[r].count]
  /\ UNCHANGED <<alarms, copy, bus, received, history>>

(* _find_active finds one of the active rows of the key.                   *)
FindActive(h, r) ==
  /\ task[h].at = "find"
  /\ r \in Active(task[h].key)
  /\ task' = [task EXCEPT ![h].at = IF task[h].clears THEN "clear" ELSE "update",
                          ![h].row = r,
                          ![h].count = alarms[r].count,
                          ![h].enriched = alarms[r].enriched]
  /\ UNCHANGED <<alarms, copy, bus, received, history>>

\* Mutant of FindNone: a raise does not look for an active alarm.
FindNoneBlind(h) ==
  /\ task[h].at = "find"
  /\ ~task[h].clears
  /\ task' = [task EXCEPT ![h].at = "insert"]
  /\ UNCHANGED <<alarms, copy, bus, received, history>>

(* _find_active finds none: a clear ends here, a raise makes a new row.    *)
FindNone(h) ==
  /\ task[h].at = "find"
  /\ Active(task[h].key) = {}
  /\ IF task[h].clears
     THEN /\ task' = [task EXCEPT ![h] = Idle]
          /\ streak' = [streak EXCEPT ![task[h].key] = 0]
     ELSE /\ task' = [task EXCEPT ![h].at = "insert"]
          /\ UNCHANGED streak
  /\ UNCHANGED <<alarms, copy, bus, received, mixed, hits, held, reopened>>

\* Mutant of CommitInsert: the default of 1 and an increment on top.
CommitInsertCountsTwice(h) ==
  /\ task[h].at = "insert"
  /\ alarms' = Append(alarms, [key |-> task[h].key, state |-> "active",
                               count |-> 2, enriched |-> FALSE])
  /\ hits' = Append(hits, 1)
  /\ streak' = [streak EXCEPT ![task[h].key] = @ + 1]
  /\ task' = [task EXCEPT ![h] = Idle]
  /\ UNCHANGED <<copy, bus, received, mixed, held, reopened>>

(* The rest of the handler, up to its commit: the new row,                 *)
CommitInsert(h) ==
  /\ task[h].at = "insert"
  /\ alarms' = Append(alarms, [key |-> task[h].key, state |-> "active",
                               count |-> 1, enriched |-> FALSE])
  /\ hits' = Append(hits, 1)
  /\ streak' = [streak EXCEPT ![task[h].key] = @ + 1]
  /\ task' = [task EXCEPT ![h] = Idle]
  /\ UNCHANGED <<copy, bus, received, mixed, held, reopened>>

\* Mutant of CommitUpdate: the occurrence is not counted.
CommitUpdateUncounted(h) ==
  /\ task[h].at = "update"
  /\ hits' = [hits EXCEPT ![task[h].row] = @ + 1]
  /\ streak' = [streak EXCEPT ![task[h].key] = @ + 1]
  /\ task' = [task EXCEPT ![h] = Idle]
  /\ UNCHANGED <<alarms, copy, bus, received, mixed, held, reopened>>

(* the repeated occurrence: the columns that differ from the row it read,  *)
(* the count from that row, raw_varbinds without the enrichment,           *)
CommitUpdate(h) ==
  /\ task[h].at = "update"
  /\ LET r == task[h].row IN
       /\ \E e \in {FALSE, ~task[h].enriched /\ alarms[r].enriched} :
            alarms' = [alarms EXCEPT ![r].count = task[h].count + 1, ![r].enriched = e]
       /\ hits' = [hits EXCEPT ![r] = @ + 1]
  /\ streak' = [streak EXCEPT ![task[h].key] = @ + 1]
  /\ task' = [task EXCEPT ![h] = Idle]
  /\ UNCHANGED <<copy, bus, received, mixed, held, reopened>>

(* or _apply_clear.                                                        *)
CommitClear(h) ==
  /\ task[h].at = "clear"
  /\ alarms' = [alarms EXCEPT ![task[h].row].state = "cleared"]
  /\ streak' = [streak EXCEPT ![task[h].key] = 0]
  /\ task' = [task EXCEPT ![h] = Idle]
  /\ UNCHANGED <<copy, bus, received, mixed, hits, held, reopened>>

(* A query or the commit fails, or the process dies: the event is gone.    *)
HandlerFails(h) ==
  /\ task[h] # Idle
  /\ task' = [task EXCEPT ![h] = Idle]
  /\ UNCHANGED <<alarms, copy, bus, received, history>>

-----------------------------------------------------------------------------
(* The operators' API.  None of its handlers looks at the state the alarm  *)
(* is in.  (Un)suppress writes raw_varbinds back as it read them, and so   *)
(* may lose an enrichment that was committed since.                        *)
Decide(S, state, lost) ==
  /\ S # {}
  /\ alarms' = [r \in Rows |->
       IF r \in S THEN [alarms[r] EXCEPT !.state = state, !.enriched = @ /\ ~lost]
       ELSE alarms[r]]
  /\ mixed' = mixed \cup {alarms[r].key : r \in S}
  /\ UNCHANGED <<work, bus, received, streak, hits>>

Park(S) ==
  /\ held' = held \cup {r \in S : ~Claimed(r)}
  /\ UNCHANGED reopened

Acknowledge(S) == Decide(S, "acknowledged", FALSE) /\ Park(S)

Suppress(r, lost) == Decide({r}, "suppressed", lost) /\ Park({r})

\* Mutant of Clear: the state column takes the name of the severity.
ClearMisnamed(S) == Decide(S, "clear", FALSE) /\ held' = held \ S /\ UNCHANGED reopened

Clear(S) ==
  /\ Decide(S, "cleared", FALSE)
  /\ held' = held \ S
  /\ UNCHANGED reopened

Unsuppress(r, lost) ==
  /\ Decide({r}, "active", lost)
  /\ held' = held \ {r}
  /\ reopened' = reopened \cup {r}

-----------------------------------------------------------------------------
(* The consumer of an event of key k finds an active alarm of that key, or *)
(* of the same host, and keeps it as a detached object while it looks up   *)
(* device, interface and topology.  An alarm with an enrichment is left.   *)
EnrichLoad(c, k, r) ==
  /\ copy[c] = None
  /\ k \in bus
  /\ alarms[r].state = "active"
  /\ Host[alarms[r].key] = Host[k]
  /\ ~alarms[r].enriched
  /\ copy' = [copy EXCEPT ![c] = [id |-> r, row |-> alarms[r],
                                  merging |-> FALSE, writes |-> {}]]
  /\ MixIf(Busy(alarms[r].key), alarms[r].key)
  /\ UNCHANGED <<alarms, task, bus, received, streak, hits, held, reopened>>

(* session.merge reads the row anew: it is going to write raw_varbinds and *)
(* every other column in which the copy differs from the row.              *)
EnrichMerge(c) ==
  /\ copy[c] # None
  /\ ~copy[c].merging
  /\ LET now == alarms[copy[c].id] IN
       copy' = [copy EXCEPT ![c].merging = TRUE,
                            ![c].writes = {f \in {"state", "count"} : copy[c].row[f] # now[f]}]
  /\ UNCHANGED <<alarms, task, bus, received, history>>

(* The commit of the merge.                                                *)
EnrichCommit(c) ==
  /\ copy[c] # None
  /\ copy[c].merging
  /\ LET r == copy[c].id
         written(f) == f \in copy[c].writes /\ copy[c].row[f] # alarms[r][f]
     IN  /\ alarms' = [alarms EXCEPT
              ![r].enriched = TRUE,
              ![r].state = IF written("state") THEN copy[c].row.state ELSE @,
              ![r].count = IF written("count") THEN copy[c].row.count ELSE @]
         /\ reopened' = IF written("state") THEN reopened \cup {r} ELSE reopened
  /\ copy' = [copy EXCEPT ![c] = None]
  /\ UNCHANGED <<task, bus, received, streak, mixed, hits, held>>

(* The enrichment fails, which _enrich_alarm swallows, or the worker dies. *)
EnrichFails(c) ==
  /\ copy[c] # None
  /\ copy' = [copy EXCEPT ![c] = None]
  /\ UNCHANGED <<alarms, task, bus, received, history>>

-----------------------------------------------------------------------------
Handle(h) ==
  \/ \E r \in Rows : FindActive(h, r)
  \/ FindNone(h)
  \/ CommitInsert(h)
  \/ CommitUpdate(h)
  \/ CommitClear(h)
  \/ HandlerFails(h)

Operate ==
  \/ \E S \in SUBSET Rows : Acknowledge(S) \/ Clear(S)
  \/ \E r \in Rows, lost \in BOOLEAN : Suppress(r, lost) \/ Unsuppress(r, lost)

Enrich(c) ==
  \/ \E k \in bus, r \in Rows : EnrichLoad(c, k, r)
  \/ EnrichMerge(c)
  \/ EnrichCommit(c)
  \/ EnrichFails(c)

Next ==
  \/ \E h \in Handler :
       (\E k \in Key, clears \in BOOLEAN : Receive(h, k, clears)) \/ Handle(h)
  \/ Operate
  \/ \E c \in Consumer : Enrich(c)

Spec == Init /\ [][Next]_vars

-----------------------------------------------------------------------------
(* Handled one event at a time, with no operator in between, a key has no  *)
(* active alarm after a clear, and after raises exactly one that counts    *)
(* every raise since the clear; a consumer that enriches the alarm between *)
(* two events changes nothing about that.                                  *)
SerialIsExact ==
  \A k \in Key : k \notin mixed /\ ~Busy(k) =>
    IF streak[k] = 0 THEN Active(k) = {}
    ELSE \E r \in Rows : Active(k) = {r} /\ alarms[r].count = streak[k]

(* Without a lock the correlator can insert one key twice, but not without *)
(* limit: the alarms raised for a key and the inserts under way for it     *)
(* never outnumber the tasks that run at the same time.  One task at a     *)
(* time: no duplicate.                                                     *)
DuplicatesBounded ==
  \A k \in Key : Cardinality(Raised(k)) + Cardinality(Inserting(k)) <= Cardinality(Handler)

(* occurrence_count is read and written back, so raises can go missing     *)
(* from it, but an alarm never counts more raises than were committed.     *)
NeverOvercounts == \A r \in Rows : alarms[r].count <= hits[r]

(* What an operator acknowledged or suppressed while nobody was working on *)
(* the alarm stays so until an operator decides otherwise: no event, and   *)
(* no enrichment, picks the alarm up again.                                *)
OperatorDecides ==
  \A r \in held : alarms[r].state \in {"acknowledged", "suppressed"}

-----------------------------------------------------------------------------
(* What the comments and documents say and the code does not do.  The      *)
(* README names the lines.                                                 *)

(* Deduplication: the events of a key share one active alarm.              *)
AtMostOneActive ==
  \A k \in Key : Cardinality(Raised(k)) <= 1

(* "linkUp clears linkDown": once a clear of k was handled, with nobody    *)
(* else working on k, no alarm of k is open, acknowledged or not.          *)
LinkUpClears ==
  [][\A h \in Handler :
       /\ task[h] # Idle
       /\ task[h].clears
       /\ FindNone(h) \/ CommitClear(h)
       /\ At(task[h].key) = {h}
       /\ With(task[h].key) = {}
       => \A r \in Rows : alarms[r].key = task[h].key =>
            alarms'[r].state \notin {"active", "acknowledged"}]_vars

(* An enrichment is put into raw_varbinds and changes nothing else.        *)
EnrichOnlyAnnotates ==
  [][\A c \in Consumer : EnrichCommit(c) =>
       \A r \in Rows : /\ alarms'[r].state = alarms[r].state
                       /\ alarms'[r].count = alarms[r].count]_vars
=============================================================================
