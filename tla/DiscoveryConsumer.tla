------------------------- MODULE DiscoveryConsumer -------------------------
(***************************************************************************)
(* The worker-discovery consumer (services/events/consumers.py): replicas  *)
(* that write the status of devices and announce the devices that came up, *)
(* by an event that makes one of them refresh the device.                  *)
(*                                                                         *)
(* Of the bus it knows what AtLeastOnce promises: an event on the log may  *)
(* be handled by any replica, in any order and more than once, but by one  *)
(* start of a replica only once.  Events of one content are alike, so the  *)
(* log counts them.  A replica handles one event at a time.                *)
(*                                                                         *)
(* A report carries an id, which is the name the replica remembers, or an  *)
(* address only.  The row it leads to is the device of that id; for an id  *)
(* that is no device's, or spelled otherwise, the device of its address if *)
(* it gives one.                                                           *)
(*                                                                         *)
(* "down" stands for every status of a device that is not "up", "refused"  *)
(* for every other one a report may give, and "" for none.                 *)
(***************************************************************************)
EXTENDS Naturals

CONSTANTS
  Worker,       \* the replicas of worker-discovery
  Device,       \* rows of the device table
  Name,         \* the ids reports carry, those of the devices among them
  NoName,       \* a report without id
  NoRow,        \* neither id nor address lead to a row
  Reports,      \* what is reported from outside
  MaxReports,   \* bound: events put on the log from outside
  MaxRefreshes  \* bound: with so many requests for one id on the log there are no more

Status == {"up", "down"}
Given  == Status \cup {"", "refused"}
Event  == [name : Name \cup {NoName}, device : Device \cup {NoRow},
           status : Given, requested : BOOLEAN, refresh : BOOLEAN]

ASSUME DiscoveryAssumption ==
  /\ {MaxReports, MaxRefreshes} \subseteq Nat
  /\ Device \subseteq Name /\ NoName \notin Name /\ NoRow \notin Device
  /\ Reports \subseteq
       {e \in Event : ~e.refresh /\ (e.name \in Device => e.device = e.name)}

VARIABLES
  log,        \* how often an event was put on the bus
  reports,    \* how many events came from outside
  status,     \* Device.status in the database
  last,       \* _last_status of a replica
  done,       \* how many events of a kind a replica remembers as processed
  task,       \* what a replica does with an event
  \* History, for the properties:
  told,       \* names a replica announced up and was told and asked nothing else of
  disturbed,  \* devices of which the replica that handles them may miss a change
  passed      \* devices a replica wrote past its memory, for another name or none

history == <<told, disturbed, passed>>
vars    == <<log, reports, status, last, done, task, history>>

\* discovery.refresh.requested for what id n names.
Request(n) == [name |-> n, device |-> IF n \in Device THEN n ELSE NoRow,
               status |-> "", requested |-> FALSE, refresh |-> TRUE]

OnLog == Reports \cup {Request(n) : n \in Name}
Task  == [at : {"commit", "publish", "refresh"}, event : OnLog, prev : Status \cup {""}]
Idle  == [at |-> "idle"]

TypeOK ==
  /\ log \in [OnLog -> Nat]
  /\ reports \in Nat
  /\ status \in [Device -> Status]
  /\ last \in [Worker -> [Name -> Given]]
  /\ done \in [Worker -> [OnLog -> Nat]]
  /\ task \in [Worker -> Task \cup {Idle}]
  /\ told \in [Worker -> SUBSET Name]
  /\ disturbed \subseteq Device
  /\ passed \in [Worker -> SUBSET Device]

-----------------------------------------------------------------------------
Init ==
  /\ log = [e \in OnLog |-> 0]
  /\ reports = 0
  /\ status \in [Device -> Status]
  /\ last = [w \in Worker |-> [n \in Name |-> ""]]
  /\ done = [w \in Worker |-> [e \in OnLog |-> 0]]
  /\ task = [w \in Worker |-> Idle]
  /\ told = [w \in Worker |-> {}]
  /\ disturbed = {}
  /\ passed = [w \in Worker |-> {}]

(* Somebody reports the status of a device, or asks for its refresh.       *)
Report(e) ==
  /\ reports < MaxReports
  /\ reports' = reports + 1
  /\ log' = [log EXCEPT ![e] = @ + 1]
  /\ UNCHANGED <<status, last, done, task, history>>

(* An operator edits the device.                                           *)
Edit(d, s) ==
  /\ status' = [status EXCEPT ![d] = s]
  /\ disturbed' = disturbed \cup {d}
  /\ UNCHANGED <<log, reports, last, done, task, told, passed>>

-----------------------------------------------------------------------------
\* The handler is done with event e.
Finish(w, e) ==
  /\ task' = [task EXCEPT ![w] = Idle]
  /\ done' = [done EXCEPT ![w][e] = @ + 1]

\* process_one starts the handler for event e.
Begins(w, e) == task[w] = Idle /\ done[w][e] < log[e]

\* The event gives a status that is written, and leads to a device.
GivesStatus(e) == e.status \in Status /\ e.device \in Device

\* Another replica knows the status of device d, or is busy with it.
Shared(w, d) ==
  \E v \in Worker \ {w} :
    last[v][d] \in Status \/ (task[v] # Idle /\ task[v].event.device = d)

(* The event gives a status, and its id or its address lead to a device,   *)
(* which is read.                                                          *)
BeginStatus(w, e) ==
  /\ Begins(w, e)
  /\ GivesStatus(e)
  /\ task' = [task EXCEPT ![w] = [at |-> "commit", event |-> e, prev |-> status[e.device]]]
  /\ disturbed' = IF Shared(w, e.device) THEN disturbed \cup {e.device} ELSE disturbed
  /\ UNCHANGED <<log, reports, status, last, done, told, passed>>

\* _maybe_emit_refresh: the cached status goes before the one in the database.
Known(w, n, prev) == IF last[w][n] # "" THEN last[w][n] ELSE prev

BecameUp(w, e, prev) == e.status = "up" /\ Known(w, e.name, prev) # "up"

\* Mutant of Remember: only an announcement is remembered.
RememberEmittedOnly(w, e, emits) ==
  last' = [last EXCEPT ![w][e.name] = IF emits THEN e.status ELSE @]

\* What _last_status keeps, of a status that was refused too: an announcement
\* on request forgets the status.
Remember(w, e, emits) ==
  last' = [last EXCEPT ![w][e.name] = IF emits \/ e.status # "" THEN e.status ELSE @]

\* The device whose row e is written to past what the replica remembers of it.
Passes(w, e) ==
  {d \in Device : GivesStatus(e) /\ d = e.device /\ d # e.name /\ last[w][d] \in Status}

\* What the history keeps of it.
Note(w, e, emits) ==
  LET replaced == IF emits \/ e.status # "" THEN {e.name} ELSE {} IN
  /\ told' = [told EXCEPT ![w] =
       IF e.status # "up" THEN @ \ replaced ELSE IF emits THEN @ \cup {e.name} ELSE @]
  /\ passed' = [passed EXCEPT ![w] = (@ \cup Passes(w, e)) \ replaced]

\* _maybe_emit_refresh, up to the publish.
DecideToEmit(w, e, prev) ==
  LET emits == e.name # NoName /\ (BecameUp(w, e, prev) \/ e.requested) IN
  /\ IF e.name # NoName THEN Remember(w, e, emits) ELSE UNCHANGED last
  /\ Note(w, e, emits)
  /\ IF emits
     THEN /\ task' = [task EXCEPT ![w] = [at |-> "publish", event |-> e, prev |-> prev]]
          /\ UNCHANGED done
     ELSE Finish(w, e)
  /\ UNCHANGED <<log, reports>>

(* The event gives no status, one that is refused, or leads to no device:  *)
(* there is nothing to write, and nothing known of before.                 *)
BeginRequest(w, e) ==
  /\ Begins(w, e)
  /\ ~GivesStatus(e)
  /\ ~e.refresh
  /\ DecideToEmit(w, e, "")
  /\ UNCHANGED <<status, disturbed>>

\* A status is written if it differs from the one that was read, as two
\* that count as "down" here may or may not.
Writes(read, s) ==
  IF read # s THEN {TRUE} ELSE IF s = "up" THEN {FALSE} ELSE BOOLEAN

(* The status is committed.                                                *)
CommitStatus(w) ==
  /\ task[w].at = "commit"
  /\ LET e == task[w].event IN
       /\ \E writes \in Writes(task[w].prev, e.status) :
            status' = IF writes THEN [status EXCEPT ![e.device] = e.status] ELSE status
       /\ DecideToEmit(w, e, task[w].prev)
  /\ UNCHANGED disturbed

(* A query or the commit fails, and the handler raises; the commit may     *)
(* have reached the database all the same.                                 *)
HandlerFails(w) ==
  /\ task[w].at = "commit"
  /\ LET e == task[w].event IN
       /\ status' \in {status, [status EXCEPT ![e.device] = e.status]}
       /\ disturbed' = disturbed \cup {e.device}
  /\ task' = [task EXCEPT ![w] = Idle]
  /\ UNCHANGED <<log, reports, last, done, told, passed>>

(* discovery.refresh.requested is published, unless that fails.            *)
Publish(w) ==
  /\ task[w].at = "publish"
  /\ LET e == Request(task[w].event.name) IN
       \/ /\ \A n \in Name : log[Request(n)] < MaxRefreshes
          /\ log' = [log EXCEPT ![e] = @ + 1]
       \/ UNCHANGED log
  /\ Finish(w, task[w].event)
  /\ UNCHANGED <<reports, status, last, history>>

(* discovery.refresh.requested: _last_status stays what it is, and the     *)
(* orchestrator starts a refresh of the device or drops the request.       *)
BeginRefresh(w, n) ==
  /\ Begins(w, Request(n))
  /\ \/ /\ task' = [task EXCEPT ![w] = [at |-> "refresh", event |-> Request(n), prev |-> ""]]
        /\ UNCHANGED done
     \/ Finish(w, Request(n))
  /\ UNCHANGED <<log, reports, status, last, history>>

(* The refresh is over, whatever became of it.                             *)
EndRefresh(w) ==
  /\ task[w].at = "refresh"
  /\ Finish(w, task[w].event)
  /\ UNCHANGED <<log, reports, status, last, history>>

(* A replica dies and is started anew, without its memory.                 *)
Restart(w) ==
  /\ last' = [last EXCEPT ![w] = [n \in Name |-> ""]]
  /\ done' = [done EXCEPT ![w] = [e \in OnLog |-> 0]]
  /\ task' = [task EXCEPT ![w] = Idle]
  /\ told' = [told EXCEPT ![w] = {}]
  /\ passed' = [passed EXCEPT ![w] = {}]
  /\ UNCHANGED <<log, reports, status, disturbed>>

-----------------------------------------------------------------------------
Handle(w) ==
  \/ \E e \in OnLog : BeginStatus(w, e) \/ BeginRequest(w, e)
  \/ CommitStatus(w)
  \/ HandlerFails(w)
  \/ Publish(w)
  \/ \E n \in Name : BeginRefresh(w, n)
  \/ EndRefresh(w)
  \/ Restart(w)

Next ==
  \/ \E e \in Reports : Report(e)
  \/ \E d \in Device, s \in Status : Edit(d, s)
  \/ \E w \in Worker : Handle(w)

Spec == Init /\ [][Next]_vars

-----------------------------------------------------------------------------
\* Worker w decides to announce what id n names, and nobody asked for it.
Announces(w, n) ==
  /\ task[w].at # "publish" /\ task'[w].at = "publish"
  /\ task'[w].event.name = n
  /\ ~task'[w].event.requested

\* The row of device d becomes up.
ComesUp(d) == status[d] # "up" /\ status'[d] = "up"

(* Idempotency: a replica that announced a device does not announce it     *)
(* again before it was told something else than "up" under the same id, or *)
(* asked, however often the report is repeated, whoever rewrites the status*)
(* meanwhile, and if the id is no device's at all.                         *)
AnnouncesOnce ==
  [][\A w \in Worker, n \in Name : Announces(w, n) => n \notin told[w]]_vars

(* As long as one replica at a time has the reports of a device, and nobody*)
(* else has written its status, the row takes the status reported.  A      *)
(* report by its id that brings the device up announces it, unless the     *)
(* replica wrote the row past what it remembers of that id, for a report   *)
(* by address; and it announces nothing else, unless the status before was *)
(* refused: the cached status contradicts the row in no other way, restarts*)
(* of the replica included.                                                *)
AnnouncesTransitions ==
  [][\A w \in Worker, d \in Device \ disturbed :
       CommitStatus(w) /\ task[w].event.device = d =>
         /\ status'[d] = task[w].event.status
         /\ task[w].event.name = d /\ ~task[w].event.requested /\ d \notin passed[w] =>
              /\ ComesUp(d) => Announces(w, d)
              /\ Announces(w, d) => ComesUp(d) \/ last[w][d] = "refused"]_vars

(* Both: an announcement means what it says, and comes once.               *)
AnnouncedRightly == AnnouncesOnce /\ AnnouncesTransitions

-----------------------------------------------------------------------------
(* What a document says and the code does not do: whoever changed it, a    *)
(* device that a report by its id brings up is announced.                  *)
EveryTransitionAnnounced ==
  [][\A w \in Worker, d \in Device :
       CommitStatus(w) /\ task[w].event.device = d /\ task[w].event.name = d /\ ComesUp(d) =>
         task'[w].at = "publish"]_vars
=============================================================================
