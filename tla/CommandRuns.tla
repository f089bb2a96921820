----------------------------- MODULE CommandRuns ---------------------------
(***************************************************************************)
(* Running a saved command (services/ssh/command_runner.py): on its own    *)
(* device, on several at once, or for a schedule.  Each run has a session  *)
(* of its own, which holds a connection to the database while the device   *)
(* works; and a request for several runs holds one more, until all of them *)
(* have ended.  There are only so many connections in a process.           *)
(*                                                                         *)
(* A session writes the columns that differ from what it had read: a run   *)
(* that gives what the row already said leaves the row alone.              *)
(***************************************************************************)
EXTENDS Naturals, FiniteSets

CONSTANTS
  Client,       \* those who may have a request under way, one each
  Router,       \* the devices
  Output,       \* what a command may print
  NoOutput,     \* what a row says before any run
  Slots,        \* _BULK_SEMAPHORE_SIZE
  Connections   \* pool_size + max_overflow of the engine

ASSUME CommandAssumption ==
  /\ NoOutput \notin Output
  /\ Slots \in Nat \ {0} /\ Connections \in Nat \ {0}

VARIABLES
  saved,      \* the rows that exist: of the command, of its schedule
  last,       \* last_output of the command, last_status of the schedule
  recent,     \* of each: what the runs gave that ended since the last one
              \* to end had read the row, itself included
  request,    \* [Client -> what it asks for, and what it read]
  task        \* [Client -> [Router -> what the run on a device is at]]

command_vars == <<saved, last, recent, request, task>>

SavedRow     == {"command", "schedule"}
Says(x) == IF x = "command" THEN Output ELSE {"ok", "error"}

NoRequest == [kind |-> "none", at |-> "idle"]
NoTask    == [at |-> "none"]

CommandInit ==
  /\ saved = SavedRow
  /\ last = [x \in SavedRow |-> NoOutput]
  /\ recent = [x \in SavedRow |-> {}]
  /\ request = [r \in Client |-> NoRequest]
  /\ task = [r \in Client |-> [d \in Router |-> NoTask]]

-----------------------------------------------------------------------------
\* The runs that hold a slot of their request, and with it a connection.
Running(r) == {d \in Router : task[r][d].at = "runs"}

\* The endpoint of a single command does not use the session it is given.
Holding == {r \in Client : request[r].at = "open" /\ request[r].kind # "single"}

Held == Cardinality(Holding)
        + Cardinality(UNION {{r} \X Running(r) : r \in Client})

(* What has been read of a row, and what was written to it since.          *)
ReadOf(x) == [base |-> last[x], since |-> {}]

\* Mutant of Written: a row is written once.
WrittenOnce(x, base, value) == IF last[x] = NoOutput THEN value ELSE last[x]

\* What the row says when a session that has read base sets value.
Written(x, base, value) == IF value = base THEN last[x] ELSE value

(* Somebody who has read the row as in what commits it with a value.       *)
Records(x, what, value) ==
  /\ last' = [last EXCEPT ![x] = Written(x, what.base, value)]
  /\ recent' = [recent EXCEPT ![x] = what.since \cup {value}]

\* A row that was written, as those that have read it will see at the end.
Seen(x, what, value) == [what EXCEPT !.since = @ \cup {value}]

SeenByRuns(value) ==
  [r \in Client |-> [d \in Router |->
     IF task[r][d].at = "runs"
     THEN [at |-> "runs", row |-> Seen("command", task[r][d].row, value)]
     ELSE task[r][d]]]

-----------------------------------------------------------------------------
Ask(r, kind) ==
  /\ request[r] = NoRequest
  /\ "command" \in saved
  /\ kind = "schedule" => "schedule" \in saved
  /\ request' = [request EXCEPT ![r] = [kind |-> kind, at |-> "arrives"]]
  /\ UNCHANGED <<saved, last, recent, task>>

(* The request finds what it names, and starts its runs.                   *)
Admit(r, devices) ==
  /\ request[r].at = "arrives"
  /\ IF request[r].kind = "single" THEN Cardinality(devices) = 1
                                   ELSE Held < Connections
  /\ request' = [request EXCEPT ![r] =
       [kind |-> @.kind, at |-> "open", row |-> ReadOf("schedule")]]
  /\ task' = [task EXCEPT ![r] = [d \in Router |->
       IF d \in devices THEN [at |-> "waits"] ELSE NoTask]]
  /\ UNCHANGED <<saved, last, recent>>

(* It waited too long for a connection, or the row is gone.                *)
Refuse(r) ==
  /\ request[r].at = "arrives"
  /\ request' = [request EXCEPT ![r] = NoRequest]
  /\ UNCHANGED <<saved, last, recent, task>>

(* A run has a slot, and a connection: run_saved_command, to the device.   *)
LoadCommand(r, d) ==
  /\ task[r][d].at = "waits"
  /\ Cardinality(Running(r)) < Slots
  /\ Held < Connections
  /\ "command" \in saved
  /\ task' = [task EXCEPT ![r][d] = [at |-> "runs", row |-> ReadOf("command")]]
  /\ UNCHANGED <<saved, last, recent, request>>

\* Mutant of TimesOut: a connection is waited for however long it takes.
TimesOutNever(r, d) == FALSE /\ UNCHANGED command_vars

(* No connection for 30 s, or no command: an error is the result.          *)
TimesOut(r, d) ==
  /\ task[r][d].at = "waits"
  /\ Cardinality(Running(r)) < Slots
  /\ task' = [task EXCEPT ![r][d] = [at |-> "error"]]
  /\ UNCHANGED <<saved, last, recent, request>>

(* The device has run the command, and the session commits.                *)
EndRun(r, d, output) ==
  /\ task[r][d].at = "runs"
  /\ "command" \in saved
  /\ Records("command", task[r][d].row, output)
  /\ task' = [SeenByRuns(output) EXCEPT ![r][d] = [at |-> "ok"]]
  /\ UNCHANGED <<saved, request>>

(* The device is out of reach, or the commit fails, as it does when the    *)
(* command was deleted meanwhile: the device may have run it all the same. *)
Fails(r, d) ==
  /\ task[r][d].at = "runs"
  /\ task' = [task EXCEPT ![r][d] = [at |-> "error"]]
  /\ UNCHANGED <<saved, last, recent, request>>

Ended(r) == \A d \in Router : task[r][d].at \in {"none", "ok", "error"}

\* What run_now makes of the results.
Verdict(r) == IF \E d \in Router : task[r][d].at = "error" THEN "error" ELSE "ok"

(* The results are there; a schedule is given its status, unless it is     *)
(* gone, or its session fails.                                             *)
Reply(r) ==
  /\ request[r].at = "open"
  /\ Ended(r)
  /\ LET closed == [request EXCEPT ![r] = NoRequest] IN
     \/ /\ request[r].kind = "schedule" /\ "schedule" \in saved
        /\ Records("schedule", request[r].row, Verdict(r))
        /\ request' = [q \in Client |->
             IF q # r /\ request[q].at = "open"
             THEN [request[q] EXCEPT !.row = Seen("schedule", @, Verdict(r))]
             ELSE closed[q]]
     \/ request' = closed /\ UNCHANGED <<last, recent>>
  /\ task' = [task EXCEPT ![r] = [d \in Router |-> NoTask]]
  /\ UNCHANGED saved

(* A schedule is deleted; a command can be when it has no schedule.        *)
Delete(x) ==
  /\ x \in saved
  /\ x = "command" => "schedule" \notin saved
  /\ saved' = saved \ {x}
  /\ UNCHANGED <<last, recent, request, task>>

\* A request that names what is gone is answered at once.
NotFound ==
  /\ saved # SavedRow
  /\ UNCHANGED command_vars

TaskGoes(r, d) ==
  \/ LoadCommand(r, d) \/ TimesOut(r, d) \/ Fails(r, d)
  \/ \E output \in Output : EndRun(r, d, output)

RequestGoes(r) ==
  \/ Refuse(r) \/ Reply(r)
  \/ \E devices \in (SUBSET Router) \ {{}} : Admit(r, devices)

\* What goes on for a request.
ClientGoes(r) == RequestGoes(r) \/ \E d \in Router : TaskGoes(r, d)

CommandNext ==
  \/ \E r \in Client, kind \in {"single", "bulk", "schedule"} : Ask(r, kind)
  \/ \E r \in Client : ClientGoes(r)
  \/ \E x \in SavedRow : Delete(x)
  \/ NotFound

(* A connection is waited for 30 s and no longer, and a device about as    *)
(* long: of a request and its runs, something always goes on.              *)
CommandFairness == \A r \in Client : WF_command_vars(ClientGoes(r))

CommandSpec == CommandInit /\ [][CommandNext]_command_vars /\ CommandFairness

-----------------------------------------------------------------------------
(* What a command, or a schedule, says of its last run is what the last    *)
(* one to end gave, or one that ended while that was under way.            *)
LastIsRecent == \A x \in SavedRow : recent[x] # {} => last[x] \in recent[x]

(* Every request is answered, even when all connections are held by        *)
(* requests whose runs wait for one.                                       *)
RequestsAnswered ==
  \A r \in Client : request[r] # NoRequest ~> request[r] = NoRequest

=============================================================================
