---------------------------- MODULE ConfigBackups --------------------------
(***************************************************************************)
(* The backups of one device's configuration (api/devices/config_ops.py):  *)
(* a request fetches it over SSH, compares its hash with the latest        *)
(* backup, and stores it if they differ; another request makes a backup    *)
(* the golden configuration, and drift is what is between the two.  The    *)
(* request's transaction commits after its answer, or does not.            *)
(*                                                                         *)
(* A row is written with the time of its flush, so rows are in that order; *)
(* a query sees those committed.                                           *)
(***************************************************************************)
EXTENDS Naturals, Sequences, FiniteSets

CONSTANTS
  Collector,  \* requests that may be under way at a time
  Config,     \* configurations the device may have, each its own hash
  MaxRows     \* bound: rows

ASSUME BackupAssumption == IsFiniteSet(Collector) /\ MaxRows \in Nat

VARIABLES
  device,     \* the running configuration
  rows,       \* Seq of rows, in the order of created_at
  collecting, \* [Collector -> what the request has got so far]
  alone,      \* no two requests have been under way at a time
  changes     \* the different configurations collected, one after the other

backup_vars == <<device, rows, collecting, alone, changes>>

Row  == [kind: {"backup", "golden"}, content: Config,
         state: {"flushed", "committed", "rolled_back"}]
Idle == [at |-> "idle"]

BackupInit ==
  /\ device \in Config
  /\ rows = << >>
  /\ collecting = [c \in Collector |-> Idle]
  /\ alone = TRUE
  /\ changes = << >>

\* The rows of a kind that a query sees, each by its place.
Committed(kind) ==
  {i \in DOMAIN rows : rows[i].kind = kind /\ rows[i].state = "committed"}

Newest(places) ==
  IF places = {} THEN 0 ELSE CHOOSE i \in places : \A j \in places : j <= i

\* Mutant of Latest: golden configurations are taken for backups.
LatestOfAny(kind) == Newest(Committed("backup") \cup Committed("golden"))

\* _latest_for_kind, and 0 for None.
Latest(kind) == Newest(Committed(kind))

\* Mutant of IsStored: nothing is compared.
IsStoredNever(content) == FALSE

IsStored(content) ==
  LET i == Latest("backup") IN i > 0 /\ rows[i].content = content

(* The device is configured by whoever can.                                *)
Configure ==
  /\ device' \in Config \ {device}
  /\ UNCHANGED <<rows, collecting, alone, changes>>

(* backup_config: what the device has at this moment.                      *)
FetchConfig(c) ==
  /\ collecting[c] = Idle
  /\ collecting' = [collecting EXCEPT ![c] =
       [at |-> "fetched", content |-> device, row |-> 0]]
  /\ alone' = (alone /\ \A o \in Collector : collecting[o] = Idle)
  /\ UNCHANGED <<device, rows, changes>>

(* The query for the latest backup, and what it decides.                   *)
Compare(c) ==
  /\ collecting[c].at = "fetched"
  /\ collecting' = [collecting EXCEPT ![c].at =
       IF IsStored(collecting[c].content) THEN "answered" ELSE "differs"]
  /\ UNCHANGED <<device, rows, alone, changes>>

Flush(c) ==
  /\ collecting[c].at = "differs"
  /\ Len(rows) < MaxRows
  /\ rows' = Append(rows, [kind |-> "backup", state |-> "flushed",
                           content |-> collecting[c].content])
  /\ collecting' = [collecting EXCEPT ![c].at = "answered",
                                      ![c].row = Len(rows) + 1]
  /\ UNCHANGED <<device, alone, changes>>

\* The row of c, if it has one, becomes what the transaction becomes.
EndCollect(c, state) ==
  LET i == collecting[c].row IN
  /\ rows' = IF i = 0 THEN rows ELSE [rows EXCEPT ![i].state = state]
  /\ collecting' = [collecting EXCEPT ![c] = Idle]
  /\ UNCHANGED <<device, alone>>

Commit(c) ==
  /\ collecting[c].at = "answered"
  /\ EndCollect(c, "committed")
  /\ changes' =
       IF changes # << >> /\ changes[Len(changes)] = collecting[c].content
         THEN changes ELSE Append(changes, collecting[c].content)

(* An error on the way, or the end of the process.                         *)
Rollback(c) ==
  /\ collecting[c] # Idle
  /\ EndCollect(c, "rolled_back")
  /\ UNCHANGED changes

(* promote_golden_config.                                                  *)
Promote(i) ==
  /\ rows[i].kind = "backup" /\ rows[i].state = "committed"
  /\ Len(rows) < MaxRows
  /\ rows' = Append(rows, [rows[i] EXCEPT !.kind = "golden"])
  /\ UNCHANGED <<device, collecting, alone, changes>>

Collect(c) == FetchConfig(c) \/ Compare(c) \/ Flush(c) \/ Commit(c) \/ Rollback(c)

BackupNext ==
  \/ Configure
  \/ \E c \in Collector : Collect(c)
  \/ \E i \in 1 .. Len(rows) : Promote(i)

BackupSpec == BackupInit /\ [][BackupNext]_backup_vars

-----------------------------------------------------------------------------
\* get_config_drift, when there is a backup and a golden configuration.
Drifted == rows[Latest("backup")].content # rows[Latest("golden")].content

\* The backups from one to another.
Backups(i, j) == {k \in Committed("backup") : i <= k /\ k <= j}

(* However requests overlap, of one configuration there is never a longer  *)
(* row of backups than there are requests at a time: each compares with    *)
(* what it stored itself, or with something newer.                         *)
CopiesBounded ==
  \A i, j \in Committed("backup") :
    Cardinality(Backups(i, j)) > Cardinality(Collector)
      => \E k \in Backups(i, j) : rows[k].content # rows[i].content

(* As long as no two requests overlap, the backups are the configurations  *)
(* that were collected, each once for as long as it stayed, whatever is    *)
(* promoted or rolled back in between; and drift is reported just when     *)
(* what was collected last is not what was promoted last.                  *)
HistoryExact ==
  alone =>
    LET golden == Newest({i \in DOMAIN rows : rows[i].kind = "golden"}) IN
    /\ Len(changes) = Cardinality(Committed("backup"))
    /\ \A i \in Committed("backup") :
         rows[i].content = changes[Cardinality(Backups(1, i))]
    /\ golden > 0 =>
         (Drifted <=> rows[golden].content # changes[Len(changes)])

(* The backups are the history of the configuration: exact when nobody     *)
(* gets in between, and with no more copies than collectors otherwise.     *)
BackupsTrue == CopiesBounded /\ HistoryExact

=============================================================================
