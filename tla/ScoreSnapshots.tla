---------------------------- MODULE ScoreSnapshots -------------------------
(***************************************************************************)
(* The history of a service's score (api/assurance/services_impact.py and  *)
(* services/assurance/snapshot_trigger.py).  Listing the services writes a *)
(* snapshot of each, unless there is one of the last minute; an alarm that *)
(* matters writes one at once.  Looking and writing are two transactions.  *)
(*                                                                         *)
(* One service, since each is looked up on its own.                        *)
(***************************************************************************)
EXTENDS Integers, FiniteSets, Sequences

CONSTANTS
  Reader,      \* requests that list the services, at a time
  Handler,     \* tasks that handle an alarm that matters, at a time
  Throttle,    \* _SNAPSHOT_THROTTLE_SECONDS
  MaxAlarms,   \* bound: alarms that matter
  MaxTime      \* bound: the time

ASSUME SnapshotAssumption ==
  /\ IsFiniteSet(Reader \cup Handler) /\ Reader \cap Handler = {}
  /\ Throttle \in Nat /\ MaxAlarms \in Nat /\ MaxTime \in Nat

VARIABLES
  time,
  snapshots, \* Seq of rows in the order they are committed
  doing,     \* [Writer -> what the request or task does]
  alarms,    \* how often the alarms have changed
  read       \* [Writer -> the state of the alarms its scores are computed from]

snapshot_vars == <<time, snapshots, doing, alarms, read>>

Writer == Reader \cup Handler

SnapshotInit ==
  /\ time = 0
  /\ snapshots = << >>
  /\ doing = [w \in Writer |-> "nothing"]
  /\ alarms = 0
  /\ read = [w \in Writer |-> 0]

Captured == {snapshots[i].at : i \in 1 .. Len(snapshots)}

Does(w, what) == doing' = [doing EXCEPT ![w] = what]

(* The correlator commits an alarm of one of SNAPSHOT_SEVERITIES.          *)
AlarmMatters(h) ==
  /\ doing[h] = "nothing"
  /\ alarms < MaxAlarms
  /\ alarms' = alarms + 1
  /\ Does(h, "handles")
  /\ UNCHANGED <<time, snapshots, read>>

\* Mutant of ReadAlarms: the scores of the last time are kept.
ReadAlarmsOnce(w) ==
  /\ doing[w] = IF w \in Handler THEN "handles" ELSE "nothing"
  /\ Does(w, IF w \in Handler THEN "writes" ELSE "looks")
  /\ read' = [read EXCEPT ![w] = IF @ = 0 THEN alarms ELSE @]
  /\ UNCHANGED <<time, snapshots, alarms>>

(* assurance_services and snapshot_all_services: the alarms, the           *)
(* interfaces, the scores.                                                 *)
ReadAlarms(w) ==
  /\ doing[w] = IF w \in Handler THEN "handles" ELSE "nothing"
  /\ Does(w, IF w \in Handler THEN "writes" ELSE "looks")
  /\ read' = [read EXCEPT ![w] = alarms]
  /\ UNCHANGED <<time, snapshots, alarms>>

\* Mutant of Recent: only a snapshot of this moment is recent.
RecentNow == time \in Captured

\* last >= cutoff, for the newest one or for any.
Recent == \E t \in Captured : t >= time - Throttle

(* _persist_service_score_snapshots, up to the insert.                     *)
LookForSnapshot(r) ==
  /\ doing[r] = "looks"
  /\ Does(r, IF Recent THEN "nothing" ELSE "writes")
  /\ UNCHANGED <<time, snapshots, alarms, read>>

WriteSnapshot(w) ==
  /\ doing[w] = "writes"
  /\ snapshots' = Append(snapshots, [at |-> time, by |-> w, of |-> read[w]])
  /\ Does(w, "nothing")
  /\ UNCHANGED <<time, alarms, read>>

(* An error, which a handler swallows.                                     *)
SnapshotFails(w) ==
  /\ doing[w] # "nothing"
  /\ Does(w, "nothing")
  /\ UNCHANGED <<time, snapshots, alarms, read>>

TimePasses ==
  /\ time < MaxTime
  /\ time' = time + 1
  /\ UNCHANGED <<snapshots, doing, alarms, read>>

SnapshotNext ==
  \/ TimePasses
  \/ \E h \in Handler : AlarmMatters(h)
  \/ \E r \in Reader : LookForSnapshot(r)
  \/ \E w \in Writer : ReadAlarms(w) \/ WriteSnapshot(w) \/ SnapshotFails(w)

SnapshotSpec == SnapshotInit /\ [][SnapshotNext]_snapshot_vars

-----------------------------------------------------------------------------
Listed(t) == {i \in 1 .. Len(snapshots) :
                snapshots[i].by \in Reader /\ snapshots[i].at \in t .. t + Throttle}

(* However they race with each other and with alarms, listings write no    *)
(* more snapshots in the time of the throttle than run at a time.          *)
ThrottledToReaders ==
  \A t \in 0 .. time : Cardinality(Listed(t)) <= Cardinality(Reader)

(* A score may be followed by scores that are older than it, of requests   *)
(* and tasks that were slow to write theirs, but each of the others does   *)
(* so at most once.                                                        *)
HistoryCatchesUp ==
  \A i \in 1 .. Len(snapshots) :
    Cardinality({j \in i + 1 .. Len(snapshots) :
                   snapshots[j].of < snapshots[i].of}) < Cardinality(Writer)

(* The history is no denser, and no more out of order, than the number of  *)
(* those that write at a time.                                             *)
SnapshotsBounded == ThrottledToReaders /\ HistoryCatchesUp

=============================================================================
