---------------------------- MODULE RetentionPolicy ------------------------
(***************************************************************************)
(* How long raw bulkstats are kept (services/retention.py and the settings *)
(* API).  Every start of a process, and every look at the system's status, *)
(* seeds the default policy if there is none; an administrator's setting   *)
(* is saved and becomes the policy in one transaction.                     *)
(***************************************************************************)
EXTENDS Naturals, FiniteSets

CONSTANTS
  Seeder,    \* calls of ensure_timescale_schema, at a time
  Days,      \* what a setting or a policy may say
  Default,   \* keep_days of bulkstats_raw_samples
  MaxSaves   \* bound: settings saved

ASSUME RetentionAssumption ==
  IsFiniteSet(Seeder) /\ Default \in Days /\ 0 \notin Days /\ MaxSaves \in Nat

VARIABLES
  policy,   \* the days of the Timescale job, 0 when there is none
  setting,  \* the days an administrator saved, 0 when none did
  none_yet, \* the seeders that have seen no policy
  seeded,   \* defaults written over a policy that others had set meanwhile
  saves

retention_vars == <<policy, setting, none_yet, seeded, saves>>

RetentionInit ==
  policy = 0 /\ setting = 0 /\ none_yet = {} /\ seeded = 0 /\ saves = 0

\* Mutant of HasPolicy: the policy is replaced at every start.
NeverHas == FALSE

\* has_retention_policy: whatever its interval.
HasPolicy == policy # 0

LookForPolicy(s) ==
  /\ s \notin none_yet
  /\ none_yet' = IF HasPolicy THEN none_yet ELSE none_yet \cup {s}
  /\ UNCHANGED <<policy, setting, seeded, saves>>

(* set_retention_policy with the default, or an error, which is swallowed. *)
Seed(s) ==
  /\ s \in none_yet
  /\ none_yet' = none_yet \ {s}
  /\ \/ /\ policy' = Default
        /\ seeded' = IF policy = 0 THEN seeded ELSE seeded + 1
     \/ UNCHANGED <<policy, seeded>>
  /\ UNCHANGED <<setting, saves>>

(* update_bulkstats_settings: all of it is committed, or nothing is.       *)
Save(days) ==
  /\ saves < MaxSaves
  /\ saves' = saves + 1
  /\ setting' = days
  /\ policy' = days
  /\ UNCHANGED <<none_yet, seeded>>

RetentionNext ==
  \/ \E s \in Seeder : LookForPolicy(s) \/ Seed(s)
  \/ \E days \in Days : Save(days)

RetentionSpec == RetentionInit /\ [][RetentionNext]_retention_vars

-----------------------------------------------------------------------------
(* The comment on retention.py:149-153: a policy an administrator set      *)
(* survives.  It does, but for the calls that had found no policy before   *)
(* there was one: each resets it at most once, and later starts never do.  *)
CustomSurvives ==
  /\ seeded + Cardinality(none_yet) <= Cardinality(Seeder)
  /\ setting # 0 /\ policy # setting => seeded > 0 /\ policy = Default

=============================================================================
