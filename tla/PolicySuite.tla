---------------------------- MODULE PolicySuite ----------------------------
(***************************************************************************)
(* The default monitoring policies (services/monitoring/policies.py,       *)
(* ensure_default_policy_suite): every pass of a poller, and every listing *)
(* in the API, looks which of them are missing and creates those, and      *)
(* nothing in the database keeps two rows from having the same name.       *)
(*                                                                         *)
(* One of the default names, since each is looked up on its own.           *)
(***************************************************************************)
EXTENDS Naturals, FiniteSets

CONSTANTS
  Caller,    \* the passes and requests that may be under way at a time
  MaxEdits   \* bound: rows an operator deletes or renames

ASSUME SuiteAssumption == IsFiniteSet(Caller) /\ MaxEdits \in Nat

VARIABLES
  copies,   \* the rows with the name
  missing,  \* the callers that have seen none, and will create one
  edits

suite_vars == <<copies, missing, edits>>

SuiteInit == copies = 0 /\ missing = {} /\ edits = 0

\* Mutant of Look: the name is compared with the names of another spelling.
LookElsewhere(c) ==
  /\ c \notin missing
  /\ missing' = missing \cup {c}
  /\ UNCHANGED <<copies, edits>>

Look(c) ==
  /\ c \notin missing
  /\ missing' = IF copies = 0 THEN missing \cup {c} ELSE missing
  /\ UNCHANGED <<copies, edits>>

(* The session commits, or does not.                                       *)
Create(c) ==
  /\ c \in missing
  /\ missing' = missing \ {c}
  /\ copies' \in {copies, copies + 1}
  /\ UNCHANGED edits

(* An operator deletes or renames a row: the suite will have it again.     *)
Remove ==
  /\ copies > 0
  /\ edits < MaxEdits
  /\ copies' = copies - 1
  /\ edits' = edits + 1
  /\ UNCHANGED missing

SuiteNext == Remove \/ \E c \in Caller : Look(c) \/ Create(c)

SuiteSpec == SuiteInit /\ [][SuiteNext]_suite_vars

-----------------------------------------------------------------------------
(* However the callers race, and whatever is deleted meanwhile, there are  *)
(* never more copies of a default policy than callers, each of which makes *)
(* the pollers do its work once more.                                      *)
SuiteCopies == copies <= Cardinality(Caller)

=============================================================================
