---------------------------- MODULE InterfaceAdmin -------------------------
(***************************************************************************)
(* Enabling and disabling one interface (api/devices/interface_ops.py): a  *)
(* request loads the row, configures the device in one SSH session, and    *)
(* then notes the status in the row it loaded.  An attribute that is       *)
(* assigned the value it was loaded with is not written to the database.   *)
(***************************************************************************)
EXTENDS Naturals, FiniteSets

CONSTANTS
  Operator  \* requests that may be under way at a time

ASSUME AdminAssumption == IsFiniteSet(Operator)

VARIABLES
  configured, \* what the device was last told
  noted,      \* admin_status of the row
  asking,     \* [Operator -> the request]
  crossed,    \* two requests have been under way at a time
  lost        \* a session took effect and its request did not end well

admin_vars == <<configured, noted, asking, crossed, lost>>

Status == {"up", "down"}
None   == [at |-> "none"]

AdminInit ==
  /\ configured \in Status /\ noted = configured
  /\ asking = [o \in Operator |-> None]
  /\ crossed = FALSE /\ lost = FALSE

(* What comes before the session.                                          *)
Load(o, status) ==
  /\ asking[o] = None
  /\ asking' = [asking EXCEPT ![o] =
       [at |-> "loaded", wants |-> status, loaded |-> noted, done |-> FALSE]]
  /\ crossed' = (crossed \/ \E p \in Operator : asking[p] # None)
  /\ UNCHANGED <<configured, noted, lost>>

(* The session: the device refuses, or does as it is told, and says so, or *)
(* the answer is lost or has something in it that looks like an error.     *)
Session(o) ==
  /\ asking[o] # None /\ asking[o].at = "loaded"
  /\ \E does \in BOOLEAN, success \in BOOLEAN :
       /\ success => does
       /\ configured' = IF does THEN asking[o].wants ELSE configured
       /\ asking' = [asking EXCEPT ![o].at = "answered", ![o].done = success]
       /\ lost' = (lost \/ (does /\ ~success))
  /\ UNCHANGED <<noted, crossed>>

\* Mutant of Assigned: the status is noted whether it was a success or not.
AssignedAnyway(o) == asking[o].wants # asking[o].loaded

\* Whether the flush writes the row.
Assigned(o) == asking[o].done /\ asking[o].wants # asking[o].loaded

(* The commit, or its failure.                                             *)
Finish(o) ==
  /\ asking[o] # None /\ asking[o].at = "answered"
  /\ \/ /\ noted' = IF Assigned(o) THEN asking[o].wants ELSE noted
        /\ UNCHANGED lost
     \/ /\ lost' = (lost \/ asking[o].done)
        /\ UNCHANGED noted
  /\ asking' = [asking EXCEPT ![o] = None]
  /\ UNCHANGED <<configured, crossed>>

AdminNext ==
  \E o \in Operator :
    (\E status \in Status : Load(o, status)) \/ Session(o) \/ Finish(o)

AdminSpec == AdminInit /\ [][AdminNext]_admin_vars

-----------------------------------------------------------------------------
(* With no request under way, the row says what the device was last told,  *)
(* unless requests have overlapped, or one took effect and was not noted.  *)
StatusNoted ==
  \/ crossed \/ lost
  \/ \E o \in Operator : asking[o] # None
  \/ noted = configured

=============================================================================
