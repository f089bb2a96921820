---------------------------- MODULE AccountTrail ---------------------------
(***************************************************************************)
(* The trail of account changes (api/settings/users_roles.py,              *)
(* services/account_audit.py): who changes the role of a user appends a    *)
(* line to a file, and has it forwarded, before the change is committed.   *)
(* The line says what the role was when the request began and what it is,  *)
(* as the request sees it; it is not taken back if the request fails.      *)
(*                                                                         *)
(* One user name.  The session writes the role if it is not the one that   *)
(* it read, which locks the row to the end, and reads it back.  The row in *)
(* the database that goes with a line is committed with the change.        *)
(***************************************************************************)
CONSTANTS
  Admin,      \* requests that are under way at a time
  UserRole,
  NoUser      \* there is no user of that name

ASSUME TrailAssumption == NoUser \notin UserRole

VARIABLES
  role,    \* of the user, or NoUser
  admin,   \* [Admin -> what it is at]
  unsaid,  \* whether a role was changed with no line that says so
  untrue   \* whether a line of a change that was committed is not what
           \* happened, though nobody else was at the user meanwhile

trail_vars == <<role, admin, unsaid, untrue>>

NoAdmin    == [at |-> "idle"]
Working(a) == admin[a] # NoAdmin

TrailInit ==
  /\ role = NoUser
  /\ admin = [a \in Admin |-> NoAdmin]
  /\ unsaid = FALSE /\ untrue = FALSE

(* create_user or update_user, as far as the first query: the role that is *)
(* asked for, the one that is read, those of the line, if there is one.    *)
BeginChange(a, asked) ==
  /\ ~Working(a)
  /\ admin' = [admin EXCEPT ![a] =
       [at |-> "read", asked |-> asked, base |-> role, writes |-> FALSE,
        line |-> << >>, alone |-> TRUE, gone |-> FALSE]]
  /\ UNCHANGED <<role, unsaid, untrue>>

\* Another request has the row locked.
RowHeld(a) == \E b \in Admin \ {a} : Working(b) /\ admin[b].writes

(* The flush: an insert fails if there is such a user by now, an update if *)
(* that user is gone.                                                      *)
FlushRole(a) ==
  /\ Working(a) /\ admin[a].at = "read"
  /\ admin[a].base # admin[a].asked => ~RowHeld(a)
  /\ admin[a].base = NoUser => role = NoUser
  /\ ~admin[a].gone
  /\ admin' = [admin EXCEPT ![a].at = "flushed",
                            ![a].writes = admin[a].base # admin[a].asked]
  /\ UNCHANGED <<role, unsaid, untrue>>

\* Mutant of PreviousRole: kept after the fields are set.
PreviousRoleSet(a) == admin[a].asked

PreviousRole(a) == admin[a].base

\* The role as it is read back.
RoleSeen(a) == IF admin[a].writes THEN admin[a].asked ELSE role

(* The role is read back, and a line is written if it is not what it was.  *)
(* Between the two nothing can be seen.                                    *)
WriteLine(a) ==
  /\ Working(a) /\ admin[a].at = "flushed"
  /\ ~admin[a].gone
  /\ admin' = [admin EXCEPT
       ![a].at = "noted",
       ![a].line = IF PreviousRole(a) # RoleSeen(a)
                   THEN <<PreviousRole(a), RoleSeen(a)>> ELSE << >>]
  /\ UNCHANGED <<role, unsaid, untrue>>

\* The role becomes another, and a ends; the others are not alone with it.
BecomesRole(a, to) ==
  /\ role' = to
  /\ admin' = [b \in Admin |->
       IF b = a THEN NoAdmin
       ELSE IF Working(b) /\ role # to
       THEN [admin[b] EXCEPT !.alone = FALSE, 
                                 !.gone = @ \/ (to = NoUser /\ admin[b].base # NoUser)]
       ELSE admin[b]]

CommitChange(a) ==
  /\ Working(a) /\ admin[a].at = "noted"
  /\ LET to   == IF admin[a].writes THEN admin[a].asked ELSE role
         line == admin[a].line
     IN  /\ BecomesRole(a, to)
         /\ unsaid' = (unsaid \/ (to # role /\ (line = << >> \/ line[2] # to)))
         /\ untrue' = (untrue \/ (admin[a].alone
                                  /\ line # IF to = role THEN << >> ELSE <<role, to>>))

(* The file cannot be written, or the transaction fails: what was written  *)
(* to the file stays.                                                      *)
ChangeFails(a) ==
  /\ Working(a)
  /\ admin' = [admin EXCEPT ![a] = NoAdmin]
  /\ UNCHANGED <<role, unsaid, untrue>>

(* delete_user, which writes no line.                                      *)
DeleteUser(a) ==
  /\ ~Working(a) /\ ~RowHeld(a)
  /\ role # NoUser
  /\ BecomesRole(a, NoUser)
  /\ UNCHANGED <<unsaid, untrue>>

TrailNext ==
  \E a \in Admin :
     \/ \E asked \in UserRole : BeginChange(a, asked)
     \/ FlushRole(a) \/ WriteLine(a) \/ CommitChange(a) \/ ChangeFails(a)
     \/ DeleteUser(a)

TrailSpec == TrailInit /\ [][TrailNext]_trail_vars

-----------------------------------------------------------------------------
(* No role is ever given or changed for good with no line that says what   *)
(* it became; and the line of a change says what it was before, and there  *)
(* is none of no change, unless others changed the user at the same time.  *)
(* A change that was not committed may well have a line.                   *)
TrailTrue == ~unsaid /\ ~untrue

=============================================================================
