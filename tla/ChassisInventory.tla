-------------------------- MODULE ChassisInventory -------------------------
(***************************************************************************)
(* Collecting what parts a device is made of (api/devices/chassis.py): the *)
(* columns of the device's ENTITY-MIB are walked one after the other       *)
(* (services/snmp/engine.py), and put together to rows, which are stored   *)
(* twice: as rows of a table, added to and updated, and as a list, which   *)
(* is replaced.  The view of the chassis shows the table, or the list if   *)
(* there is no table.  Operators replace and pull parts meanwhile, and     *)
(* collect more than once at a time.                                       *)
(*                                                                         *)
(* The value of a column is the age of the part that it was read of: each  *)
(* part is newer than all before it in its slot.  The database refuses a   *)
(* second row of a slot, and a second list.  A collect reads the rows and  *)
(* the list with the device, before it walks; reading them again, it finds *)
(* those it has as they were, and others new.  It writes the columns whose *)
(* value is another than it has.                                           *)
(***************************************************************************)
EXTENDS Naturals, FiniteSets

CONSTANTS
  Collect,   \* requests to collect that are under way at a time
  Slot,      \* physical indexes
  Columns,   \* 1 .. n, in the order they are walked
  NoPart,    \* an empty slot
  Nothing,   \* no value of a column (None); no row, no list
  MaxParts   \* bound: parts in a slot, one after the other

ASSUME ChassisAssumption ==
  /\ IsFiniteSet(Columns) /\ 1 \in Columns /\ Columns \subseteq Nat
  /\ NoPart \notin Nat
  /\ Nothing \notin Nat \cup [Columns -> Nat \cup {Nothing}]

VARIABLES
  part,     \* [Slot -> age of its part, or NoPart]
  parts,    \* [Slot -> how many there were]
  table,    \* [Slot -> its row, or Nothing]
  listed,   \* the list, [SUBSET Slot -> row], or Nothing
  collect,  \* [Collect -> what it is at]
  oldest    \* [Slot -> the number of parts when the earliest collect began
            \*  that was still under way when the last one that was committed
            \*  began, or that one did]

chassis_vars == <<part, parts, table, listed, collect, oldest>>

NoCollect     == [at |-> "idle"]
Collecting(c) == collect[c] # NoCollect

ChassisInit ==
  /\ part = [s \in Slot |-> NoPart]
  /\ parts = [s \in Slot |-> 0]
  /\ table = [s \in Slot |-> Nothing]
  /\ listed = Nothing
  /\ collect = [c \in Collect |-> NoCollect]
  /\ oldest = [s \in Slot |-> 0]

InsertPart(s) ==
  /\ parts[s] < MaxParts
  /\ parts' = [parts EXCEPT ![s] = @ + 1]
  /\ part' = [part EXCEPT ![s] = parts[s] + 1]
  /\ UNCHANGED <<table, listed, collect, oldest>>

PullPart(s) ==
  /\ part[s] # NoPart
  /\ part' = [part EXCEPT ![s] = NoPart]
  /\ UNCHANGED <<parts, table, listed, collect, oldest>>

Turn(c, what) == collect' = [collect EXCEPT ![c] = what]

\* The earliest of the collects that are under way began no later than this.
Since(s) ==
  LET begun == {collect[c].since[s] : c \in {d \in Collect : Collecting(d)}}
  IN  IF begun = {} THEN parts[s]
      ELSE CHOOSE n \in begun : \A m \in begun : n <= m

(* The device is read, with its rows and its list.                         *)
BeginCollect(c) ==
  /\ ~Collecting(c)
  /\ Turn(c, [at |-> "walks", column |-> 1, rows |-> << >>,
              since |-> [s \in Slot |-> Since(s)], table |-> table, listed |-> listed])
  /\ UNCHANGED <<part, parts, table, listed, oldest>>

\* rows.setdefault(idx, PhysicalInventoryRow(physical_index=idx))
RowOf(c, s) ==
  IF s \in DOMAIN collect[c].rows THEN collect[c].rows[s]
                                  ELSE [k \in Columns |-> Nothing]

NextColumn(c, rows) ==
  Turn(c, [collect[c] EXCEPT
    !.at = IF @ = "walks" /\ collect[c].column + 1 \notin Columns
           THEN "walked" ELSE "walks",
    !.column = @ + 1, !.rows = rows])

(* bulk_walk of one column, for the slots that have a part.                *)
WalkColumn(c) ==
  /\ Collecting(c) /\ collect[c].at = "walks"
  /\ LET found == {s \in Slot : part[s] # NoPart}
     IN  NextColumn(c, [s \in found \cup DOMAIN collect[c].rows |->
           IF s \in found THEN [RowOf(c, s) EXCEPT ![collect[c].column] = part[s]]
                          ELSE RowOf(c, s)])
  /\ UNCHANGED <<part, parts, table, listed, oldest>>

\* The walk fails: the column is left out, what was read of it too.
WalkFails(c) ==
  /\ Collecting(c) /\ collect[c].at = "walks"
  /\ NextColumn(c, collect[c].rows)
  /\ UNCHANGED <<part, parts, table, listed, oldest>>

\* The session keeps the object that it has of a row.
Loaded(had, now) == IF had # Nothing THEN had ELSE now

(* The list and the table are read again.                                  *)
ReadStored(c) ==
  /\ Collecting(c) /\ collect[c].at = "walked"
  /\ Turn(c, [at |-> "read", rows |-> collect[c].rows, since |-> collect[c].since,
              table |-> [s \in Slot |-> Loaded(collect[c].table[s], table[s])],
              listed |-> Loaded(collect[c].listed, listed)])
  /\ UNCHANGED <<part, parts, table, listed, oldest>>

\* Mutant of Written: a column that was not read keeps its value.
WrittenIfRead(stored, base, value) ==
  IF value \in {Nothing, base} THEN stored ELSE value

\* setattr of every column, and the flush.
Written(stored, base, value) == IF value = base THEN stored ELSE value

\* _upsert_physical_inventory_components
Upsert(c, s) ==
  LET row == collect[c].rows[s]
  IN  IF table[s] = Nothing THEN row
      ELSE [k \in Columns |->
              Written(table[s][k], collect[c].table[s][k], row[k])]

\* A row, or the list, is to be inserted that somebody else has inserted.
Refused(c) ==
  \/ collect[c].listed = Nothing /\ listed # Nothing
  \/ \E s \in DOMAIN collect[c].rows :
       collect[c].table[s] = Nothing /\ table[s] # Nothing

CommitCollect(c) ==
  /\ Collecting(c) /\ collect[c].at = "read" /\ ~Refused(c)
  /\ table' = [s \in Slot |-> IF s \in DOMAIN collect[c].rows
                              THEN Upsert(c, s) ELSE table[s]]
  /\ listed' = collect[c].rows
  /\ oldest' = [s \in Slot |-> IF s \in DOMAIN collect[c].rows
                               THEN collect[c].since[s] ELSE oldest[s]]
  /\ Turn(c, NoCollect)
  /\ UNCHANGED <<part, parts>>

CollectFails(c) ==
  /\ Collecting(c)
  /\ Turn(c, NoCollect)
  /\ UNCHANGED <<part, parts, table, listed, oldest>>

ChassisNext ==
  \/ \E s \in Slot : InsertPart(s) \/ PullPart(s)
  \/ \E c \in Collect :
       \/ BeginCollect(c) \/ WalkColumn(c) \/ WalkFails(c)
       \/ ReadStored(c) \/ CommitCollect(c) \/ CollectFails(c)

ChassisSpec == ChassisInit /\ [][ChassisNext]_chassis_vars

-----------------------------------------------------------------------------
\* What _apply_physical_inventory_to_chassis overlays the profile with.
Shown ==
  IF \E s \in Slot : table[s] # Nothing THEN table
  ELSE [s \in Slot |-> IF listed # Nothing /\ s \in DOMAIN listed
                       THEN listed[s] ELSE Nothing]

(* No value that the view shows is older than the collect that last found  *)
(* the slot, or the collects at the same time: a failed column leaves no   *)
(* value of a part that was replaced.  Both stores have the rows of the    *)
(* last collect.                                                           *)
ShownFresh ==
  \A s \in Slot :
    /\ Shown[s] # Nothing => \A k \in Columns :
         Shown[s][k] # Nothing => Shown[s][k] >= oldest[s]
    /\ listed # Nothing /\ s \in DOMAIN listed => table[s] # Nothing

=============================================================================
