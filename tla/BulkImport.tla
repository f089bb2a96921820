----------------------------- MODULE BulkImport ----------------------------
(***************************************************************************)
(* Importing devices from a table (api/devices/bulk_import.py): one        *)
(* transaction for all rows, with a savepoint for each, which takes back a *)
(* row that fails, its credential and its device, and no other.  Several   *)
(* imports, and operators, are at the inventory at a time.                 *)
(*                                                                         *)
(* The database is external: an address that was inserted is locked to the *)
(* end of the transaction, or until its row is taken back; addresses are   *)
(* unique; and one of those that wait for each other gets an error.        *)
(***************************************************************************)
EXTENDS Naturals, Sequences

CONSTANTS
  Import,    \* the imports that may be under way at a time
  Host,      \* addresses
  Table      \* the tables that may be imported, of one host in each row

ASSUME ImportAssumption == Table \subseteq Seq(Host) \ {<< >>}

VARIABLES
  inventory,  \* the devices, SUBSET Host
  import,     \* [Import -> what it is at]
  asked,      \* hosts of committed imports, but for rows that were in error
  given_up    \* hosts that were inserted by an import that was lost, or
              \* deleted by an operator, and not inserted since

import_vars == <<inventory, import, asked, given_up>>

NoImport == [at |-> "idle"]
Going(i) == import[i] # NoImport

ImportInit ==
  /\ inventory = {}
  /\ import = [i \in Import |-> NoImport]
  /\ asked = {}
  /\ given_up = {}

\* The rows of an import that have a device, or a credential, in the
\* database, which only its own transaction sees yet.
HostsOf(i, rows) == {import[i].table[n] : n \in rows}
Inserted(i)      == IF Going(i) THEN HostsOf(i, import[i].devices) ELSE {}
RowHost(i)       == import[i].table[import[i].row]

Turns(i, what) == import' = [import EXCEPT ![i] = what]

Begin(i, table) ==
  /\ ~Going(i)
  /\ Turns(i, [at |-> "looks", table |-> table, row |-> 1,
                 credentials |-> {}, devices |-> {}, errors |-> {}])
  /\ UNCHANGED <<inventory, asked, given_up>>

\* The row is over, with what there is now of credentials and devices.
NextRow(i, credentials, devices) ==
  [import[i] EXCEPT
    !.at = IF import[i].row = Len(import[i].table) THEN "done" ELSE "looks",
    !.row = @ + 1,
    !.credentials = credentials, !.devices = devices]

\* Mutant of TakeBack: the session is rolled back, not the savepoint.
TakeBackAll(i) == NextRow(i, {}, {})

\* sp.rollback
TakeBack(i) ==
  NextRow(i, import[i].credentials \ {import[i].row},
             import[i].devices \ {import[i].row})

(* The query for the address, which sees what the import itself inserted,  *)
(* and the credential.                                                     *)
LookUpHost(i) ==
  /\ import[i].at = "looks"
  /\ IF RowHost(i) \in inventory \cup Inserted(i)
     THEN Turns(i, TakeBack(i))
     ELSE Turns(i, [import[i] EXCEPT
            !.at = "inserts", !.credentials = @ \cup {import[i].row}])
  /\ UNCHANGED <<inventory, asked, given_up>>

Waits(i, j) ==
  i # j /\ import[i].at = "inserts" /\ RowHost(i) \in Inserted(j)

(* The device, as soon as no other import may yet commit its address.      *)
Insert(i) ==
  /\ import[i].at = "inserts"
  /\ \A j \in Import : ~Waits(i, j)
  /\ IF RowHost(i) \in inventory
     THEN Turns(i, TakeBack(i))
     ELSE Turns(i, NextRow(i, import[i].credentials,
                                import[i].devices \cup {import[i].row}))
  /\ UNCHANGED <<inventory, asked, given_up>>

(* The database picks it among those that wait for each other.             *)
Victim(i) ==
  /\ \E ring \in SUBSET Import :
       i \in ring /\ \A j \in ring : \E k \in ring : Waits(j, k)
  /\ Turns(i, TakeBack(i))
  /\ UNCHANGED <<inventory, asked, given_up>>

(* Anything else that is wrong with the row.                               *)
RowFails(i) ==
  /\ import[i].at \in {"looks", "inserts"}
  /\ Turns(i, [TakeBack(i) EXCEPT !.errors = @ \cup {import[i].row}])
  /\ UNCHANGED <<inventory, asked, given_up>>

(* The request's transaction commits, or is lost with its connection.      *)
CommitImport(i) ==
  /\ import[i].at = "done"
  /\ inventory' = inventory \cup Inserted(i)
  /\ asked' = asked \cup HostsOf(i, 1 .. Len(import[i].table) \ import[i].errors)
  /\ given_up' = given_up \ Inserted(i)
  /\ Turns(i, NoImport)

Lose(i) ==
  /\ Going(i)
  /\ given_up' = given_up \cup Inserted(i)
  /\ Turns(i, NoImport)
  /\ UNCHANGED <<inventory, asked>>

(* An operator adds or deletes a device.                                   *)
AddOne(h) ==
  /\ h \notin inventory /\ \A i \in Import : h \notin Inserted(i)
  /\ inventory' = inventory \cup {h}
  /\ given_up' = given_up \ {h}
  /\ UNCHANGED <<import, asked>>

DeleteOne(h) ==
  /\ h \in inventory
  /\ inventory' = inventory \ {h}
  /\ given_up' = given_up \cup {h}
  /\ UNCHANGED <<import, asked>>

ImportNext ==
  \/ \E i \in Import :
       \/ \E table \in Table : Begin(i, table)
       \/ LookUpHost(i) \/ Insert(i) \/ Victim(i) \/ RowFails(i)
       \/ CommitImport(i) \/ Lose(i)
  \/ \E h \in Host : AddOne(h) \/ DeleteOne(h)

ImportSpec == ImportInit /\ [][ImportNext]_import_vars

-----------------------------------------------------------------------------
(* "Failures are isolated per-row; successful rows commit even if others   *)
(* fail" (bulk_import.py:135): between rows every credential has its       *)
(* device; and a host that was in an import is in the inventory, or about  *)
(* to be, unless its row was in error, an operator deleted it, or the      *)
(* import that had inserted it was lost, however imports overlap.          *)
RowsIsolated ==
  /\ \A i \in Import : Going(i) /\ import[i].at # "inserts" =>
       import[i].credentials = import[i].devices
  /\ \A h \in asked :
       h \in inventory \cup given_up \/ \E i \in Import : h \in Inserted(i)

=============================================================================
