-------------------------- MODULE DiscoveryPersist -------------------------
(***************************************************************************)
(* What scans store in the inventory (services/discovery/engine.py,        *)
(* persist and _upsert_device): one transaction for all the devices a scan *)
(* has found, in the order they answered, while other scans (of the API,   *)
(* of discovery_refresh) store theirs and operators edit devices.          *)
(*                                                                         *)
(* The database is external: a row that is written is locked to the end of *)
(* the transaction, ip_address is unique, and one of several transactions  *)
(* that wait for each other is aborted.                                    *)
(***************************************************************************)
EXTENDS Naturals, FiniteSets

CONSTANTS
  Scan,      \* the scans that may be under way at a time
  Address,
  Nobody

ASSUME PersistAssumption == Nobody \notin Scan

VARIABLES
  device,   \* the name of the device with an address
  lock,     \* the transaction that has written the row, or its address
  scan,     \* what a scan does
  behind    \* history: rows an operator wrote while a scan had read them

persist_vars == <<device, lock, scan, behind>>

\* A device has none, the address itself, its sysName, or an operator's.
DeviceName == {"address", "sysName", "operator"}
NoDevice   == "none"
NoScan     == [at |-> "idle"]
Write      == [op : {"insert", "update"}, name : DeviceName \cup {"keep"}]
NoWrite    == [op |-> "nothing"]
Storing    == [at : {"persist"}, todo : SUBSET Address, write : [Address -> Write \cup {NoWrite}]]

PersistTypeOK ==
  /\ device \in [Address -> DeviceName \cup {NoDevice}]
  /\ lock \in [Address -> Scan \cup {Nobody}]
  /\ scan \in [Scan -> Storing \cup {NoScan}]
  /\ behind \in [Scan -> SUBSET Address]
  /\ \A a \in Address : lock[a] # Nobody =>
       scan[lock[a]] # NoScan /\ scan[lock[a]].write[a] # NoWrite

PersistInit ==
  /\ device = [a \in Address |-> NoDevice]
  /\ lock = [a \in Address |-> Nobody]
  /\ scan = [s \in Scan |-> NoScan]
  /\ behind = [s \in Scan |-> {}]

-----------------------------------------------------------------------------
\* The rows the session has not sent to the database yet.
Unflushed(s) ==
  {a \in Address : scan[s] # NoScan /\ scan[s].write[a] # NoWrite /\ lock[a] # s}

\* The transaction is over, and with it its locks.
Over(s) ==
  /\ lock' = [a \in Address |-> IF lock[a] = s THEN Nobody ELSE lock[a]]
  /\ scan' = [scan EXCEPT ![s] = NoScan]
  /\ behind' = [behind EXCEPT ![s] = {}]

(* A scan has found devices.                                               *)
Persist(s, found) ==
  /\ scan[s] = NoScan
  /\ scan' = [scan EXCEPT ![s] =
       [at |-> "persist", todo |-> found, write |-> [a \in Address |-> NoWrite]]]
  /\ UNCHANGED <<device, lock, behind>>

\* Mutant of Upserted: the name is always the device's.
UpsertedNamed(a, named) ==
  IF device[a] = NoDevice
  THEN [op |-> "insert", name |-> IF named THEN "sysName" ELSE "address"]
  ELSE [op |-> "update", name |-> IF named THEN "sysName" ELSE "keep"]

\* What a row becomes: a name that is not the address is not replaced.
Upserted(a, named) ==
  IF device[a] = NoDevice
  THEN [op |-> "insert", name |-> IF named THEN "sysName" ELSE "address"]
  ELSE [op |-> "update",
        name |-> IF named /\ device[a] = "address" THEN "sysName" ELSE "keep"]

(* _upsert_device reads the row of the next device, after the session has  *)
(* sent what it had; named tells whether the device gave a sysName.        *)
Upsert(s, a, named) ==
  /\ scan[s] # NoScan
  /\ a \in scan[s].todo
  /\ Unflushed(s) = {}
  /\ scan' = [scan EXCEPT ![s].todo = @ \ {a}, ![s].write[a] = Upserted(a, named)]
  /\ UNCHANGED <<device, lock, behind>>

\* Mutant of Flush: a write that fails is tried again.
FlushRetries(s, a) ==
  /\ a \in Unflushed(s)
  /\ lock[a] = Nobody
  /\ (scan[s].write[a].op = "insert") = (device[a] = NoDevice)
  /\ lock' = [lock EXCEPT ![a] = s]
  /\ UNCHANGED <<device, scan, behind>>

(* An insert fails when there is a row by now, an update when it is gone.  *)
Flush(s, a) ==
  /\ a \in Unflushed(s)
  /\ lock[a] = Nobody
  /\ IF (scan[s].write[a].op = "insert") = (device[a] = NoDevice)
     THEN lock' = [lock EXCEPT ![a] = s] /\ UNCHANGED <<scan, behind>>
     ELSE Over(s)
  /\ UNCHANGED device

CommitScan(s) ==
  /\ scan[s] # NoScan
  /\ scan[s].todo = {}
  /\ Unflushed(s) = {}
  /\ device' = [a \in Address |->
       IF lock[a] = s /\ scan[s].write[a].name # "keep" THEN scan[s].write[a].name ELSE device[a]]
  /\ Over(s)

WaitsFor(s, t) == \E a \in Unflushed(s) : lock[a] = t

(* The database aborts one of those that wait for each other.              *)
Deadlocked(s) ==
  /\ \E ring \in SUBSET Scan :
       s \in ring /\ \A t \in ring : \E u \in ring : WaitsFor(t, u)
  /\ Over(s)
  /\ UNCHANGED device

(* The connection breaks, or the process dies.                             *)
Breaks(s) ==
  /\ scan[s] # NoScan
  /\ Over(s)
  /\ UNCHANGED device

(* An operator adds, renames or deletes a device.                          *)
Operator(a, name) ==
  /\ lock[a] = Nobody
  /\ device[a] # name
  /\ device' = [device EXCEPT ![a] = name]
  /\ behind' = [s \in Scan |->
       IF scan[s] # NoScan /\ scan[s].write[a] # NoWrite THEN behind[s] \cup {a} ELSE behind[s]]
  /\ UNCHANGED <<lock, scan>>

Goes(s) ==
  \/ \E a \in Address : Flush(s, a) \/ \E named \in BOOLEAN : Upsert(s, a, named)
  \/ CommitScan(s)
  \/ Deadlocked(s)

PersistNext ==
  \/ \E s \in Scan : Goes(s) \/ Breaks(s) \/ \E found \in (SUBSET Address) \ {{}} : Persist(s, found)
  \/ \E a \in Address, name \in {"operator", NoDevice} : Operator(a, name)

(* A session goes on unless it waits for a row, and who waits for a row    *)
(* gets it in turn: the database queues them.                              *)
PersistFairness == \A s \in Scan : SF_persist_vars(Goes(s))

PersistSpec == PersistInit /\ [][PersistNext]_persist_vars /\ PersistFairness

-----------------------------------------------------------------------------
(* A name an operator gave is not taken for the address and replaced,      *)
(* unless he gave it while a scan was between reading and writing the row. *)
NamesKept ==
  [][\A a \in Address :
       device[a] = "operator" /\ device'[a] \notin {"operator", NoDevice}
         => \E s \in Scan : lock[a] = s /\ a \in behind[s]]_persist_vars

(* However scans overlap, in whatever order they found the same devices,   *)
(* each of them comes to an end.                                           *)
ScansEnd == \A s \in Scan : scan[s] # NoScan ~> scan[s] = NoScan

=============================================================================
