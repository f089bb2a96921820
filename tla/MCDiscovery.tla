---------------------------- MODULE MCDiscovery -----------------------------
(***************************************************************************)
(* DiscoveryConsumer on small instances.  None of its steps reads or writes*)
(* more than one device, so it has one.                                    *)
(***************************************************************************)
EXTENDS DiscoveryConsumer, TLC

\* The replicas of worker-discovery.
Symmetry == Permutations(Worker)

OneReport(n, d, s, requested) ==
  [name |-> n, device |-> d, status |-> s, requested |-> requested, refresh |-> FALSE]

\* An id that is no device's: an unknown one, or one that is spelled otherwise.
Stranger == Name \ Device

(* Any status of a device by its id, and some reports that ask for its     *)
(* refresh; a status by its address only; and one by a stranger's id, with *)
(* the address or without.                                                 *)
MCReports ==
  {OneReport(d, d, s, FALSE) : d \in Device, s \in Given \ {""}}
    \cup {OneReport(d, d, s, TRUE) : d \in Device, s \in {"", "up"}}
    \cup {OneReport(NoName, d, s, FALSE) : d \in Device, s \in Status}
    \cup {OneReport(n, d, "up", FALSE) : n \in Stranger, d \in Device \cup {NoRow}}
=============================================================================
