----------------------------- MODULE IngestStats ---------------------------
(***************************************************************************)
(* Storing a bulkstats file (services/bulkstats/ingest.py): its samples,   *)
(* and the counters of the address they come from, in one transaction of   *)
(* the collector that found the file.  The watching and the pulling        *)
(* collector, and the replicas of each, may be at files of one source at   *)
(* a time; the counters are read, added to, and written as they then are.  *)
(* The row also has the names a device was pulled of, and exists from      *)
(* whichever comes first.                                                  *)
(***************************************************************************)
EXTENDS Naturals, FiniteSets

CONSTANTS
  Ingester,   \* sessions that ingest files of the source at a time
  NoStat,     \* there is no row of the source
  MaxStored   \* bound: files

ASSUME IngestAssumption ==
  IsFiniteSet(Ingester) /\ NoStat \notin Nat /\ MaxStored \in Nat

VARIABLES
  stat,      \* files_processed, or NoStat
  ingest,    \* [Ingester -> what it has read of stat]
  samples,   \* files whose samples are stored
  refused,   \* files that lost theirs because another was the first
  overlap    \* whether two sessions have been at files at a time

ingest_vars == <<stat, ingest, samples, refused, overlap>>

NoFile == [at |-> "idle"]
AtFile == {w \in Ingester : ingest[w] # NoFile}

IngestInit ==
  /\ stat = NoStat
  /\ ingest = [w \in Ingester |-> NoFile]
  /\ samples = 0 /\ refused = 0 /\ overlap = FALSE

(* ingest_file, as far as the read of the row; the samples are added.      *)
BeginFile(w) ==
  /\ ingest[w] = NoFile
  /\ samples < MaxStored
  /\ ingest' = [ingest EXCEPT ![w] = [at |-> "read", base |-> stat]]
  /\ overlap' = (overlap \/ AtFile # {})
  /\ UNCHANGED <<stat, samples, refused>>

\* Mutant of CountFile: the file that makes the row is not counted.
CountFileLater(base) == IF base = NoStat THEN 0 ELSE base + 1

CountFile(base) == IF base = NoStat THEN 1 ELSE base + 1

(* The caller commits: an insert fails when there is a row by now.         *)
CommitFile(w) ==
  /\ ingest[w] # NoFile
  /\ ingest' = [ingest EXCEPT ![w] = NoFile]
  /\ IF ingest[w].base = NoStat /\ stat # NoStat
     THEN refused' = refused + 1 /\ UNCHANGED <<stat, samples>>
     ELSE /\ stat' = CountFile(ingest[w].base)
          /\ samples' = samples + 1
          /\ UNCHANGED refused
  /\ UNCHANGED overlap

(* The file is malformed, the database fails, or the process dies.         *)
LoseFile(w) ==
  /\ ingest[w] # NoFile
  /\ ingest' = [ingest EXCEPT ![w] = NoFile]
  /\ UNCHANGED <<stat, samples, refused, overlap>>

(* _record_pulled_filename makes the row of a device whose files name      *)
(* another address.                                                        *)
NoteFirst ==
  /\ stat = NoStat
  /\ stat' = 0
  /\ UNCHANGED <<ingest, samples, refused, overlap>>

IngestNext ==
  \/ NoteFirst
  \/ \E w \in Ingester : BeginFile(w) \/ CommitFile(w) \/ LoseFile(w)

IngestSpec == IngestInit /\ [][IngestNext]_ingest_vars

-----------------------------------------------------------------------------
(* The counter never says more than is stored, and exactly that as long as *)
(* no two files were ingested at a time; and a session loses a file to     *)
(* another that made the row no more than once.                            *)
StatTrue ==
  /\ stat = NoStat => samples = 0
  /\ stat # NoStat => stat <= samples /\ (stat = samples \/ overlap)
  /\ refused <= Cardinality(Ingester)

=============================================================================
