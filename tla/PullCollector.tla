--------------------------- MODULE PullCollector ---------------------------
(***************************************************************************)
(* The active-pull bulkstats collector                                     *)
(* (services/bulkstats/pull_collector.py): a pass of the supervisor's loop *)
(* lists a directory of a device, and reads, ingests and notes every file  *)
(* it has not noted among its last Window ones.  Nothing is removed from   *)
(* the device, which keeps its Capacity newest files.                      *)
(*                                                                         *)
(* One device, since its notes are a row of its own.  Files are numbered   *)
(* in the order of their names, which is the order they are written in.    *)
(***************************************************************************)
EXTENDS Integers, Sequences, FiniteSets

CONSTANTS
  MaxFiles,     \* bound: files the device ever writes
  Capacity,     \* the most files it keeps
  Window,       \* _PULLED_FILENAMES_WINDOW
  Unparseable,  \* the files ingest_file raises for
  MaxFaults     \* bound: failures of the SSH session, the database, the process

ASSUME PullAssumption ==
  /\ {MaxFiles, MaxFaults} \subseteq Nat
  /\ Capacity \in Nat \ {0}
  /\ Window \in Nat
  /\ Window >= 2 * Capacity - 1
  /\ Unparseable \subseteq 1..MaxFiles

VARIABLES
  remote,    \* the files on the device
  written,   \* how many it has written
  window,    \* pulled_filenames
  ingested,  \* how often a file's samples were committed
  at,        \* what the collector does next, of the first file of
  todo,      \* new_files, without those it is done with
  faults,
  unnoted    \* history: how often a file was ingested and the note was lost

pull_vars == <<remote, written, window, ingested, at, todo, faults, unnoted>>

File  == 1..MaxFiles
Noted == {window[i] : i \in DOMAIN window}

PullTypeOK ==
  /\ remote \subseteq File
  /\ written \in 0..MaxFiles
  /\ window \in Seq(File)
  /\ Len(window) <= Window
  /\ ingested \in [File -> Nat]
  /\ at \in {"idle", "read", "ingest", "note"}
  /\ todo \subseteq File
  /\ at \in {"ingest", "note"} => todo # {}
  /\ faults \in 0..MaxFaults
  /\ unnoted \in [File -> Nat]

PullInit ==
  /\ remote = {}
  /\ written = 0
  /\ window = <<>>
  /\ ingested = [f \in File |-> 0]
  /\ at = "idle"
  /\ todo = {}
  /\ faults = 0
  /\ unnoted = [f \in File |-> 0]

-----------------------------------------------------------------------------
(* The device: it writes a file and drops what no longer fits,             *)
Produce ==
  /\ written < MaxFiles
  /\ written' = written + 1
  /\ remote' = {f \in remote : f > written' - Capacity} \cup {written'}
  /\ UNCHANGED <<window, ingested, at, todo, faults, unnoted>>

(* or somebody removes one.                                                *)
Discard(f) ==
  /\ remote' = remote \ {f}
  /\ UNCHANGED <<written, window, ingested, at, todo, faults, unnoted>>

-----------------------------------------------------------------------------
\* The collector is at f, the first by name of those it still has to pull.
AtFile(step, f) ==
  /\ at = step
  /\ f \in todo
  /\ \A g \in todo : f <= g

\* f is done with: the loop goes on with the next file.
NextFile(f) == at' = "read" /\ todo' = todo \ {f}

Fault == faults < MaxFaults /\ faults' = faults + 1

(* Only the collector writes the notes, so what it knows of them is still  *)
(* so when the listing arrives.                                            *)
BeginPass ==
  /\ at = "idle"
  /\ at' = "read"
  /\ todo' = remote \ Noted
  /\ UNCHANGED <<remote, written, window, ingested, faults, unnoted>>

EndPass ==
  /\ at = "read"
  /\ todo = {}
  /\ at' = "idle"
  /\ UNCHANGED <<remote, written, window, ingested, todo, faults, unnoted>>

Read(f) ==
  /\ AtFile("read", f)
  /\ f \in remote
  /\ at' = "ingest"
  /\ UNCHANGED <<remote, written, window, ingested, todo, faults, unnoted>>

\* Mutant of IngestFails: a file that failed is noted like any other.
IngestFailsNoted(f) ==
  /\ AtFile("ingest", f)
  /\ IF f \in Unparseable THEN UNCHANGED faults ELSE Fault
  /\ window' = Append(window, f)
  /\ NextFile(f)
  /\ UNCHANGED <<remote, written, ingested, unnoted>>

(* A read fails because of the session, or because the file is gone.       *)
ReadFails(f) ==
  /\ AtFile("read", f)
  /\ IF f \in remote THEN Fault ELSE UNCHANGED faults
  /\ NextFile(f)
  /\ UNCHANGED <<remote, written, window, ingested, unnoted>>

Ingest(f) ==
  /\ AtFile("ingest", f)
  /\ f \notin Unparseable
  /\ ingested' = [ingested EXCEPT ![f] = @ + 1]
  /\ at' = "note"
  /\ UNCHANGED <<remote, written, window, todo, faults, unnoted>>

IngestFails(f) ==
  /\ AtFile("ingest", f)
  /\ IF f \in Unparseable THEN UNCHANGED faults ELSE Fault
  /\ NextFile(f)
  /\ UNCHANGED <<remote, written, window, ingested, unnoted>>

\* Mutant of Note: the window is one name short.
NoteShort(f) ==
  /\ AtFile("note", f)
  /\ LET all == Append(window, f)
     IN window' = IF Len(all) < Window THEN all ELSE Tail(all)
  /\ NextFile(f)
  /\ UNCHANGED <<remote, written, ingested, faults, unnoted>>

(* _record_pulled_filename keeps the last Window names.                    *)
Note(f) ==
  /\ AtFile("note", f)
  /\ LET all == Append(window, f)
     IN window' = IF Len(all) <= Window THEN all ELSE Tail(all)
  /\ NextFile(f)
  /\ UNCHANGED <<remote, written, ingested, faults, unnoted>>

NoteFails(f) ==
  /\ AtFile("note", f)
  /\ Fault
  /\ NextFile(f)
  /\ unnoted' = [unnoted EXCEPT ![f] = @ + 1]
  /\ UNCHANGED <<remote, written, window, ingested>>

(* The process dies: the next one starts with a new pass.                  *)
PullCrash ==
  /\ at # "idle"
  /\ Fault
  /\ at' = "idle"
  /\ todo' = {}
  /\ unnoted' = [f \in File |->
       IF AtFile("note", f) THEN unnoted[f] + 1 ELSE unnoted[f]]
  /\ UNCHANGED <<remote, written, window, ingested>>

\* What the collector does of itself, and when nothing fails that need not.
Pull ==
  \/ BeginPass
  \/ EndPass
  \/ \E f \in File :
       Read(f) \/ ReadFails(f) \/ Ingest(f) \/ IngestFails(f) \/ Note(f) \/ NoteFails(f)

PullNext ==
  \/ Produce
  \/ \E f \in remote : Discard(f)
  \/ Pull
  \/ PullCrash

(* The loop is never left waiting: a pass begins after every sleep, and    *)
(* every call of it returns or raises.                                     *)
PullSpec == PullInit /\ [][PullNext]_pull_vars /\ WF_pull_vars(Pull)

-----------------------------------------------------------------------------
(* No file's samples are stored twice, unless the note of one pull was     *)
(* lost: in a window of 2 * Capacity - 1 names, a name is not pushed out   *)
(* while its file can still be listed.  A smaller one is not enough, for a *)
(* file that could not be read is pulled after younger ones.               *)
PulledOnce == \A f \in File : ingested[f] <= 1 + unnoted[f]

(* A file that stays on the device is stored, whatever else cannot be      *)
(* read, parsed or noted.                                                  *)
EventuallyPulled ==
  \A f \in File \ Unparseable : f \in remote ~> (ingested[f] > 0 \/ f \notin remote)

=============================================================================
