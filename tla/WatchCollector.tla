--------------------------- MODULE WatchCollector --------------------------
(***************************************************************************)
(* The watch-path bulkstats collector                                      *)
(* (services/bulkstats/watch_collector.py): a pass of the supervisor's     *)
(* loop ingests every file of a drop directory and moves it to processed/, *)
(* or to failed/ when anything raises.  An external transfer job writes    *)
(* the directory meanwhile, in place (scp) or with a rename (rsync).       *)
(*                                                                         *)
(* A version is what a file holds after one write of the job.              *)
(***************************************************************************)
EXTENDS Naturals, FiniteSets

CONSTANTS
  Name,        \* the file names the job uses,
  Temporary,   \* those of them it renames when a file is complete
  MaxVersions, \* bound: its writes
  Malformed,   \* the versions ingest_file raises for
  MaxMishaps,  \* bound: failures of the disk, the database, the process
  None         \* no file, or no version

ASSUME WatchAssumption ==
  /\ {MaxVersions, MaxMishaps} \subseteq Nat
  /\ Temporary \subseteq Name
  /\ None \notin Name \cup 1..MaxVersions

VARIABLES
  directory,   \* the version of each file in the watch path,
  processed,   \* in processed/,
  failed,      \* and in failed/
  writes,      \* how many versions the job has written
  stored,      \* how often a version was committed
  phase,       \* what the collector does next,
  queue,       \* the files of the pass, taken in some order,
  path,        \* the one it is at,
  content,     \* and what it read of it
  mishaps,
  \* History, for the properties:
  replaced,    \* versions another file of the same name was written over
  torn,        \* versions moved to processed/ that arrived after the read
  left         \* how often a version was committed and stayed where it was

folders    == <<directory, processed, failed>>
collector  == <<phase, queue, path, content>>
past       == <<replaced, torn, left>>
watch_vars == <<folders, writes, stored, collector, mishaps, past>>

Version == 1..MaxVersions
Folder  == [Name -> Version \cup {None}]

WatchTypeOK ==
  /\ {directory, processed, failed} \subseteq Folder
  /\ writes \in 0..MaxVersions
  /\ stored \in [Version -> Nat]
  /\ phase \in {"idle", "next", "commit", "move", "setaside"}
  /\ queue \subseteq Name
  /\ path \in Name \cup {None}
  /\ content \in Version \cup {None}
  /\ phase \in {"commit", "move"} => content # None
  /\ phase \in {"commit", "move", "setaside"} => path # None
  /\ mishaps \in 0..MaxMishaps
  /\ {replaced, torn} \subseteq SUBSET Version
  /\ left \in [Version -> Nat]

Holds(folder, v) == \E n \in Name : folder[n] = v

WatchInit ==
  /\ directory = [n \in Name |-> None]
  /\ processed = directory
  /\ failed = directory
  /\ writes = 0
  /\ stored = [v \in Version |-> 0]
  /\ phase = "idle"
  /\ queue = {}
  /\ path = None
  /\ content = None
  /\ mishaps = 0
  /\ replaced = {}
  /\ torn = {}
  /\ left = [v \in Version |-> 0]

-----------------------------------------------------------------------------
\* What the collector has read is still there, and will be seen again.
Again(n) ==
  left' = IF content # None /\ directory[n] = content
          THEN [left EXCEPT ![content] = @ + 1] ELSE left

(* The transfer job creates a file, or writes more of one,                 *)
Transfer(n) ==
  /\ writes < MaxVersions
  /\ writes' = writes + 1
  /\ directory' = [directory EXCEPT ![n] = writes']
  /\ replaced' = replaced \cup ({directory[n]} \ {None})
  /\ UNCHANGED <<processed, failed, stored, collector, mishaps, torn, left>>

(* or gives a temporary file its name.                                     *)
Rename(m, n) ==
  /\ directory[m] # None
  /\ directory' = [directory EXCEPT ![n] = directory[m], ![m] = None]
  /\ replaced' = replaced \cup ({directory[n]} \ {None})
  /\ Again(m)
  /\ UNCHANGED <<processed, failed, writes, stored, collector, mishaps, torn>>

-----------------------------------------------------------------------------
Mishap == mishaps < MaxMishaps /\ mishaps' = mishaps + 1

Leave == phase' = "next" /\ path' = None /\ content' = None

BeginWatch ==
  /\ phase = "idle"
  /\ phase' = "next"
  /\ queue' = {n \in Name : directory[n] # None}
  /\ UNCHANGED <<folders, writes, stored, path, content, mishaps, past>>

EndWatch ==
  /\ phase = "next"
  /\ queue = {}
  /\ phase' = "idle"
  /\ UNCHANGED <<folders, writes, stored, queue, path, content, mishaps, past>>

(* The file is read, or is gone or unreadable.                             *)
ReadText(n) ==
  /\ phase = "next"
  /\ n \in queue
  /\ queue' = queue \ {n}
  /\ path' = n
  /\ \/ /\ directory[n] # None
        /\ phase' = "commit"
        /\ content' = directory[n]
        /\ UNCHANGED mishaps
     \/ /\ IF directory[n] = None THEN UNCHANGED mishaps ELSE Mishap
        /\ phase' = "setaside"
        /\ UNCHANGED content
  /\ UNCHANGED <<folders, writes, stored, past>>

Commit ==
  /\ phase = "commit"
  /\ content \notin Malformed
  /\ stored' = [stored EXCEPT ![content] = @ + 1]
  /\ phase' = "move"
  /\ UNCHANGED <<folders, writes, queue, path, content, mishaps, past>>

\* Mutant of CommitFails: the file goes to processed/ all the same.
CommitFailsQuietly ==
  /\ phase = "commit"
  /\ IF content \in Malformed THEN UNCHANGED mishaps ELSE Mishap
  /\ phase' = "move"
  /\ UNCHANGED <<folders, writes, stored, queue, path, content, past>>

CommitFails ==
  /\ phase = "commit"
  /\ IF content \in Malformed THEN UNCHANGED mishaps ELSE Mishap
  /\ phase' = "setaside"
  /\ content' = None
  /\ UNCHANGED <<folders, writes, stored, queue, path, past>>

(* rename moves what is there by now, over a file of the same name.        *)
Move ==
  /\ phase = "move"
  /\ directory[path] # None
  /\ processed' = [processed EXCEPT ![path] = directory[path]]
  /\ directory' = [directory EXCEPT ![path] = None]
  /\ torn' = IF directory[path] = content THEN torn ELSE torn \cup {directory[path]}
  /\ Leave
  /\ UNCHANGED <<failed, writes, stored, queue, mishaps, replaced, left>>

MoveFails ==
  /\ phase = "move"
  /\ IF directory[path] = None THEN UNCHANGED mishaps ELSE Mishap
  /\ phase' = "setaside"
  /\ UNCHANGED <<folders, writes, stored, queue, path, content, past>>

SetAside ==
  /\ phase = "setaside"
  /\ directory[path] # None
  /\ failed' = [failed EXCEPT ![path] = directory[path]]
  /\ directory' = [directory EXCEPT ![path] = None]
  /\ replaced' = replaced \cup ({failed[path]} \ {None})
  /\ Leave
  /\ UNCHANGED <<processed, writes, stored, queue, mishaps, torn, left>>

\* Mutant of SetAsideFails: the pass does not get over it.
SetAsideRetries ==
  /\ phase = "setaside"
  /\ IF directory[path] = None THEN UNCHANGED mishaps ELSE Mishap
  /\ UNCHANGED <<folders, writes, stored, collector, past>>

SetAsideFails ==
  /\ phase = "setaside"
  /\ IF directory[path] = None THEN UNCHANGED mishaps ELSE Mishap
  /\ Again(path)
  /\ Leave
  /\ UNCHANGED <<folders, writes, stored, queue, replaced, torn>>

(* The process dies: the next one starts with a new pass.                  *)
WatchCrash ==
  /\ phase # "idle"
  /\ Mishap
  /\ IF phase = "commit" THEN UNCHANGED left ELSE Again(path)
  /\ phase' = "idle"
  /\ queue' = {}
  /\ path' = None
  /\ content' = None
  /\ UNCHANGED <<folders, writes, stored, replaced, torn>>

Watch ==
  \/ BeginWatch \/ EndWatch
  \/ \E n \in Name : ReadText(n)
  \/ Commit \/ CommitFails \/ Move \/ MoveFails \/ SetAside \/ SetAsideFails

WatchNext ==
  \/ \E n \in Name : Transfer(n)
  \/ \E m \in Temporary, n \in Name \ Temporary : Rename(m, n)
  \/ Watch
  \/ WatchCrash

WatchSpec == WatchInit /\ [][WatchNext]_watch_vars /\ WF_watch_vars(Watch)

-----------------------------------------------------------------------------
(* No write of the job is lost on the way: it waits in the watch path, is  *)
(* in failed/, or its samples are stored, unless the job or a later        *)
(* failure wrote over it, or it arrived between the read and the move.     *)
Accounted ==
  \A v \in 1..writes :
    Holds(directory, v) \/ Holds(failed, v) \/ stored[v] > 0 \/ v \in replaced \cup torn

(* No version is stored twice, unless the collector was kept from moving   *)
(* it aside after the commit, or the job renamed it then.                  *)
WatchedOnce == \A v \in Version : stored[v] <= 1 + left[v]

(* Both: no write of the job is lost, and none is stored again.            *)
AccountedOnce == Accounted /\ WatchedOnce

(* Nothing waits in the watch path for ever.                               *)
EventuallyMoved ==
  \A v \in Version : Holds(directory, v) ~> ~Holds(directory, v)

=============================================================================
