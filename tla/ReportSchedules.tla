-------------------------- MODULE ReportSchedules --------------------------
(***************************************************************************)
(* One report schedule, and the report workers and API requests that run   *)
(* it (services/reports/scheduler.py, api/report_schedules.py).  A run     *)
(* stores an artefact under the time it was started at, and then deletes   *)
(* all but the retain_last newest ones; nothing claims the schedule        *)
(* meanwhile.                                                              *)
(*                                                                         *)
(* An artefact is the stamp of its run: stamps are in the order of the     *)
(* starts.                                                                 *)
(***************************************************************************)
EXTENDS Naturals, FiniteSets

CONSTANTS
  Worker,     \* the report workers
  Request,    \* the POST /{id}/run that may be under way at a time
  Keep,       \* the values of retain_last an operator chooses from
  MaxStarts   \* bound: runs of the schedule

ASSUME ReportAssumption == Keep \subseteq Nat /\ Keep # {} /\ MaxStarts \in Nat

VARIABLES
  schedule,   \* "enabled", "disabled" or "deleted"
  due,        \* next_run_at is past, or not set
  keep,       \* retain_last
  artefacts,  \* the generated reports that are stored
  starts,     \* how many runs have started
  job,        \* what a worker or a request does
  \* History, for the properties:
  stored,     \* every artefact there ever was
  least,      \* the smallest retain_last so far that is not "all",
  most,       \* the largest retain_last so far,
  unpruned    \* and whether the last pruning was given up, or not asked for

report_vars == <<schedule, due, keep, artefacts, starts, job, stored, least, most, unpruned>>
bounds      == <<least, most>>

Runner  == Worker \cup Request
Stamp   == 1..MaxStarts
NoJob   == [at |-> "none"]
Job     == [at : {"fetch"}]
           \cup [at : {"generate", "prune"}, stamp : Stamp, keep : Keep]
           \cup [at : {"delete"}, stale : SUBSET Stamp]

ReportTypeOK ==
  /\ schedule \in {"enabled", "disabled", "deleted"}
  /\ due \in BOOLEAN
  /\ keep \in Keep
  /\ starts \in 0..MaxStarts
  /\ artefacts \subseteq 1..starts
  /\ job \in [Runner -> Job \cup {NoJob}]
  /\ stored \subseteq 1..starts
  /\ {least, most} \subseteq Keep
  /\ unpruned \in BOOLEAN

ReportInit ==
  /\ schedule = "enabled"
  /\ due = TRUE
  /\ keep \in Keep
  /\ artefacts = {}
  /\ starts = 0
  /\ job = [r \in Runner |-> NoJob]
  /\ stored = {}
  /\ least = keep
  /\ most = keep
  /\ unpruned = FALSE

-----------------------------------------------------------------------------
Newer(s, in) == {t \in in : t > s}

\* Mutant of Beyond: the order is ascending.
OldestFirst(n) == {s \in artefacts : Cardinality(artefacts \ Newer(s, artefacts)) > n}

\* The rows after an OFFSET of n, in descending order.
Beyond(n) == {s \in artefacts : Cardinality(Newer(s, artefacts)) >= n}

At(r, step) == job[r] # NoJob /\ job[r].at = step

Goto(r, j) == job' = [job EXCEPT ![r] = j]

-----------------------------------------------------------------------------
(* run_due lists the schedule,                                             *)
ListDue(r) ==
  /\ job[r] = NoJob
  /\ schedule = "enabled"
  /\ due
  /\ Goto(r, [at |-> "fetch"])
  /\ UNCHANGED <<schedule, due, keep, artefacts, starts, stored, bounds, unpruned>>

(* or a request asks for a run.                                            *)
AskForRun(r) ==
  /\ job[r] = NoJob
  /\ Goto(r, [at |-> "fetch"])
  /\ UNCHANGED <<schedule, due, keep, artefacts, starts, stored, bounds, unpruned>>

(* run_schedule reads it once, and does not look whether it is still due.  *)
Fetch(r) ==
  /\ At(r, "fetch")
  /\ IF schedule = "deleted"
     THEN Goto(r, NoJob) /\ UNCHANGED starts
     ELSE /\ starts < MaxStarts
          /\ starts' = starts + 1
          /\ Goto(r, [at |-> "generate", stamp |-> starts', keep |-> keep])
  /\ UNCHANGED <<schedule, due, keep, artefacts, stored, bounds, unpruned>>

(* The report, or the error that stands for it, is committed with the next *)
(* run, which is past already when generating took longer than a cadence.  *)
(* Of a schedule that is gone nothing is committed.                        *)
Store(r) ==
  /\ At(r, "generate")
  /\ schedule # "deleted"
  /\ artefacts' = artefacts \cup {job[r].stamp}
  /\ stored' = stored \cup {job[r].stamp}
  /\ due' \in BOOLEAN
  /\ Goto(r, [job[r] EXCEPT !.at = "prune"])
  /\ UNCHANGED <<schedule, keep, starts, bounds, unpruned>>

(* _prune selects what is stale by the retain_last that was read,          *)
Prune(r) ==
  /\ At(r, "prune")
  /\ IF job[r].keep = 0
     THEN Goto(r, NoJob) /\ unpruned' = TRUE
     ELSE Goto(r, [at |-> "delete", stale |-> Beyond(job[r].keep)]) /\ unpruned' = FALSE
  /\ UNCHANGED <<schedule, due, keep, artefacts, starts, stored, bounds>>

(* and deletes it.                                                         *)
DeleteStale(r) ==
  /\ At(r, "delete")
  /\ artefacts' = artefacts \ job[r].stale
  /\ Goto(r, NoJob)
  /\ UNCHANGED <<schedule, due, keep, starts, stored, bounds, unpruned>>

(* Any session of a run fails, or its process dies.                        *)
GiveUp(r) ==
  /\ job[r] # NoJob
  /\ unpruned' = (unpruned \/ At(r, "prune") \/ At(r, "delete"))
  /\ Goto(r, NoJob)
  /\ UNCHANGED <<schedule, due, keep, artefacts, starts, stored, bounds>>

-----------------------------------------------------------------------------
(* An operator switches the schedule on or off, or deletes it, which       *)
(* leaves its artefacts alone,                                             *)
Switch(to) ==
  /\ schedule \notin {"deleted", to}
  /\ schedule' = to
  /\ UNCHANGED <<due, keep, artefacts, starts, job, stored, bounds, unpruned>>

(* or changes retain_last.                                                 *)
Retain(n) ==
  /\ schedule # "deleted"
  /\ keep' = n
  /\ least' = IF n # 0 /\ (least = 0 \/ n < least) THEN n ELSE least
  /\ most' = IF n > most THEN n ELSE most
  /\ UNCHANGED <<schedule, due, artefacts, starts, job, stored, unpruned>>

(* The next run comes up.                                                  *)
Elapse ==
  /\ ~due
  /\ due' = TRUE
  /\ UNCHANGED <<schedule, keep, artefacts, starts, job, stored, bounds, unpruned>>

ReportNext ==
  \/ \E r \in Worker : ListDue(r)
  \/ \E r \in Request : AskForRun(r)
  \/ \E r \in Runner : Fetch(r) \/ Store(r) \/ Prune(r) \/ DeleteStale(r) \/ GiveUp(r)
  \/ \E to \in {"enabled", "disabled", "deleted"} : Switch(to)
  \/ \E n \in Keep : Retain(n)
  \/ Elapse

ReportSpec == ReportInit /\ [][ReportNext]_report_vars

-----------------------------------------------------------------------------
(* However runs overlap, none deletes an artefact that is among the newest *)
(* ones, as many as the schedule has ever been asked to keep at least.     *)
NewestKept ==
  \A s \in stored \ artefacts : least # 0 /\ Cardinality(Newer(s, stored)) >= least

(* When nobody is going to prune and the last one who did has not given    *)
(* up, no more are left than the schedule has been asked to keep at most.  *)
NoneLeftOver ==
  (~unpruned /\ \A r \in Runner : ~At(r, "prune") /\ ~At(r, "delete"))
    => Cardinality(artefacts) <= most

(* Both: pruning deletes neither too much nor too little.                  *)
PrunedToKeep == NewestKept /\ NoneLeftOver

=============================================================================
