------------------------- MODULE MonitoringPolicies ------------------------
(***************************************************************************)
(* One monitoring policy and the replicas of the poller that execute it    *)
(* (services/monitoring/policies.py): the loop of every replica looks for  *)
(* due policies, polls the devices of its own shard                        *)
(* (services/workers/sharding.py), and sets the next run of the policy,    *)
(* which is one column for all the shards.  An operator edits the policy   *)
(* or runs it from the API, whose processes have a shard as well.          *)
(*                                                                         *)
(* Time is what is left of it: ticks until the policy is due, and ticks    *)
(* since a run has started.                                                *)
(***************************************************************************)
EXTENDS Naturals, FiniteSets

CONSTANTS
  Replica,      \* the processes with a monitoring-policies loop
  Api,          \* the API processes
  Device,       \* the devices the policy targets
  ShardCount,   \* worker_shard_count, the same for every process
  ShardId,      \* worker_shard_id of a process
  Hash,         \* the digest shard_for_key takes of a device's id
  Interval,     \* interval_seconds, in ticks
  Run,          \* the executions of the policy that may be in flight
  MaxFailures   \* bound: failures of the database or of the process

ASSUME MonitoringAssumption ==
  /\ Replica \cap Api = {}
  /\ {ShardCount, Interval, MaxFailures} \subseteq Nat
  /\ ShardId \in [Replica \cup Api -> Nat]
  /\ Hash \in [Device -> Nat]

VARIABLES
  policy,   \* "enabled", "disabled" or "deleted"
  dueIn,    \* ticks until next_run_at, 0 when it is past or not set
  busy,     \* the replicas whose loop waits for what it has started
  run,      \* the executions
  polled,   \* the devices the last step has polled
  failures

policy_vars == <<policy, dueIn, busy, run, polled, failures>>

Process == Replica \cup Api
Free    == [at |-> "free"]

\* by: the process; waits: its loop waits for the run; age: ticks since started.
InFlight == [at : {"load", "poll", "save"}, by : Process, waits : BOOLEAN, age : 0..Interval]

PolicyTypeOK ==
  /\ policy \in {"enabled", "disabled", "deleted"}
  /\ dueIn \in 0..Interval
  /\ busy \subseteq Replica
  /\ run \in [Run -> InFlight \cup {Free}]
  /\ \A x \in Run : run[x] # Free /\ run[x].waits => run[x].by \in busy
  /\ polled \subseteq Device
  /\ failures \in 0..MaxFailures

PolicyInit ==
  /\ policy = "enabled"
  /\ dueIn = 0
  /\ busy = {}
  /\ run = [x \in Run |-> Free]
  /\ polled = {}
  /\ failures = 0

-----------------------------------------------------------------------------
\* normalize_shard_config: never less than one shard, and an id below their number.
Count      == IF ShardCount = 0 THEN 1 ELSE ShardCount
ShardOf(p) == ShardId[p] % Count

\* Mutant of Targets: neither the id nor the hash is taken modulo the count.
TargetsRaw(p) == {d \in Device : Hash[d] = ShardId[p]}

(* filter_for_shard over the targets                                       *)
Targets(p) == {d \in Device : Count > 1 => Hash[d] % Count = ShardOf(p)}

-----------------------------------------------------------------------------
Failure == failures < MaxFailures /\ failures' = failures + 1

Begin(x, p, waits) ==
  run' = [run EXCEPT ![x] = [at |-> "load", by |-> p, waits |-> waits, age |-> 0]]

\* The run ends, and its loop goes on.
Finish(x) ==
  /\ run' = [run EXCEPT ![x] = Free]
  /\ busy' = IF run[x].waits THEN busy \ {run[x].by} ELSE busy

(* run_due finds the policy due.                                           *)
Due(p, x) ==
  /\ p \notin busy
  /\ policy = "enabled"
  /\ dueIn = 0
  /\ run[x] = Free
  /\ Begin(x, p, TRUE)
  /\ busy' = busy \cup {p}
  /\ polled' = {}
  /\ UNCHANGED <<policy, dueIn, failures>>

(* POST /{id}/run executes it whether it is due or not.                    *)
RunNow(p, x) ==
  /\ run[x] = Free
  /\ Begin(x, p, FALSE)
  /\ polled' = {}
  /\ UNCHANGED <<policy, dueIn, busy, failures>>

(* run_policy reads the policy, if it is still there, and its devices.     *)
Load(x) ==
  /\ run[x].at = "load"
  /\ IF policy = "deleted"
     THEN Finish(x)
     ELSE run' = [run EXCEPT ![x].at = "poll", ![x].age = 0] /\ UNCHANGED busy
  /\ polled' = {}
  /\ UNCHANGED <<policy, dueIn, failures>>

(* _execute polls them; what it raises is noted in the policy.             *)
Poll(x) ==
  /\ run[x].at = "poll"
  /\ \/ polled' = Targets(run[x].by) /\ UNCHANGED failures
     \/ Failure /\ polled' \in SUBSET Targets(run[x].by)
  /\ run' = [run EXCEPT ![x].at = "save"]
  /\ UNCHANGED <<policy, dueIn, busy>>

(* The next run is an interval after this one has started.                 *)
Save(x) ==
  /\ run[x].at = "save"
  /\ dueIn' = IF policy = "deleted" THEN dueIn ELSE Interval - run[x].age
  /\ Finish(x)
  /\ polled' = {}
  /\ UNCHANGED <<policy, failures>>

(* A session of run_policy fails, and with it the gather of the loop.      *)
RunFails(x) ==
  /\ run[x].at \in {"load", "save"}
  /\ Failure
  /\ Finish(x)
  /\ polled' = {}
  /\ UNCHANGED <<policy, dueIn>>

(* The run of another policy fails: gather raises, and the loop starts     *)
(* anew while this one is still under way.                                 *)
LoopFails(x) ==
  /\ run[x] # Free
  /\ run[x].waits
  /\ Failure
  /\ run' = [run EXCEPT ![x].waits = FALSE]
  /\ busy' = busy \ {run[x].by}
  /\ polled' = {}
  /\ UNCHANGED <<policy, dueIn>>

(* The process dies, with every run of its own.                            *)
Dies(p) ==
  /\ \E x \in Run : run[x] # Free /\ run[x].by = p
  /\ Failure
  /\ run' = [x \in Run |-> IF run[x] # Free /\ run[x].by = p THEN Free ELSE run[x]]
  /\ busy' = busy \ {p}
  /\ polled' = {}
  /\ UNCHANGED <<policy, dueIn>>

(* PATCH and DELETE.  The next run stays when a policy is disabled.        *)
Edit(to) ==
  /\ policy \notin {"deleted", to}
  /\ policy' = to
  /\ polled' = {}
  /\ UNCHANGED <<dueIn, busy, run, failures>>

Tick ==
  /\ dueIn' = IF dueIn = 0 THEN 0 ELSE dueIn - 1
  /\ run' = [x \in Run |->
       IF run[x] # Free /\ run[x].age < Interval THEN [run[x] EXCEPT !.age = @ + 1] ELSE run[x]]
  /\ polled' = {}
  /\ UNCHANGED <<policy, busy, failures>>

Progress(x) == Load(x) \/ Poll(x) \/ Save(x)

PolicyNext ==
  \/ \E x \in Run :
       \/ \E p \in Replica : Due(p, x)
       \/ \E p \in Api : RunNow(p, x)
       \/ Progress(x) \/ RunFails(x) \/ LoopFails(x)
  \/ \E p \in Process : Dies(p)
  \/ \E to \in {"enabled", "disabled", "deleted"} : Edit(to)
  \/ Tick

(* Time passes, a run goes on, and a loop that is free looks again within  *)
(* its check interval, so it sees a policy that stays due.                 *)
PolicyFairness ==
  /\ WF_policy_vars(Tick)
  /\ \A x \in Run : WF_policy_vars(Progress(x))
  /\ \A p \in Replica : WF_policy_vars(\E x \in Run : Due(p, x))

PolicySpec == PolicyInit /\ [][PolicyNext]_policy_vars /\ PolicyFairness

-----------------------------------------------------------------------------
(* Every device of a policy that stays enabled is polled again and again,  *)
(* whatever fails, dies, or is run by hand meanwhile.                      *)
DevicesPolled ==
  \A d \in Device : <>[](policy = "enabled") => []<>(d \in polled)

=============================================================================
