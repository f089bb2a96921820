------------------------------- MODULE MCLoops -----------------------------
(***************************************************************************)
(* What the supervisor's loops drive, on small instances: the two          *)
(* bulkstats collectors, a monitoring policy, the building of the topology *)
(* and the storing of scans; and requests that run commands and wait for   *)
(* connections of one pool.  They share no state, so an execution follows  *)
(* one of them, chosen at the start, and the others stay as they are.      *)
(***************************************************************************)
EXTENDS PullCollector, WatchCollector, DiscoveryPersist, MonitoringPolicies,
        CommandRuns, MCTopologyBuild

CONSTANTS n1, n2, s1, s2, x1, x2, r1, r2, a1, y1, y2

MCUnparseable == {4}
MCMalformed   == {2}

\* The second replica has an id that only counts when there are shards.
MCShardId == [p \in {r1, r2, a1} |-> IF p = r2 THEN 1 ELSE 0]
MCHash    == [d \in {y1, y2} |-> IF d = y2 THEN 1 ELSE 0]

VARIABLE follows   \* "pull", "watch", "persist", "policy", "build", "commands"

all == <<pull_vars, watch_vars, persist_vars, policy_vars, build_vars,
         command_vars, follows>>

Init ==
  /\ PullInit /\ WatchInit /\ PersistInit /\ PolicyInit /\ BuildInit
  /\ CommandInit
  /\ follows \in {"pull", "watch", "persist", "policy", "build", "commands"}

OfPull(A) ==
  /\ follows = "pull" /\ A
  /\ UNCHANGED <<watch_vars, persist_vars, policy_vars, build_vars,
                 command_vars, follows>>
OfWatch(A) ==
  /\ follows = "watch" /\ A
  /\ UNCHANGED <<pull_vars, persist_vars, policy_vars, build_vars,
                 command_vars, follows>>
OfPersist(A) ==
  /\ follows = "persist" /\ A
  /\ UNCHANGED <<pull_vars, watch_vars, policy_vars, build_vars,
                 command_vars, follows>>
OfPolicy(A) ==
  /\ follows = "policy" /\ A
  /\ UNCHANGED <<pull_vars, watch_vars, persist_vars, build_vars,
                 command_vars, follows>>
OfBuild(A) ==
  /\ follows = "build" /\ A
  /\ UNCHANGED <<pull_vars, watch_vars, persist_vars, policy_vars,
                 command_vars, follows>>
OfCommands(A) ==
  /\ follows = "commands" /\ A
  /\ UNCHANGED <<pull_vars, watch_vars, persist_vars, policy_vars,
                 build_vars, follows>>

Next ==
  \/ OfPull(PullNext) \/ OfWatch(WatchNext) \/ OfPersist(PersistNext)
  \/ OfPolicy(PolicyNext) \/ OfBuild(BuildNext)
  \/ OfCommands(CommandNext)

\* The fairness of each, for the executions that follow it.
Spec ==
  /\ Init
  /\ [][Next]_all
  /\ WF_all(OfPull(Pull))
  /\ WF_all(OfWatch(Watch))
  /\ \A s \in Scan : SF_all(OfPersist(Goes(s)))
  /\ WF_all(OfPolicy(Tick))
  /\ \A x \in Run : WF_all(OfPolicy(Progress(x)))
  /\ \A p \in Replica : WF_all(OfPolicy(\E x \in Run : Due(p, x)))
  /\ \A b \in Builder : WF_all(OfBuild(BuildStep(b)))
  /\ \A r \in Client : WF_all(OfCommands(ClientGoes(r)))

(* DevicesPolled, of the executions that follow the policy: as long as it  *)
(* is enabled, every device is polled again and again.                     *)
PolicyPolled == follows = "policy" => DevicesPolled

=============================================================================
