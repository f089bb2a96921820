----------------------------- MODULE MCOperations --------------------------
(***************************************************************************)
(* What requests, tasks and loops do to one record while others do the     *)
(* same, on small instances: backups of configurations, the status of an   *)
(* interface, the history of a score, the retention of raw data, the       *)
(* budgets of requests and of refreshes, the heartbeat of a worker, the    *)
(* counters of an interface, the default policies, a report schedule, the  *)
(* output of a saved command, the import of devices, the counters of a     *)
(* bulkstats source, the rules of alarms; and two computations, of what a  *)
(* node affects and of the score of a service.  They share no state, so an *)
(* execution follows one of them, chosen at the start.                     *)
(***************************************************************************)
EXTENDS ConfigBackups, InterfaceAdmin, ScoreSnapshots, RetentionPolicy,
        RateLimit, RefreshLimits, Heartbeat, BlastRadius,
        CounterRates, PolicySuite, ReportSchedules, CommandRuns, BulkImport,
        IngestStats, ServiceScores, AlarmRules, TLC

(* All graphs of up to three links on four nodes, and the ring of five     *)
(* nodes with its links stored in every way: the smallest one in which a   *)
(* search that is not breadth first finds a node the longer way.           *)
Pairs == {p \in (1 .. 4) \X (1 .. 4) : p[1] # p[2]}

Ring == {{<<i, (i % 5) + 1>> : i \in kept} \cup
         {<<(i % 5) + 1, i>> : i \in 1 .. 5 \ kept} : kept \in SUBSET (1 .. 5)}

MCGraph == UNION {kSubset(k, Pairs) : k \in 0 .. 3} \cup Ring

\* Tables that name hosts in another order, and one host twice.
MCTable == {<<1, 2>>, <<2, 1>>, <<1, 1>>}

(* A device n and interfaces p, of n, and q, of another.  Services that    *)
(* depend on each other, one that has no members, and one whose member     *)
(* weighs nothing.                                                         *)
MCWeight ==
  [mesh |-> [n |-> 2, p |-> 1], link |-> [p |-> 1, q |-> 3], all |-> << >>,
   idle |-> [n |-> 0]]

MCReach == {{"n"}, {"n", "p"}, {"q"}}

Needs(weight, critical) == [weight |-> weight, critical |-> critical]

MCDependency ==
  [mesh |-> [link |-> Needs(1, TRUE)], link |-> [mesh |-> Needs(2, FALSE)],
   all  |-> [mesh |-> Needs(0, FALSE), link |-> Needs(1, FALSE)], idle |-> << >>]

\* The processes and addresses of the rate limiter, whose runs are the longest.
Symmetry == Permutations(Process) \cup Permutations(Address)

VARIABLE follows   \* the component an execution follows

(* Searches differ by the ranks of nodes only in mode "auto" and where     *)
(* there are links.  A component that is not followed has one state.       *)
Distinct ==
  /\ IF follows = "search"
       THEN /\ links \in MCGraph
            /\ mode \in {"auto", "downstream", "upstream", "bidirectional"}
            /\ rank \in [Node -> Rank \cup {NoRank}]
            /\ \A n \in Node : mode # "auto" \/ Outbound(n) \cup Inbound(n) = {}
                               => rank[n] = NoRank
       ELSE /\ rank = [n \in Node |-> NoRank]
            /\ links = {} /\ mode = "auto" /\ limit = 1
  /\ IF follows = "backups" THEN device \in Config
                            ELSE device = CHOOSE x \in Config : TRUE
  /\ IF follows = "admin" THEN configured \in Status ELSE configured = "up"
  /\ IF follows = "rates" THEN modulus \in {Small, Big} ELSE modulus = Small
  /\ IF follows = "report" THEN keep \in Keep ELSE keep = 0

Init ==
  /\ follows \in {"backups", "admin", "scores", "retention", "rate", "refresh",
                  "beat", "rates", "suite", "report", "search",
                  "commands", "import", "ingest", "services", "rules"}
  /\ Distinct
  /\ BackupInit /\ AdminInit /\ SnapshotInit /\ RetentionInit
  /\ RateInit /\ RefreshInit /\ BeatInit /\ RatesInit /\ SuiteInit
  /\ ReportInit /\ RadiusInit /\ CommandInit /\ ImportInit
  /\ IngestInit /\ ScoresInit /\ RulesInit

Stays(who, what, vars) == IF who = what THEN TRUE ELSE UNCHANGED vars

\* Only the component who takes a step.
Only(who) ==
  /\ follows = who
  /\ UNCHANGED follows
  /\ Stays(who, "backups", backup_vars)
  /\ Stays(who, "admin", admin_vars)
  /\ Stays(who, "scores", snapshot_vars)
  /\ Stays(who, "retention", retention_vars)
  /\ Stays(who, "rate", limit_vars)
  /\ Stays(who, "refresh", refresh_vars)
  /\ Stays(who, "beat", beat_vars)
  /\ Stays(who, "rates", rates_vars)
  /\ Stays(who, "suite", suite_vars)
  /\ Stays(who, "report", report_vars)
  /\ Stays(who, "search", radius_vars)
  /\ Stays(who, "commands", command_vars)
  /\ Stays(who, "import", import_vars)
  /\ Stays(who, "ingest", ingest_vars)
  /\ Stays(who, "services", scores_vars)
  /\ Stays(who, "rules", rules_vars)

Next ==
  \/ Only("backups") /\ BackupNext
  \/ Only("admin") /\ AdminNext
  \/ Only("scores") /\ SnapshotNext
  \/ Only("retention") /\ RetentionNext
  \/ Only("rate") /\ RateNext
  \/ Only("refresh") /\ RefreshNext
  \/ Only("beat") /\ BeatNext
  \/ Only("rates") /\ RatesNext
  \/ Only("suite") /\ SuiteNext
  \/ Only("report") /\ ReportNext
  \/ Only("search") /\ Round
  \/ Only("commands") /\ CommandNext
  \/ Only("import") /\ ImportNext
  \/ Only("ingest") /\ IngestNext
  \/ Only("services") /\ ScoresNext
  \/ Only("rules") /\ RulesNext

all == <<backup_vars, admin_vars, snapshot_vars, retention_vars,
         limit_vars, refresh_vars, beat_vars, rates_vars, suite_vars,
         report_vars, radius_vars, command_vars, import_vars, ingest_vars,
         scores_vars, rules_vars, follows>>

Spec == Init /\ [][Next]_all

=============================================================================
