---------------------------- MODULE MCManagement ---------------------------
(***************************************************************************)
(* What the system keeps of devices and of those who manage them, on small *)
(* instances: the samples of a device and the alarms of its threshold, the *)
(* parts of a chassis, the services that devices are members of, the roles *)
(* of users, and the trail of who was given which.  They share no state,   *)
(* so an execution follows one of them, chosen at the start.               *)
(***************************************************************************)
EXTENDS Telemetry, ChassisInventory, ServiceCatalog, AccountTrail, RoleCatalog,
        TLC

CONSTANTS w1, p1, own, shared

MCWorker == {w1}
MCPoller == {p1}
MCValue  == 0..2

Rule(operator, clear_value, auto_clear, enabled) ==
  [operator |-> operator, value |-> 1, clear_value |-> clear_value,
   auto_clear |-> auto_clear, enabled |-> enabled]

(* A limit of 1 with each operator, with hysteresis, without, the wrong    *)
(* way round, and switched off.                                            *)
MCSetting ==
  {Rule("gt", NoValue, TRUE, TRUE), Rule("gte", 0, TRUE, TRUE), Rule("lt", 2, TRUE, TRUE),
   Rule("lte", NoValue, FALSE, TRUE), Rule("gt", 2, TRUE, TRUE), Rule("gt", NoValue, TRUE, FALSE)}

MCKey == {own, shared}

Makes(clears(_), key(_)) == [m \in Message |-> [clears |-> clears(m), key |-> key(m)]]

(* Rules that make a raise of every message, or a clear, or give another   *)
(* key to those of one value, raises of some settings and clears of others.*)
MCRewriting ==
  LET Own(m) == own
  IN  {Plain, Makes(LAMBDA m : FALSE, Own), Makes(LAMBDA m : TRUE, Own),
       Makes(LAMBDA m : m[1] = "clear", LAMBDA m : IF m[2] = 2 THEN shared ELSE own)}

\* What is true of the states from which AlarmFollowsEvaluations can still fail.
Unmixed == ~mixed

VARIABLE follows   \* the component an execution follows

\* A component that is not followed has one state.
Started ==
  /\ follows \in {"telemetry", "chassis", "services", "trail", "roles"}
  /\ IF follows = "telemetry" THEN threshold \in Setting
                              ELSE threshold = CHOOSE t \in Setting : TRUE
  /\ Init /\ ChassisInit /\ CatalogueInit /\ TrailInit /\ CatalogInit

Stays(who, what, these) == IF who = what THEN TRUE ELSE UNCHANGED these

\* Only the component who takes a step.
Only(who) ==
  /\ follows = who
  /\ UNCHANGED follows
  /\ Stays(who, "telemetry", vars)
  /\ Stays(who, "chassis", chassis_vars)
  /\ Stays(who, "services", service_vars)
  /\ Stays(who, "trail", trail_vars)
  /\ Stays(who, "roles", catalog_vars)

Manage ==
  \/ Only("telemetry") /\ Next
  \/ Only("chassis") /\ ChassisNext
  \/ Only("services") /\ CatalogueNext
  \/ Only("trail") /\ TrailNext
  \/ Only("roles") /\ CatalogNext

all == <<vars, chassis_vars, service_vars, trail_vars, catalog_vars, follows>>

Managed == Started /\ [][Manage]_all

=============================================================================
