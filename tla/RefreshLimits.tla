---------------------------- MODULE RefreshLimits --------------------------
(***************************************************************************)
(* Which announcements of a device start a refresh of it                   *)
(* (DiscoveryRefreshOrchestrator): not while one runs, not soon after one  *)
(* started, and only so many in a minute.  The tests and the note of the   *)
(* start have no await between them; the refresh then takes as long as it  *)
(* takes.  All of it is the memory of one process, and lasts as long.      *)
(***************************************************************************)
EXTENDS Integers, Sequences, FiniteSets

CONSTANTS
  Target,       \* devices
  Debounce,     \* debounce_s
  Minute,       \* the 60 s of the window
  MaxPerMinute, \* max_per_minute
  MaxSecond     \* bound: the time

ASSUME RefreshAssumption ==
  /\ IsFiniteSet(Target)
  /\ Debounce \in Nat /\ Minute \in Nat \ {0}
  /\ MaxPerMinute \in Nat /\ MaxSecond \in Nat

VARIABLES
  second,         \* the clock, in whatever unit
  last_scheduled, \* [Target -> time], with Unscheduled for none
  in_flight,      \* SUBSET Target
  window,         \* Seq(time)
  running,        \* [Target -> Nat], refreshes of the device under way
  started         \* [Target -> Seq(time)], when refreshes of it started

refresh_vars ==
  <<second, last_scheduled, in_flight, window, running, started>>

Second      == 0 .. MaxSecond
Unscheduled == 0 - Debounce

RefreshInit ==
  /\ second = 0
  /\ last_scheduled = [d \in Target |-> Unscheduled]
  /\ in_flight = {}
  /\ window = << >>
  /\ running = [d \in Target |-> 0]
  /\ started = [d \in Target |-> << >>]

\* _prune_window: the first one goes as long as it is too old.
PrunedWindow ==
  LET gone == CHOOSE n \in 0 .. Len(window) :
        /\ \A i \in 1 .. n : window[i] < second - Minute
        /\ n < Len(window) => window[n + 1] >= second - Minute
  IN  SubSeq(window, gone + 1, Len(window))

\* Mutant of ShouldRefresh: a refresh is taken to end within the debounce.
ShouldRefreshAgain(d) ==
  /\ second - last_scheduled[d] >= Debounce
  /\ Len(PrunedWindow) < MaxPerMinute

(* should_refresh, in the order of its tests; pruning leaves what later    *)
(* prunings leave.                                                         *)
ShouldRefresh(d) ==
  /\ d \notin in_flight
  /\ second - last_scheduled[d] >= Debounce
  /\ Len(PrunedWindow) < MaxPerMinute

(* maybe_refresh, as far as its await.                                     *)
StartRefresh(d) ==
  /\ ShouldRefresh(d)
  /\ last_scheduled' = [last_scheduled EXCEPT ![d] = second]
  /\ window' = Append(PrunedWindow, second)
  /\ in_flight' = in_flight \cup {d}
  /\ running' = [running EXCEPT ![d] = @ + 1]
  /\ started' = [started EXCEPT ![d] = Append(@, second)]
  /\ UNCHANGED second

(* The refresh ends, or fails: in_flight forgets the device either way.    *)
EndRefresh(d) ==
  /\ running[d] > 0
  /\ running' = [running EXCEPT ![d] = @ - 1]
  /\ in_flight' = in_flight \ {d}
  /\ UNCHANGED <<second, last_scheduled, window, started>>

SecondPasses ==
  /\ second < MaxSecond
  /\ second' = second + 1
  /\ UNCHANGED <<last_scheduled, in_flight, window, running, started>>

RefreshNext ==
  SecondPasses \/ \E d \in Target : StartRefresh(d) \/ EndRefresh(d)

RefreshSpec == RefreshInit /\ [][RefreshNext]_refresh_vars

-----------------------------------------------------------------------------
StartsIn(d, t) ==
  {i \in 1 .. Len(started[d]) : started[d][i] \in t .. t + Minute}

(* A device is refreshed by one task at a time, however long that takes;   *)
(* the refreshes of it start at least the debounce apart; and between any  *)
(* two times a minute apart, both counted, no more of them start than the  *)
(* rate allows, whichever devices they are of.                             *)
RefreshesLimited ==
  /\ \A d \in Target :
       /\ running[d] <= 1
       /\ \A i \in 2 .. Len(started[d]) :
            started[d][i] - started[d][i - 1] >= Debounce
  /\ \A t \in Second :
       Cardinality(UNION {{d} \X StartsIn(d, t) : d \in Target}) <= MaxPerMinute

=============================================================================
