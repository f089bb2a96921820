---------------------------- MODULE CounterRates ---------------------------
(***************************************************************************)
(* From the octet counter of an interface to its rate                      *)
(* (services/kpi/engine.py, poll_device; services/kpi/mapper.py): a poll   *)
(* takes the time, asks the device, and compares the answer with the       *)
(* snapshot the last poll has left.  The snapshots are the engine's, and   *)
(* there is a new engine for every pass of the loop, so only the policies  *)
(* that are due together share them; their polls overlap.                  *)
(*                                                                         *)
(* One device and one counter of its, of either width.                     *)
(***************************************************************************)
EXTENDS Integers

CONSTANTS
  Polling,    \* the polls of the device in a pass
  Small,      \* 2^32
  Big,        \* 2^64
  MaxOctets,  \* bound: what the interface counts
  MaxClock    \* bound: the clock

ASSUME RatesAssumption ==
  /\ {MaxOctets, MaxClock} \subseteq Nat
  /\ {Small, Big} \subseteq Nat \ {0}
  /\ Small <= Big

VARIABLES
  clock,
  octets,    \* what the interface has counted since the device started,
  boots,     \* and how often that was
  modulus,   \* where its counter wraps
  poll,      \* the polls under way
  snapshot,  \* _prev_snapshots
  rate       \* the rate the last step has recorded, and of what

rates_vars == <<clock, octets, boots, modulus, poll, snapshot, rate>>

Nothing == [of |-> "nothing"]

Counter == octets % modulus

\* A reading is the counter and, for the property, what it stands for.
Reading == [counter |-> Counter, octets |-> octets, boots |-> boots]

RatesInit ==
  /\ clock = 0
  /\ octets = 0
  /\ boots = 0
  /\ modulus \in {Small, Big}
  /\ poll = [p \in Polling |-> Nothing]
  /\ snapshot = Nothing
  /\ rate = Nothing

-----------------------------------------------------------------------------
\* Mutant of Delta: a counter wraps one later than it does.
DeltaShort(new, prev) ==
  IF new >= prev THEN new - prev
  ELSE (IF prev < Small THEN Small - 1 ELSE Big - 1) - prev + new

(* _delta_rate: a counter that went down has wrapped, at 32 bits if it     *)
(* could.                                                                  *)
Delta(new, prev) ==
  IF new >= prev THEN new - prev
  ELSE (IF prev < Small THEN Small ELSE Big) - prev + new

-----------------------------------------------------------------------------
(* A pass begins, with a KPIEngine of its own.                             *)
NewEngine ==
  /\ \A p \in Polling : poll[p] = Nothing
  /\ snapshot # Nothing
  /\ snapshot' = Nothing
  /\ rate' = Nothing
  /\ UNCHANGED <<clock, octets, boots, modulus, poll>>

(* poll_device takes the time before it asks,                              *)
StartPoll(p) ==
  /\ poll[p] = Nothing
  /\ poll' = [poll EXCEPT ![p] = [of |-> "time", ts |-> clock]]
  /\ rate' = Nothing
  /\ UNCHANGED <<clock, octets, boots, modulus, snapshot>>

(* the device answers some time later, or not,                             *)
Answer(p) ==
  /\ poll[p].of = "time"
  /\ poll' = [poll EXCEPT ![p] = [of |-> "answer", ts |-> poll[p].ts, reading |-> Reading]]
  /\ rate' = Nothing
  /\ UNCHANGED <<clock, octets, boots, modulus, snapshot>>

NoAnswer(p) ==
  /\ poll[p].of = "time"
  /\ poll' = [poll EXCEPT ![p] = Nothing]
  /\ rate' = Nothing
  /\ UNCHANGED <<clock, octets, boots, modulus, snapshot>>

(* and map_interfaces takes the answer when it gets there.                 *)
MapInterfaces(p) ==
  /\ poll[p].of = "answer"
  /\ LET elapsed == poll[p].ts - snapshot.ts
         new     == poll[p].reading
         prev    == snapshot.reading
     IN  rate' = IF snapshot = Nothing \/ elapsed <= 0 THEN Nothing
                 ELSE [of |-> "rate", delta |-> Delta(new.counter, prev.counter),
                       elapsed |-> elapsed, new |-> new, prev |-> prev]
  /\ snapshot' = poll[p]
  /\ poll' = [poll EXCEPT ![p] = Nothing]
  /\ UNCHANGED <<clock, octets, boots, modulus>>

-----------------------------------------------------------------------------
Traffic ==
  /\ octets < MaxOctets
  /\ octets' = octets + 1
  /\ rate' = Nothing
  /\ UNCHANGED <<clock, boots, modulus, poll, snapshot>>

Reboot ==
  /\ boots = 0
  /\ boots' = boots + 1
  /\ octets' = 0
  /\ rate' = Nothing
  /\ UNCHANGED <<clock, modulus, poll, snapshot>>

Passes ==
  /\ clock < MaxClock
  /\ clock' = clock + 1
  /\ rate' = Nothing
  /\ UNCHANGED <<octets, boots, modulus, poll, snapshot>>

RatesNext ==
  \/ NewEngine
  \/ \E p \in Polling : StartPoll(p) \/ Answer(p) \/ NoAnswer(p) \/ MapInterfaces(p)
  \/ Traffic
  \/ Reboot
  \/ Passes

RatesSpec == RatesInit /\ [][RatesNext]_rates_vars

-----------------------------------------------------------------------------
(* A rate is of what the interface counted between two answers, whichever  *)
(* way the counter wrapped, unless the device restarted between them, the  *)
(* answers overtook each other, or the counter went around once more: a    *)
(* wrap is told by the counter going down, and its width is only guessed.  *)
RateExact ==
  rate # Nothing =>
    LET counted == rate.new.octets - rate.prev.octets
    IN  (/\ rate.new.boots = rate.prev.boots
         /\ counted \in 0..modulus - 1
         /\ modulus = Big => counted <= Big - Small)
          => rate.delta = counted

=============================================================================
