------------------------------ MODULE Heartbeat ----------------------------
(***************************************************************************)
(* Which workers are alive (services/observability/heartbeat.py).  A loop  *)
(* of the supervisor works, tells Redis that it did, and sleeps; its       *)
(* record in Redis has the time of the last heartbeat, counters, and a     *)
(* time to live, each written by a command of its own, none of which may   *)
(* break the loop.  Replicas of one kind share one record.                 *)
(*                                                                         *)
(* The commands take no time on the scale of a tick.                       *)
(***************************************************************************)
EXTENDS Integers, FiniteSets

CONSTANTS
  Replica,   \* of one kind of worker
  Expected,  \* expected_interval_s
  Interval,  \* how long the loop sleeps after a pass that succeeded
  Backoff,   \* and after one that failed
  MaxPass,   \* how long a pass takes at most
  TimeToLive,
  MaxFaults, \* bound: crashes and failing commands
  MaxTicks    \* bound: the time

ASSUME HeartbeatAssumption ==
  /\ {Expected, Interval, Backoff, MaxPass, TimeToLive} \subseteq Nat
  /\ Expected > 0 /\ Interval > 0 /\ Backoff \in 1 .. Interval
  /\ TimeToLive > 0 /\ MaxFaults \in Nat /\ MaxTicks \in Nat

VARIABLES
  tick,
  record,  \* what Redis has of the kind: last_run_at and when it is dropped
  loop,    \* [Replica -> what it is at, and until when at most]
  heard,   \* the replicas whose last heartbeat set both the time and the life
  silent,  \* since when no replica has been up, or NotYet
  faults

beat_vars == <<tick, record, loop, heard, silent, faults>>

NotYet    == MaxTicks + TimeToLive + 1
Unknown  == 0 - 1
NoRecord == [last |-> Unknown, dies |-> 0]
Down     == [at |-> "down", until |-> 0, ok |-> TRUE]
Up       == {w \in Replica : loop[w] # Down}

BeatInit ==
  /\ tick = 0
  /\ record = NoRecord
  /\ loop = [w \in Replica |-> Down]
  /\ heard = {} /\ silent = 0 /\ faults = 0

\* The record as a command of this moment finds it: empty ones do not exist.
Current == IF record.dies <= tick THEN NoRecord ELSE record
Present == record.dies > tick

\* What HSET makes of it, which leaves its time to live alone, and EXPIRE.
WithFields == [last |-> tick, dies |-> IF Present THEN record.dies ELSE NotYet]
WithLife   == [record EXCEPT !.dies = tick + TimeToLive]

Becomes(w, what, until) ==
  loop' = [loop EXCEPT ![w].at = what, ![w].until = until]

\* After _hset: "starting" is followed by the first pass.
AfterBeat(w) ==
  IF loop[w].at \in {"starts", "starts_living"}
    THEN Becomes(w, "works", tick + MaxPass)
    ELSE Becomes(w, "counts", tick)

(* The loop begins, or the process is back.                                *)
Start(w) ==
  /\ loop[w] = Down
  /\ loop' = [loop EXCEPT ![w] = [at |-> "starts", until |-> tick, ok |-> TRUE]]
  /\ silent' = NotYet
  /\ UNCHANGED <<tick, record, heard, faults>>

(* A pass ends well, or raises.                                            *)
EndPass(w) ==
  /\ loop[w].at = "works"
  /\ \E ok \in BOOLEAN :
       loop' = [loop EXCEPT ![w] = [at |-> "beats", until |-> tick, ok |-> ok]]
  /\ UNCHANGED <<tick, record, heard, silent, faults>>

SetFields(w) ==
  /\ loop[w].at \in {"starts", "beats"}
  /\ record' = WithFields
  /\ Becomes(w, IF loop[w].at = "starts" THEN "starts_living" ELSE "lives",
             tick)
  /\ heard' = heard \ {w}
  /\ UNCHANGED <<tick, silent, faults>>

Expire(w) ==
  /\ loop[w].at \in {"starts_living", "lives"}
  /\ record' = WithLife
  /\ AfterBeat(w)
  /\ heard' = heard \cup {w}
  /\ UNCHANGED <<tick, silent, faults>>

(* HSET or EXPIRE raises, executed or not: the rest of _hset is left out.  *)
BeatFails(w) ==
  /\ faults < MaxFaults
  /\ faults' = faults + 1
  /\ loop[w].at \in {"starts", "beats", "starts_living", "lives"}
  /\ \/ UNCHANGED record
     \/ /\ loop[w].at \in {"starts", "beats"}
        /\ record' = WithFields
     \/ /\ loop[w].at \in {"starts_living", "lives"}
        /\ record' = WithLife
  /\ AfterBeat(w)
  /\ heard' = heard \ {w}
  /\ UNCHANGED <<tick, silent>>

(* HINCRBY, which makes a record of a counter alone when there is none; or *)
(* it raises.  Then the loop sleeps.                                       *)
CountRun(w) ==
  /\ loop[w].at = "counts"
  /\ \/ /\ record' = IF Present THEN record
                     ELSE [last |-> Unknown, dies |-> NotYet]
        /\ UNCHANGED faults
     \/ /\ faults < MaxFaults
        /\ faults' = faults + 1
        /\ UNCHANGED record
  /\ Becomes(w, "sleeps", tick + IF loop[w].ok THEN Interval ELSE Backoff)
  /\ UNCHANGED <<tick, heard, silent>>

Wake(w) ==
  /\ loop[w].at = "sleeps"
  /\ loop[w].until = tick
  /\ Becomes(w, "works", tick + MaxPass)
  /\ UNCHANGED <<tick, record, heard, silent, faults>>

(* The process dies, or is removed.                                        *)
Crash(w) ==
  /\ faults < MaxFaults
  /\ faults' = faults + 1
  /\ w \in Up
  /\ loop' = [loop EXCEPT ![w] = Down]
  /\ heard' = heard \ {w}
  /\ silent' = IF Up = {w} THEN tick ELSE NotYet
  /\ UNCHANGED <<tick, record>>

BeatTick ==
  /\ tick < MaxTicks
  /\ \A w \in Up : tick < loop[w].until
  /\ tick' = tick + 1
  /\ UNCHANGED <<record, loop, heard, silent, faults>>

BeatNext ==
  \/ BeatTick
  \/ \E w \in Replica :
       \/ Start(w) \/ EndPass(w) \/ Wake(w) \/ Crash(w)
       \/ SetFields(w) \/ Expire(w) \/ BeatFails(w) \/ CountRun(w)

BeatSpec == BeatInit /\ [][BeatNext]_beat_vars

-----------------------------------------------------------------------------
\* Mutant of IsStale: a record that is gone is not looked at.
IsStaleIfKnown == Current.last # Unknown /\ tick - Current.last > Expected * 3

\* _parse_status.
IsStale == Current.last = Unknown \/ tick - Current.last > Expected * 3

(* A replica that is up, and whose last heartbeat got through, is not      *)
(* flagged, whatever the others do and whatever became of earlier          *)
(* heartbeats, provided its loop does go round in three times the interval *)
(* it said to expect, and in less than the life of the record.  When no    *)
(* replica has been up for three of those intervals, the worker is         *)
(* flagged, and stays so when its record is dropped.                       *)
StaleMeansDead ==
  /\ Interval + MaxPass <= Expected * 3 /\ Interval + MaxPass < TimeToLive
       => (heard # {} => ~IsStale)
  /\ tick - silent > Expected * 3 => IsStale

=============================================================================
